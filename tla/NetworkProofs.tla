--------------------------- MODULE NetworkProofs ---------------------------
(***************************************************************************)
(* Proofs about the network sessions: Clients, for any connections, lists, *)
(* user names, number of requests and agendas of what may be asked; and    *)
(* Framing, for any streams of packets or frames with junk between them,   *)
(* however they are cut.                                                   *)
(***************************************************************************)
EXTENDS Clients, Framing, SequenceTheorems, FiniteSetTheorems, WellFoundedInduction, TLAPS

-----------------------------------------------------------------------------
(* Numbers and lists *)

\* A set of numbers that is not empty has a least one.
LEMMA LeastOf ==
    ASSUME NEW T \in SUBSET Nat, T # {}
    PROVE  \E m \in T : \A n \in T : m <= n
<1> DEFINE R == OpToRel(<, Nat)
<1>1. PICK m \in T : \A n \in T : ~(<<n, m>> \in R)
  <2>1. IsWellFoundedOn(R, Nat)
    BY NatLessThanWellFounded
  <2> HIDE DEF R
  <2> QED
    BY <2>1, WFMin
<1>2. ASSUME NEW n \in T, n < m PROVE FALSE
  <2>1. n \in Nat /\ m \in Nat
    OBVIOUS
  <2>2. <<n, m>> \in R
    BY <1>2, <2>1 DEF OpToRel
  <2> QED
    BY <1>1, <2>2
<1>3. \A n \in T : n \in Nat /\ m \in Nat
  OBVIOUS
<1> QED
  BY <1>2, <1>3

\* The highest id of a table that is not empty is that of a row.
LEMMA MaxOfRows ==
    ASSUME NEW n \in Nat, NEW S \in SUBSET (1..n), S # {}
    PROVE  Max(S) \in S /\ \A y \in S : Max(S) >= y
<1> DEFINE T == {m \in Nat : \A y \in S : m >= y}
<1>1. n \in T
  OBVIOUS
<1>2. PICK m \in T : \A k \in T : m <= k
  BY <1>1, LeastOf
<1>3. m \in S
  <2> SUFFICES ASSUME m \notin S PROVE FALSE
    OBVIOUS
  <2>1. \A y \in S : y \in Nat /\ m >= y /\ m # y /\ y >= 1
    BY <1>2
  <2>2. m \in Nat /\ m # 0
    <3>1. PICK y : y \in S
      OBVIOUS
    <3> QED
      BY <1>2, <2>1, <3>1
  <2>3. m - 1 \in Nat /\ \A y \in S : m - 1 >= y
    BY <2>1, <2>2
  <2>4. m - 1 \in T
    BY <2>3
  <2> QED
    BY <1>2, <2>2, <2>4
<1> QED
  BY <1>3 DEF Max

\* Whoever is on a list has a first entry.
LEMMA FirstIs ==
    ASSUME NEW S, NEW s \in Seq(S), NEW c \in Range(s)
    PROVE  First(s, c) \in DOMAIN s /\ s[First(s, c)] = c
<1> DEFINE T == {i \in DOMAIN s : s[i] = c}
<1>1. T \in SUBSET Nat /\ T # {}
  BY DEF Range
<1>2. PICK i \in T : \A k \in T : i <= k
  BY <1>1, LeastOf
<1>3. \A k \in 1..(i - 1) : s[k] # c
  <2> TAKE k \in 1..(i - 1)
  <2>1. i \in 1..Len(s) /\ Len(s) \in Nat /\ DOMAIN s = 1..Len(s)
    BY <1>2
  <2>2. k \in DOMAIN s /\ ~(i <= k)
    BY <2>1
  <2> QED
    BY <1>2, <2>2
<1> QED
  BY <1>2, <1>3 DEF First

\* c has at most one entry on the list s.
OnceOnly(s, c) == \A i, k \in DOMAIN s : s[i] = c /\ s[k] = c => i = k

\* Without entry i a list has the other entries, in their order.
LEMMA RemoveAtEntries ==
    ASSUME NEW S, NEW s \in Seq(S), NEW i \in DOMAIN s
    PROVE  /\ RemoveAt(s, i) \in Seq(S) /\ DOMAIN RemoveAt(s, i) = 1..(Len(s) - 1)
           /\ \A k \in 1..(Len(s) - 1) :
                RemoveAt(s, i)[k] = s[IF k < i THEN k ELSE k + 1]
<1> DEFINE front == SubSeq(s, 1, i - 1)
           back == SubSeq(s, i + 1, Len(s))
<1>1. Len(s) \in Nat /\ DOMAIN s = 1..Len(s) /\ i \in 1..Len(s)
  OBVIOUS
<1>2. /\ front \in Seq(S) /\ Len(front) = i - 1
      /\ \A k \in 1..(i - 1) : front[k] = s[k]
  BY <1>1
<1>3. /\ back \in Seq(S) /\ Len(back) = Len(s) - i
      /\ \A k \in 1..(Len(s) - i) : back[k] = s[i + k]
  BY <1>1
<1>4. /\ front \o back \in Seq(S)
      /\ Len(front \o back) = Len(front) + Len(back)
      /\ \A k \in 1..(Len(front) + Len(back)) :
           (front \o back)[k] = IF k <= Len(front) THEN front[k]
                                ELSE back[k - Len(front)]
  BY <1>2, <1>3, ConcatProperties
<1> HIDE DEF front, back
<1>5. RemoveAt(s, i) = front \o back
  BY DEF RemoveAt, front, back
<1>6. Len(front) + Len(back) = Len(s) - 1
  BY <1>1, <1>2, <1>3
<1>7. DOMAIN (front \o back) = 1..(Len(s) - 1)
  BY <1>4, <1>6
<1>8. ASSUME NEW k \in 1..(Len(s) - 1)
      PROVE  (front \o back)[k] = s[IF k < i THEN k ELSE k + 1]
  <2>1. CASE k < i
    <3>1. k <= Len(front) /\ k \in 1..(i - 1)
      BY <2>1, <1>1, <1>2
    <3> QED
      BY <2>1, <3>1, <1>2, <1>4, <1>6
  <2>2. CASE ~(k < i)
    <3>1. k - (i - 1) \in 1..(Len(s) - i) /\ i + (k - (i - 1)) = k + 1
      BY <2>2, <1>1
    <3>2. back[k - (i - 1)] = s[k + 1]
      BY <3>1, <1>3
    <3>3. ~(k <= Len(front)) /\ k - Len(front) = k - (i - 1)
      BY <2>2, <1>1, <1>2
    <3> QED
      BY <2>2, <3>2, <3>3, <1>4, <1>6
  <2> QED
    BY <2>1, <2>2
<1> QED
  BY <1>4, <1>5, <1>7, <1>8

\* What the removal of the first entry of c keeps: nobody comes on the list,
\* nobody is on it more often, c is off if it was on it once, and all others
\* stay.
LEMMA EraseFirstKeeps ==
    ASSUME NEW S, NEW s \in Seq(S), NEW c
    PROVE  /\ EraseFirst(s, c) \in Seq(S)
           /\ Range(EraseFirst(s, c)) \subseteq Range(s)
           /\ \A d : OnceOnly(s, d) => OnceOnly(EraseFirst(s, c), d)
           /\ OnceOnly(s, c) => c \notin Range(EraseFirst(s, c))
           /\ Range(s) \ {c} \subseteq Range(EraseFirst(s, c))
<1>1. CASE c \notin Range(s)
  BY <1>1 DEF EraseFirst
<1>2. CASE c \in Range(s)
  <2> DEFINE i == First(s, c)
             e == RemoveAt(s, i)
             old(k) == IF k < i THEN k ELSE k + 1
  <2>1. i \in DOMAIN s /\ s[i] = c
    BY <1>2, FirstIs
  <2>2. Len(s) \in Nat /\ DOMAIN s = 1..Len(s) /\ i \in 1..Len(s)
    BY <2>1
  <2> HIDE DEF i
  <2>3. /\ e \in Seq(S) /\ DOMAIN e = 1..(Len(s) - 1)
        /\ \A k \in 1..(Len(s) - 1) : e[k] = s[old(k)]
    BY <2>1, RemoveAtEntries
  <2>4. /\ \A k \in 1..(Len(s) - 1) : old(k) \in 1..Len(s) /\ old(k) # i
        /\ \A k, l \in 1..(Len(s) - 1) : old(k) = old(l) => k = l
        /\ \A m \in 1..Len(s) : m # i => \E k \in 1..(Len(s) - 1) : old(k) = m
    <3>1. ASSUME NEW m \in 1..Len(s), m # i PROVE \E k \in 1..(Len(s) - 1) : old(k) = m
      <4>1. CASE m < i
        <5>1. m \in 1..(Len(s) - 1) /\ old(m) = m
          BY <2>2, <4>1
        <5> QED
          BY <5>1
      <4>2. CASE ~(m < i)
        <5>1. m - 1 \in 1..(Len(s) - 1) /\ old(m - 1) = m
          BY <2>2, <3>1, <4>2
        <5> QED
          BY <5>1
      <4> QED
        BY <4>1, <4>2
    <3> QED
      BY <2>2, <3>1
  <2>5. EraseFirst(s, c) = e
    BY <1>2 DEF EraseFirst, i
  <2> HIDE DEF e, old
  <2>6. Range(e) \subseteq Range(s)
    <3> SUFFICES ASSUME NEW k \in 1..(Len(s) - 1) PROVE e[k] \in Range(s)
      BY <2>3 DEF Range
    <3>1. e[k] = s[old(k)] /\ old(k) \in DOMAIN s
      BY <2>2, <2>3, <2>4
    <3> QED
      BY <3>1 DEF Range
  <2>7. ASSUME NEW d, OnceOnly(s, d) PROVE OnceOnly(e, d)
    BY <2>2, <2>3, <2>4, <2>7 DEF OnceOnly
  <2>8. OnceOnly(s, c) => c \notin Range(e)
    BY <2>1, <2>2, <2>3, <2>4 DEF OnceOnly, Range
  <2>9. ASSUME NEW d \in Range(s), d # c PROVE d \in Range(e)
    <3>1. PICK m \in 1..Len(s) : s[m] = d
      BY <2>2 DEF Range
    <3>2. PICK k \in 1..(Len(s) - 1) : old(k) = m
      BY <2>1, <2>4, <2>9, <3>1
    <3> QED
      BY <2>3, <3>1, <3>2 DEF Range
  <2> QED
    BY <2>3, <2>5, <2>6, <2>7, <2>8, <2>9
<1> QED
  BY <1>1, <1>2

\* One entry more.
LEMMA AppendEntry ==
    ASSUME NEW S, NEW s \in Seq(S), NEW c \in S
    PROVE  /\ Append(s, c) \in Seq(S)
           /\ Len(Append(s, c)) = Len(s) + 1
           /\ DOMAIN Append(s, c) = DOMAIN s \cup {Len(s) + 1}
           /\ \A k \in DOMAIN s : Append(s, c)[k] = s[k]
           /\ Append(s, c)[Len(s) + 1] = c
           /\ Range(Append(s, c)) = Range(s) \cup {c}
           /\ \A d : OnceOnly(s, d) /\ (d # c \/ c \notin Range(s)) => OnceOnly(Append(s, c), d)
<1> DEFINE a == Append(s, c)
<1>1. Len(s) \in Nat /\ DOMAIN s = 1..Len(s) /\ Len(s) + 1 \notin DOMAIN s
  OBVIOUS
<1>2. /\ a \in Seq(S) /\ Len(a) = Len(s) + 1
      /\ \A k \in 1..Len(s) : a[k] = s[k]
      /\ a[Len(s) + 1] = c
  BY AppendProperties
<1>3. DOMAIN a = 1..(Len(s) + 1)
  BY <1>2
<1>4. DOMAIN a = DOMAIN s \cup {Len(s) + 1}
  BY <1>1, <1>3
<1> HIDE DEF a
<1>5. Range(a) = Range(s) \cup {c}
  BY <1>1, <1>2, <1>4 DEF Range
<1>6. ASSUME NEW d, OnceOnly(s, d), d # c \/ c \notin Range(s) PROVE OnceOnly(a, d)
  BY <1>1, <1>2, <1>4, <1>6 DEF OnceOnly, Range
<1> QED
  BY <1>1, <1>2, <1>4, <1>5, <1>6 DEF a

-----------------------------------------------------------------------------
(* Types, and the steps that the handler of a request goes through *)

Person == [id : Nat, name : Name, role : Int]
Step == {"none", "queued", "answer", "done", "login", "set", "logout", "password",
         "answerAndKick", "kick", "remove", "delete", "answerAndKickUser", "kickUser",
         "add", "modify", "sub", "push", "answerSub", "unsub", "newAgv", "readId",
         "addAgv", "deleteAgv", "removeAgv"}

UserTypes ==
    /\ agenda \in Agendas
    /\ users \subseteq Person /\ lastUserId \in Nat
    /\ who \in [Client -> Person] /\ got \in [Job -> Person]
SessionTypes ==
    /\ sock \in [Client -> {"none", "open", "closed"}]
    /\ reader \in [Client -> {"none", "reading", "ending", "over"}]
    /\ registered \subseteq Client
    /\ subers \in [Topic -> Seq(Client)]
JobTypes ==
    /\ asks \in Seq([c : Client, request : agenda.asks]) /\ Len(asks) <= MaxAsks
    /\ at \in [Job -> Step]
    /\ \A j \in Job : at[j] # "none" <=> j \in DOMAIN asks
RowsInv == lastAgvId \in Nat /\ agvRows \subseteq 1..lastAgvId

\* A handler goes through its own steps only.
Fits(kind, l) ==
    \/ l \in {"queued", "answer", "done"}
    \/ kind = "login" /\ l \in {"login", "set"}
    \/ kind = "logout" /\ l \in {"logout", "answerAndKick", "kick"}
    \/ kind = "password" /\ l \in {"password", "answerAndKick", "kick"}
    \/ kind = "remove" /\ l \in {"remove", "delete", "answerAndKickUser", "kickUser"}
    \/ kind = "add" /\ l = "add"
    \/ kind = "modify" /\ l = "modify"
    \/ kind = "sub" /\ l \in {"sub", "push", "answerSub"}
    \/ kind = "unsub" /\ l = "unsub"
    \/ kind = "newAgv" /\ l \in {"newAgv", "readId", "addAgv"}
    \/ kind = "deleteAgv" /\ l \in {"deleteAgv", "removeAgv"}
StepsFit == \A j \in Job : at[j] # "none" => Fits(Asked(j).todo, at[j])

Types == UserTypes /\ SessionTypes /\ JobTypes /\ RowsInv /\ StepsFit

\* What is known of a request that has come.
LEMMA RequestIs ==
    ASSUME Types, NEW j \in Job, at[j] # "none"
    PROVE  /\ j \in DOMAIN asks /\ asks[j].c \in Client
           /\ Asked(j) \in agenda.asks /\ Asked(j).todo \in Kinds
           /\ Fits(Asked(j).todo, at[j])
           /\ Asked(j).todo \in {"login", "add"} \cup Rewriting => Asked(j).name \in Name
           /\ Asked(j).todo \in {"add"} \cup Rewriting => Asked(j).role \in Int
           /\ Asked(j).todo \in {"sub", "unsub"} => Asked(j).topic \in Topic
<1>1. j \in DOMAIN asks
  BY DEF Types, JobTypes
<1>2. asks[j] \in [c : Client, request : agenda.asks]
  <2> DEFINE R == [c : Client, request : agenda.asks]
  <2>1. asks \in Seq(R)
    BY DEF Types, JobTypes
  <2> HIDE DEF R
  <2>2. asks[j] \in R
    BY <1>1, <2>1
  <2> QED
    BY <2>2 DEF R
<1>3. agenda \in Agendas
  BY DEF Types, UserTypes
<1>4. asks[j].c \in Client /\ Asked(j) \in agenda.asks
  BY <1>2 DEF Asked
<1>5. Fits(Asked(j).todo, at[j])
  BY DEF Types, StepsFit
<1> QED
  BY <1>1, <1>3, <1>4, <1>5, AgendasAssumption

\* A handler moves its own request on, to a step of its kind.
LEMMA HandlerMoves ==
    ASSUME Types, NEW j \in Job, Handler(j)
    PROVE  /\ at[j] \notin {"none", "done"}
           /\ UNCHANGED <<agenda, asks>>
           /\ \E l \in Step \ {"none", "queued"} :
                at' = [at EXCEPT ![j] = l] /\ Fits(Asked(j).todo, l)
<1> DEFINE M == /\ at[j] \notin {"none", "done"}
                /\ UNCHANGED <<agenda, asks>>
                /\ \E l \in Step \ {"none", "queued"} :
                     at' = [at EXCEPT ![j] = l] /\ Fits(Asked(j).todo, l)
<1>1. at[j] # "none" => Asked(j).todo \in Kinds /\ Fits(Asked(j).todo, at[j])
  BY RequestIs
<1>2. CASE Start(j)
  <2>1. PICK l \in {Asked(j).todo, "answer"} : Goto(j, l)
    BY <1>2 DEF Start
  <2>2. at[j] = "queued"
    BY <1>2 DEF Start
  <2>3. Asked(j).todo \in Kinds
    BY <1>1, <2>2
  <2>4. l \in Step \ {"none", "queued"} /\ Fits(Asked(j).todo, l)
    BY <2>3 DEF Fits, Kinds, Step
  <2> QED
    BY <2>1, <2>2, <2>4 DEF Goto
<1>3. CASE Answer(j)
  BY <1>1, <1>3 DEF Answer, Goto, Then, Fits, Kinds, Step
<1>4. CASE Select(j) \/ SetUser(j)
  BY <1>1, <1>4 DEF Select, SetUser, On, Goto, Fits, Step
<1>5. CASE Logout(j) \/ ChangePassword(j) \/ KickSession(j)
  BY <1>1, <1>5 DEF Logout, ChangePassword, KickSession, On, Goto, Fits, Step
<1>6. CASE MayRemove(j) \/ Delete(j) \/ KickSessionByUserId(j)
  BY <1>1, <1>6 DEF MayRemove, Delete, KickSessionByUserId, On, Goto, Fits, Step
<1>7. CASE AddUser(j) \/ ModifyUser(j)
  BY <1>1, <1>7 DEF AddUser, ModifyUser, On, Goto, Fits, Step
<1>8. CASE FindSub(j) \/ PushSub(j) \/ RemoveSub(j)
  BY <1>1, <1>8 DEF FindSub, PushSub, RemoveSub, On, Goto, Fits, Step
<1>9. CASE AgvJob(j)
  BY <1>1, <1>9 DEF AgvJob, On, Goto, Fits, Step
<1> QED
  BY <1>2, <1>3, <1>4, <1>5, <1>6, <1>7, <1>8, <1>9 DEF Handler

LEMMA FirstPersons == FirstUsers \subseteq Person /\ Nobody \in Person
<1>1. Names[1] \in Name /\ Names[2] \in Name /\ "" \in Name
  BY ClientsAssumption DEF Names
<1>2. \A n \in Name, i \in {0, 1, 2}, r \in {0, 1, 2} :
        [id |-> i, name |-> n, role |-> r] \in Person
  BY DEF Person
<1>3. Nobody \in Person
  BY <1>1, <1>2, Zenon DEF Nobody, USER_ROLE_VISITOR
<1>4. [id |-> 1, name |-> Names[1], role |-> 2] \in Person
  BY <1>1, <1>2, Zenon
<1>5. [id |-> 2, name |-> Names[2], role |-> 1] \in Person
  BY <1>1, <1>2, Zenon
<1> QED
  BY <1>3, <1>4, <1>5, Zenon DEF FirstUsers, USER_ROLE_ADMIN

LEMMA TypesInit == Init => Types
<1> SUFFICES ASSUME Init PROVE Types
  OBVIOUS
<1>1. agenda.in \in [Client -> 0..2]
  BY AgendasAssumption DEF Init
<1>2. FirstUsers \subseteq Person /\ Nobody \in Person
  BY FirstPersons
<1>3. who \in [Client -> Person]
  <2>1. ASSUME NEW c \in Client, agenda.in[c] # 0
        PROVE  (CHOOSE u \in FirstUsers : u.id = agenda.in[c]) \in Person
    <3>1. agenda.in[c] \in {1, 2}
      BY <1>1, <2>1
    <3>2. \E u \in FirstUsers : u.id = agenda.in[c]
      BY <3>1 DEF FirstUsers
    <3> QED
      BY <1>2, <3>2
  <2> QED
    BY <1>2, <2>1 DEF Init
<1>4. UserTypes
  BY <1>2, <1>3 DEF Init, UserTypes
<1>5. SessionTypes
  BY DEF Init, SessionTypes
<1>6. JobTypes
  <2> DEFINE R == [c : Client, request : agenda.asks]
  <2>1. <<>> \in Seq(R) /\ Len(<<>>) = 0 /\ DOMAIN <<>> = {}
    OBVIOUS
  <2> HIDE DEF R
  <2>2. at \in [Job -> Step] /\ \A j \in Job : at[j] = "none"
    BY DEF Init, Step
  <2>3. asks = <<>>
    BY DEF Init
  <2>4. MaxAsks \in Nat
    BY ClientsAssumption
  <2> QED
    BY <2>1, <2>2, <2>3, <2>4 DEF JobTypes, R
<1>7. StepsFit
  <2>1. \A j \in Job : at[j] = "none"
    BY DEF Init
  <2> QED
    BY <2>1 DEF StepsFit
<1>8. RowsInv
  BY DEF Init, RegistryInit, RowsInv
<1> QED
  BY <1>4, <1>5, <1>6, <1>7, <1>8 DEF Types

\* A request that comes is one of the agenda, behind those that have come.
LEMMA AskAdds ==
    ASSUME Types, NEW c \in Client, NEW request \in agenda.asks, Len(asks) < MaxAsks,
           asks' = Append(asks, [c |-> c, request |-> request]),
           at' = [at EXCEPT ![Len(asks')] = "queued"], agenda' = agenda
    PROVE  /\ JobTypes' /\ StepsFit'
           /\ \E n \in Job : /\ at[n] = "none" /\ at' = [at EXCEPT ![n] = "queued"]
                             /\ n \notin DOMAIN asks /\ DOMAIN asks' = DOMAIN asks \cup {n}
                             /\ asks'[n] = [c |-> c, request |-> request]
           /\ \A j \in DOMAIN asks : asks'[j] = asks[j]
<1> DEFINE R == [c : Client, request : agenda.asks]
           e == [c |-> c, request |-> request]
           n == Len(asks) + 1
<1>1. asks \in Seq(R) /\ e \in R /\ Len(asks) \in Nat /\ DOMAIN asks = 1..Len(asks)
  BY DEF Types, JobTypes
<1> HIDE DEF R, e
<1>2. /\ asks' \in Seq(R) /\ Len(asks') = n /\ DOMAIN asks' = DOMAIN asks \cup {n}
      /\ asks'[n] = e
      /\ \A j \in DOMAIN asks : asks'[j] = asks[j]
  <2>1. asks' = Append(asks, e)
    BY DEF e
  <2> QED
    BY <1>1, <2>1, AppendEntry
<1>3. n \in Job /\ n \notin DOMAIN asks /\ n <= MaxAsks
  <2>1. MaxAsks \in Nat
    BY ClientsAssumption
  <2>2. n \in 1..MaxAsks /\ n \notin 1..Len(asks) /\ n <= MaxAsks
    BY <1>1, <2>1
  <2> QED
    BY <1>1, <2>2 DEF Job
<1>4. at[n] = "none" /\ at' = [at EXCEPT ![n] = "queued"]
  BY <1>2, <1>3 DEF Types, JobTypes
<1>5. JobTypes'
  <2>1. at' \in [Job -> Step]
    BY <1>4 DEF Types, JobTypes, Step
  <2>2. \A j \in Job : at'[j] # "none" <=> j \in DOMAIN asks'
    BY <1>2, <1>3, <1>4 DEF Types, JobTypes
  <2>3. R' = R
    BY DEF R
  <2> QED
    BY <1>2, <1>3, <2>1, <2>2, <2>3 DEF JobTypes, R
<1>6. StepsFit'
  <2> SUFFICES ASSUME NEW j \in Job, at'[j] # "none"
               PROVE  Fits(asks'[j].request.todo, at'[j])
    BY DEF StepsFit, Asked
  <2>1. CASE j = n
    <3>1. at'[j] = "queued"
      BY <1>3, <1>4, <2>1 DEF Types, JobTypes
    <3> QED
      BY <3>1 DEF Fits
  <2>2. CASE j # n
    <3>1. at'[j] = at[j]
      BY <1>3, <1>4, <2>2 DEF Types, JobTypes
    <3>2. asks'[j] = asks[j]
      BY <1>2, <3>1 DEF Types, JobTypes
    <3> QED
      BY <3>1, <3>2 DEF Types, StepsFit, Asked
  <2> QED
    BY <2>1, <2>2
<1> QED
  BY <1>2, <1>3, <1>4, <1>5, <1>6 DEF e

\* Request n comes from c: all that Ask does to the requests, and to those
\* about lists that ran at once.
Comes(c, request, n) ==
    /\ at[n] = "none" /\ at' = [at EXCEPT ![n] = "queued"]
    /\ n \notin DOMAIN asks /\ DOMAIN asks' = DOMAIN asks \cup {n}
    /\ asks'[n] = [c |-> c, request |-> request]
    /\ \A k \in DOMAIN asks : asks'[k] = asks[k]
    /\ atOnce' = IF /\ request.todo \in {"sub", "unsub"}
                    /\ \E j \in JobsOf(c) : Asked(j).todo \in {"sub", "unsub"}
                 THEN atOnce \cup {c} ELSE atOnce

LEMMA AskComes ==
    ASSUME Types, NEW c \in Client, Ask(c)
    PROVE  \E request \in agenda.asks, n \in Job : Comes(c, request, n)
<1>1. PICK request \in agenda.asks :
        /\ asks' = Append(asks, [c |-> c, request |-> request])
        /\ atOnce' = IF /\ request.todo \in {"sub", "unsub"}
                        /\ \E j \in JobsOf(c) : Asked(j).todo \in {"sub", "unsub"}
                     THEN atOnce \cup {c} ELSE atOnce
  BY DEF Ask
<1>2. Len(asks) < MaxAsks /\ at' = [at EXCEPT ![Len(asks')] = "queued"] /\ agenda' = agenda
  BY DEF Ask
<1>3. PICK n \in Job : /\ at[n] = "none" /\ at' = [at EXCEPT ![n] = "queued"]
                       /\ n \notin DOMAIN asks /\ DOMAIN asks' = DOMAIN asks \cup {n}
                       /\ asks'[n] = [c |-> c, request |-> request]
  BY <1>1, <1>2, AskAdds
<1>4. \A k \in DOMAIN asks : asks'[k] = asks[k]
  BY <1>1, <1>2, AskAdds
<1>5. Comes(c, request, n)
  BY <1>1, <1>3, <1>4, Zenon DEF Comes
<1> QED
  BY <1>5

LEMMA JobsTyped ==
    ASSUME Types, NEW j \in Job, Handler(j)
    PROVE  JobTypes' /\ StepsFit'
<1>1. PICK l \in Step \ {"none", "queued"} :
        at' = [at EXCEPT ![j] = l] /\ Fits(Asked(j).todo, l)
  BY HandlerMoves
<1>2. at[j] # "none" /\ agenda' = agenda /\ asks' = asks
  BY HandlerMoves
<1>3. at' \in [Job -> Step] /\ at'[j] = l /\ \A k \in Job : k # j => at'[k] = at[k]
  BY <1>1 DEF Types, JobTypes
<1>4. JobTypes'
  <2>1. l # "none" /\ \A k \in Job : at[k] # "none" <=> k \in DOMAIN asks
    BY <1>1 DEF Types, JobTypes
  <2>2. \A k \in Job : at'[k] # "none" <=> k \in DOMAIN asks'
    BY <1>2, <1>3, <2>1
  <2> QED
    BY <1>2, <1>3, <2>2 DEF Types, JobTypes
<1>5. StepsFit'
  BY <1>1, <1>2, <1>3 DEF Types, StepsFit, Asked
<1> QED
  BY <1>4, <1>5

\* A person with another id, or another name and role, is one.
LEMMA OtherId ==
    ASSUME NEW p \in Person, NEW i \in Nat
    PROVE  /\ [p EXCEPT !.id = i] \in Person
           /\ [p EXCEPT !.id = i].id = i
  BY DEF Person

Renamed(p, n, r) == [p EXCEPT !.name = n, !.role = r]
LEMMA OtherName ==
    \A p \in Person, n \in Name, r \in Int :
        /\ Renamed(p, n, r) \in Person
        /\ Renamed(p, n, r).id = p.id
<1> TAKE p \in Person, n \in Name, r \in Int
<1>1. Renamed(p, n, r) \in Person
  BY DEF Person, Renamed
<1>2. Renamed(p, n, r).id = p.id
  BY DEF Person, Renamed
<1> QED
  BY <1>1, <1>2

LEMMA RewrittenUsers ==
    ASSUME NEW i, NEW q, q.name \in Name, q.role \in Int, users \subseteq Person,
           NEW v \in Rewritten(i, q)
    PROVE  v \in Person /\ \E u \in users : v.id = u.id
<1>1. PICK u \in users : v = IF u.id = i THEN Renamed(u, q.name, q.role) ELSE u
  BY DEF Rewritten, Renamed
<1>2. CASE v = u
  BY <1>2
<1>3. CASE v = Renamed(u, q.name, q.role)
  BY <1>3, OtherName
<1> QED
  BY <1>1, <1>2, <1>3

\* Changing a password or a user leaves the ids of the users as they are.
LEMMA RewritingUsers ==
    ASSUME Types, NEW j \in Job, ModifyUser(j) \/ ChangePassword(j), NEW v \in users'
    PROVE  v \in Person /\ \E u \in users : v.id = u.id
<1>1. at[j] \in Rewriting
  BY DEF ModifyUser, ChangePassword, On, Rewriting
<1>2. Asked(j).todo \in Rewriting
  BY <1>1, RequestIs DEF Fits, Rewriting
<1>3. Asked(j).name \in Name /\ Asked(j).role \in Int
  BY <1>1, <1>2, RequestIs DEF Rewriting
<1>4. users \subseteq Person
  BY DEF Types, UserTypes
<1>5. PICK i : users' \in {users, Rewritten(i, Asked(j))}
  BY DEF ModifyUser, ChangePassword
<1> QED
  BY <1>3, <1>4, <1>5, RewrittenUsers

\* The ids of the rows, whatever a request does with them.
LEMMA RowsTyped ==
    ASSUME Types, NEW j \in Job, AgvJob(j)
    PROVE  RowsInv' /\ got' \in [Job -> Person]
<1>1. RowsInv /\ lastAgvId \in Nat /\ got \in [Job -> Person]
  BY DEF Types, RowsInv, UserTypes
<1>2. ASSUME NEW n \in Nat PROVE [got EXCEPT ![j].id = n] \in [Job -> Person]
  <2>1. got[j] \in Person
    BY <1>1
  <2>2. [got[j] EXCEPT !.id = n] \in Person
    BY <2>1, OtherId
  <2> QED
    BY <1>1, <2>2
<1>3. CASE InsertAgv /\ got' = [got EXCEPT ![j].id = lastAgvId']
  <2>1. lastAgvId' = lastAgvId + 1 /\ agvRows' = agvRows \cup {lastAgvId + 1}
    BY <1>3 DEF InsertAgv
  <2>2. lastAgvId' \in Nat /\ agvRows' \subseteq 1..lastAgvId'
    BY <1>1, <2>1 DEF RowsInv
  <2> QED
    BY <1>2, <1>3, <2>2 DEF RowsInv
<1>4. CASE UNCHANGED <<got, registryVars>>
  BY <1>1, <1>4 DEF registryVars, RowsInv
<1>5. CASE agvRows # {} /\ ReadAgvId(got[j].id) /\ got' = [got EXCEPT ![j].id = MaxAgvId]
  <2>1. MaxAgvId \in agvRows
    BY <1>1, <1>5, MaxOfRows DEF MaxAgvId, RowsInv
  <2>2. MaxAgvId \in Nat
    BY <1>1, <2>1 DEF RowsInv
  <2> QED
    BY <1>1, <1>2, <1>5, <2>2 DEF ReadAgvId, RowsInv
<1>6. CASE AddAgv(got[j].id) /\ UNCHANGED got
  BY <1>1, <1>6 DEF AddAgv, RowsInv
<1>7. CASE DeleteAgv(Asked(j).id) /\ UNCHANGED got
  BY <1>1, <1>7 DEF DeleteAgv, RowsInv
<1>8. CASE RemoveAgv(Asked(j).id, Adding) /\ UNCHANGED got
  BY <1>1, <1>8 DEF RemoveAgv, RowsInv
<1> QED
  BY <1>3, <1>4, <1>5, <1>6, <1>7, <1>8 DEF AgvJob

\* The users and what is known of them, the sessions and the lists.
LEMMA HandlerTyped ==
    ASSUME Types, NEW j \in Job, Handler(j)
    PROVE  Types'
<1>1. at[j] # "none" /\ agenda' = agenda /\ asks' = asks
  BY HandlerMoves
<1>2. asks[j].c \in Client /\ Asked(j).todo \in Kinds /\ Fits(Asked(j).todo, at[j])
  BY <1>1, RequestIs
<1>3. JobTypes' /\ StepsFit'
  BY JobsTyped
<1>4. RowsInv /\ UserTypes /\ SessionTypes
  BY DEF Types
<1> SUFFICES UserTypes' /\ SessionTypes' /\ RowsInv'
  BY <1>3 DEF Types
<1>5. CASE \/ Start(j) \/ Answer(j) \/ MayRemove(j) \/ FindSub(j)
  BY <1>1, <1>4, <1>5 DEF Start, Answer, MayRemove, FindSub, userVars, sessionVars,
     registryVars, subVars, UserTypes, SessionTypes, RowsInv
<1>6. CASE Select(j)
  BY <1>1, <1>4, <1>6 DEF Select, userVars, sessionVars, registryVars, subVars,
     UserTypes, SessionTypes, RowsInv
<1>7. CASE SetUser(j)
  <2>1. got[j] \in Person /\ who' = [who EXCEPT ![asks[j].c] = got[j]]
    BY <1>4, <1>7 DEF SetUser, UserTypes
  <2>2. who' \in [Client -> Person]
    BY <1>2, <1>4, <2>1 DEF UserTypes
  <2> QED
    BY <1>1, <1>4, <1>7, <2>2 DEF SetUser, userVars, registryVars, subVars,
       UserTypes, SessionTypes, RowsInv
<1>8. CASE Logout(j) \/ ChangePassword(j)
  <2>1. who' = [who EXCEPT ![asks[j].c].id = 0] \/ who' = who
    BY <1>8 DEF Logout, ChangePassword
  <2>2. who' \in [Client -> Person]
    BY <1>2, <1>4, <2>1 DEF UserTypes, Person
  <2>3. users' \subseteq Person
    BY <1>4, <1>8, RewritingUsers DEF Logout, userVars, UserTypes
  <2> QED
    BY <1>1, <1>4, <1>8, <2>2, <2>3 DEF Logout, ChangePassword, userVars, registryVars,
       subVars, UserTypes, SessionTypes, RowsInv
<1>9. CASE KickSession(j) \/ KickSessionByUserId(j)
  <2>1. PICK S : Close(S)
    BY <1>9 DEF KickSession, KickSessionByUserId
  <2>2. sock' \in [Client -> {"none", "open", "closed"}]
    BY <1>4, <2>1 DEF Close, SessionTypes
  <2> QED
    BY <1>1, <1>4, <1>9, <2>1, <2>2 DEF KickSession, KickSessionByUserId, Close,
       userVars, registryVars, UserTypes, SessionTypes, RowsInv
<1>10. CASE Delete(j)
  BY <1>1, <1>4, <1>10 DEF Delete, sessionVars, registryVars, subVars,
     UserTypes, SessionTypes, RowsInv
<1>11. CASE AddUser(j)
  <2>1. Asked(j).todo = "add"
    BY <1>2, <1>11 DEF AddUser, On, Fits
  <2>2. Asked(j).name \in Name /\ Asked(j).role \in Int
    BY <1>1, <2>1, RequestIs DEF Rewriting
  <2>3. users' \subseteq Person /\ lastUserId' \in Nat
    <3>1. CASE UNCHANGED userVars
      BY <1>4, <3>1 DEF userVars, UserTypes
    <3>2. CASE /\ lastUserId' = lastUserId + 1
               /\ users' = users \cup {[id |-> lastUserId', name |-> Asked(j).name,
                                        role |-> Asked(j).role]}
      <4>1. lastUserId' \in Nat
        BY <1>4, <3>2 DEF UserTypes
      <4>2. [id |-> lastUserId', name |-> Asked(j).name, role |-> Asked(j).role] \in Person
        BY <2>2, <4>1 DEF Person
      <4> QED
        BY <1>4, <3>2, <4>1, <4>2 DEF UserTypes
    <3> QED
      BY <1>11, <3>1, <3>2 DEF AddUser
  <2> QED
    BY <1>1, <1>4, <1>11, <2>3 DEF AddUser, sessionVars, registryVars, subVars,
       UserTypes, SessionTypes, RowsInv
<1>12. CASE ModifyUser(j)
  <2>1. users' \subseteq Person
    BY <1>12, RewritingUsers
  <2> QED
    BY <1>1, <1>4, <1>12, <2>1 DEF ModifyUser, sessionVars, registryVars, subVars,
       UserTypes, SessionTypes, RowsInv
<1>13. CASE PushSub(j)
  <2>1. Asked(j).todo = "sub"
    BY <1>2, <1>13 DEF PushSub, On, Fits
  <2>2. Asked(j).topic \in Topic
    BY <1>1, <2>1, RequestIs
  <2>3. Append(subers[Asked(j).topic], asks[j].c) \in Seq(Client)
    BY <1>2, <1>4, <2>2, AppendEntry DEF SessionTypes
  <2>4. subers' \in [Topic -> Seq(Client)]
    BY <1>4, <1>13, <2>3 DEF PushSub, SessionTypes
  <2> QED
    BY <1>1, <1>4, <1>13, <2>4 DEF PushSub, sessionVars, registryVars, userVars,
       UserTypes, SessionTypes, RowsInv
<1>14. CASE RemoveSub(j)
  <2>1. Asked(j).todo = "unsub"
    BY <1>2, <1>14 DEF RemoveSub, On, Fits
  <2>2. Asked(j).topic \in Topic
    BY <1>1, <2>1, RequestIs
  <2>3. EraseFirst(subers[Asked(j).topic], asks[j].c) \in Seq(Client)
    BY <1>4, <2>2, EraseFirstKeeps DEF SessionTypes
  <2>4. subers' \in [Topic -> Seq(Client)]
    BY <1>4, <1>14, <2>3 DEF RemoveSub, SessionTypes
  <2> QED
    BY <1>1, <1>4, <1>14, <2>4 DEF RemoveSub, sessionVars, registryVars, userVars,
       UserTypes, SessionTypes, RowsInv
<1>15. CASE AgvJob(j)
  <2>1. RowsInv' /\ got' \in [Job -> Person]
    BY <1>15, RowsTyped
  <2> QED
    BY <1>1, <1>4, <1>15, <2>1 DEF AgvJob, sessionVars, userVars, subVars,
       UserTypes, SessionTypes
<1> QED
  BY <1>5, <1>6, <1>7, <1>8, <1>9, <1>10, <1>11, <1>12, <1>13, <1>14, <1>15 DEF Handler

LEMMA TypesNext == Types /\ [Next]_vars => Types'
<1> SUFFICES ASSUME Types, [Next]_vars PROVE Types'
  OBVIOUS
<1>1. RowsInv /\ UserTypes /\ SessionTypes
  BY DEF Types
<1>2. ASSUME UNCHANGED <<agenda, asks, at>> PROVE JobTypes' /\ StepsFit'
  BY <1>2 DEF Types, JobTypes, StepsFit, Asked
<1>3. ASSUME NEW c \in Client, Connect(c) \/ Leave(c) \/ ReadEnds(c) PROVE Types'
  <2>1. JobTypes' /\ StepsFit'
    BY <1>2, <1>3 DEF Connect, Leave, ReadEnds
  <2>2. UserTypes' /\ RowsInv'
    BY <1>1, <1>3 DEF Connect, Leave, ReadEnds, userVars, registryVars, UserTypes, RowsInv
  <2>3. SessionTypes'
    BY <1>1, <1>3 DEF Connect, Leave, ReadEnds, subVars, SessionTypes
  <2> QED
    BY <2>1, <2>2, <2>3 DEF Types
<1>4. ASSUME NEW c \in Client, Ask(c) PROVE Types'
  <2>1. PICK request \in agenda.asks : asks' = Append(asks, [c |-> c, request |-> request])
    BY <1>4 DEF Ask
  <2>2. JobTypes' /\ StepsFit'
    BY <1>4, <2>1, AskAdds DEF Ask
  <2>3. UserTypes' /\ RowsInv'
    BY <1>1, <1>4 DEF Ask, userVars, registryVars, UserTypes, RowsInv
  <2>4. SessionTypes'
    BY <1>1, <1>4 DEF Ask, SessionTypes
  <2> QED
    BY <2>2, <2>3, <2>4 DEF Types
<1>5. ASSUME NEW c \in Client, RemoveSession(c) PROVE Types'
  <2>1. JobTypes' /\ StepsFit'
    BY <1>2, <1>5 DEF RemoveSession
  <2>2. UserTypes' /\ RowsInv'
    BY <1>1, <1>5 DEF RemoveSession, userVars, registryVars, UserTypes, RowsInv
  <2>3. \A t \in Topic : EraseFirst(subers[t], c) \in Seq(Client)
    BY <1>1, EraseFirstKeeps DEF SessionTypes
  <2>4. SessionTypes'
    BY <1>1, <1>5, <2>3 DEF RemoveSession, SessionTypes
  <2> QED
    BY <2>1, <2>2, <2>4 DEF Types
<1>6. ASSUME NEW j \in Job, Handler(j) PROVE Types'
  BY <1>6, HandlerTyped
<1>7. ASSUME NEW t \in Topic, Publish(t) PROVE Types'
  <2>1. JobTypes' /\ StepsFit'
    BY <1>2, <1>7 DEF Publish
  <2> QED
    BY <1>1, <1>7, <2>1 DEF Publish, userVars, registryVars, sessionVars, subVars,
       Types, UserTypes, RowsInv, SessionTypes
<1>8. CASE UNCHANGED vars
  <2>1. JobTypes' /\ StepsFit'
    BY <1>2, <1>8 DEF vars
  <2> QED
    BY <1>1, <1>8, <2>1 DEF vars, userVars, registryVars, sessionVars, subVars,
       Types, UserTypes, RowsInv, SessionTypes
<1> QED
  BY <1>3, <1>4, <1>5, <1>6, <1>7, <1>8 DEF Next

\* In every run what is stored and sent has its type, and a handler goes only
\* through its own steps.
THEOREM ClientsTypeCorrect == Spec => []Types
<1> QED
  BY TypesInit, TypesNext, PTL DEF Spec

-----------------------------------------------------------------------------
(* Removals: who has no connection yet is nobody, and nobody is not a user *)

Here(c) == sock[c] # "none"
KnownHere ==
    /\ \A c \in Client : reader[c] # "none" => Here(c)
    /\ \A c \in Client : ~Here(c) => who[c].id = 0
    /\ \A j \in Job : at[j] # "none" => Here(asks[j].c)
Removing == {"delete", "answerAndKickUser", "kickUser"}
UsersAreSomebody ==
    /\ 0 \notin removed /\ \A u \in users : u.id # 0
    /\ \A j \in Job : at[j] \in Removing => Asked(j).id # 0
SessionInv == KnownHere /\ UsersAreSomebody /\ RemovedAreOut

LEMMA SessionInit == Init => SessionInv
<1> SUFFICES ASSUME Init PROVE SessionInv
  OBVIOUS
<1>1. \A j \in Job : at[j] = "none"
  BY DEF Init
<1>2. KnownHere
  BY <1>1 DEF Init, KnownHere, Here, Nobody
<1>3. UsersAreSomebody
  BY <1>1 DEF Init, UsersAreSomebody, Removing, FirstUsers
<1>4. RemovedAreOut
  BY DEF Init, RemovedAreOut
<1> QED
  BY <1>2, <1>3, <1>4 DEF SessionInv

\* What a handler may do to the sessions: it closes some, and it changes the
\* user of its own.
LEMMA HandlerSessions ==
    ASSUME Types, NEW j \in Job, Handler(j)
    PROVE  /\ UNCHANGED <<peer, reader, registered>>
           /\ \A c \in Client : sock'[c] = sock[c] \/ sock'[c] = "closed"
           /\ \A c \in Client : c # asks[j].c => who'[c] = who[c]
<1>1. sock \in [Client -> {"none", "open", "closed"}] /\ who \in [Client -> Person]
  BY DEF Types, SessionTypes, UserTypes
<1>2. CASE \/ Start(j) \/ Answer(j) \/ Select(j) \/ MayRemove(j) \/ Delete(j) \/ AddUser(j)
           \/ ModifyUser(j) \/ FindSub(j) \/ PushSub(j) \/ RemoveSub(j) \/ AgvJob(j)
  <2>1. UNCHANGED sessionVars
    BY <1>2 DEF Start, Answer, Select, MayRemove, Delete, AddUser, ModifyUser, FindSub,
       PushSub, RemoveSub, AgvJob
  <2> QED
    BY <2>1 DEF sessionVars
<1>3. CASE SetUser(j)
  BY <1>1, <1>3 DEF SetUser
<1>4. CASE Logout(j) \/ ChangePassword(j)
  <2>1. UNCHANGED <<sock, peer, reader, registered>>
    BY <1>4 DEF Logout, ChangePassword
  <2>2. who' = [who EXCEPT ![asks[j].c].id = 0] \/ who' = who
    BY <1>4 DEF Logout, ChangePassword
  <2> QED
    BY <1>1, <2>1, <2>2
<1>5. CASE KickSession(j) \/ KickSessionByUserId(j)
  <2>1. PICK S : Close(S)
    BY <1>5 DEF KickSession, KickSessionByUserId
  <2> QED
    BY <2>1 DEF Close
<1> QED
  BY <1>2, <1>3, <1>4, <1>5 DEF Handler

LEMMA KnownHereNext == Types /\ KnownHere /\ [Next]_vars => KnownHere'
<1> SUFFICES ASSUME Types, KnownHere, [Next]_vars PROVE KnownHere'
  OBVIOUS
<1>1. /\ sock \in [Client -> {"none", "open", "closed"}] /\ who \in [Client -> Person]
      /\ reader \in [Client -> {"none", "reading", "ending", "over"}]
  BY DEF Types, SessionTypes, UserTypes
<1>2. CASE UNCHANGED <<sock, reader, who, asks, at>>
  BY <1>2 DEF KnownHere, Here
<1>3. ASSUME NEW c \in Client, Connect(c) PROVE KnownHere'
  BY <1>1, <1>3 DEF Connect, KnownHere, Here
<1>4. ASSUME NEW c \in Client, Ask(c) PROVE KnownHere'
  <2>1. PICK request \in agenda.asks, n \in Job : Comes(c, request, n)
    BY <1>4, AskComes
  <2>2. /\ at[n] = "none" /\ at' = [at EXCEPT ![n] = "queued"]
        /\ n \notin DOMAIN asks /\ asks'[n] = [c |-> c, request |-> request]
    BY <2>1 DEF Comes
  <2>3. \A k \in DOMAIN asks : asks'[k] = asks[k]
    BY <2>1 DEF Comes
  <2>4. Here(c) /\ sock' = sock /\ who' = who
    BY <1>4 DEF Ask, KnownHere
  <2>5. ASSUME NEW k \in Job, at'[k] # "none" PROVE Here(asks'[k].c)
    <3>1. CASE k = n
      BY <2>2, <2>4, <3>1
    <3>2. CASE k # n
      <4>1. at[k] # "none" /\ asks'[k] = asks[k]
        BY <2>2, <2>3, <2>5, <3>2 DEF Types, JobTypes
      <4> QED
        BY <4>1 DEF KnownHere
    <3> QED
      BY <3>1, <3>2
  <2>6. \A d \in Client : reader'[d] # "none" => reader[d] # "none"
    BY <1>1, <1>4 DEF Ask
  <2> QED
    BY <2>4, <2>5, <2>6 DEF KnownHere, Here
<1>5. ASSUME NEW c \in Client, Leave(c) PROVE KnownHere'
  BY <1>2, <1>5 DEF Leave
<1>6. ASSUME NEW c \in Client, ReadEnds(c) \/ RemoveSession(c) PROVE KnownHere'
  <2>1. \A d \in Client : reader'[d] # "none" => reader[d] # "none"
    BY <1>1, <1>6 DEF ReadEnds, RemoveSession
  <2>2. UNCHANGED <<sock, who, asks, at>>
    BY <1>6 DEF ReadEnds, RemoveSession
  <2> QED
    BY <2>1, <2>2 DEF KnownHere, Here
<1>7. ASSUME NEW j \in Job, Handler(j) PROVE KnownHere'
  <2>1. /\ reader' = reader
        /\ \A c \in Client : sock'[c] = sock[c] \/ sock'[c] = "closed"
        /\ \A c \in Client : c # asks[j].c => who'[c] = who[c]
    BY <1>7, HandlerSessions
  <2>2. PICK l \in Step : at' = [at EXCEPT ![j] = l]
    BY <1>7, HandlerMoves
  <2>3. asks' = asks /\ at[j] # "none"
    BY <1>7, HandlerMoves
  <2>4. asks[j].c \in Client /\ Here(asks[j].c)
    BY <2>3, RequestIs DEF KnownHere
  <2>5. \A c \in Client : Here(c) => Here(c)'
    BY <2>1 DEF Here
  <2>6. \A k \in Job : at'[k] # "none" => at[k] # "none" /\ asks[k].c \in Client
    BY <2>2, <2>3, RequestIs DEF Types, JobTypes
  <2>7. \A c \in Client : reader'[c] # "none" => Here(c)'
    BY <2>1, <2>5 DEF KnownHere
  <2>8. \A c \in Client : ~Here(c)' => who'[c].id = 0
    BY <2>1, <2>4, <2>5 DEF KnownHere
  <2>9. \A k \in Job : at'[k] # "none" => (sock'[asks'[k].c] # "none")
    BY <2>3, <2>5, <2>6 DEF KnownHere, Here
  <2> QED
    BY <2>7, <2>8, <2>9 DEF KnownHere, Here
<1>8. ASSUME NEW t \in Topic, Publish(t) PROVE KnownHere'
  BY <1>2, <1>8 DEF Publish, sessionVars
<1>9. CASE UNCHANGED vars
  BY <1>2, <1>9 DEF vars, sessionVars
<1> QED
  BY <1>3, <1>4, <1>5, <1>6, <1>7, <1>8, <1>9 DEF Next

LEMMA UsersAreSomebodyNext == Types /\ UsersAreSomebody /\ [Next]_vars => UsersAreSomebody'
<1> SUFFICES ASSUME Types, UsersAreSomebody, [Next]_vars PROVE UsersAreSomebody'
  OBVIOUS
<1>1. /\ 0 \notin removed /\ \A u \in users : u.id # 0
      /\ \A j \in Job : at[j] \in Removing => Asked(j).id # 0
      /\ at \in [Job -> Step] /\ users \subseteq Person /\ lastUserId \in Nat
  BY DEF UsersAreSomebody, Types, UserTypes, JobTypes
<1>2. ASSUME NEW j \in Job, NEW l, asks' = asks, at' = [at EXCEPT ![j] = l],
             l \in Removing => at[j] \in Removing \/ Asked(j).id # 0
      PROVE  \A k \in Job : at'[k] \in Removing => (Asked(k).id # 0)'
  BY <1>1, <1>2 DEF Asked
<1>3. CASE UNCHANGED <<removed, users, asks, at>>
  BY <1>1, <1>3 DEF UsersAreSomebody, Asked
<1>4. ASSUME NEW j \in Job, Start(j) PROVE UsersAreSomebody'
  <2>1. PICK l \in Kinds \cup {"answer"} : Goto(j, l)
    <3>1. at[j] # "none"
      BY <1>4 DEF Start
    <3> QED
      BY <1>4, <3>1, RequestIs DEF Start
  <2>2. l \notin Removing
    BY DEF Kinds, Removing
  <2>3. \A k \in Job : at'[k] \in Removing => (Asked(k).id # 0)'
    BY <1>2, <2>1, <2>2 DEF Goto
  <2> QED
    BY <1>1, <1>4, <2>3 DEF Start, userVars, outVars, UsersAreSomebody
<1>5. ASSUME NEW j \in Job, Answer(j) PROVE UsersAreSomebody'
  <2>1. PICK l : Goto(j, l) /\ l \in {Then[at[j]], "done"}
    BY <1>5 DEF Answer
  <2>2. l \in Removing => at[j] \in Removing
    BY <1>5, <2>1 DEF Answer, Then, Removing
  <2>3. \A k \in Job : at'[k] \in Removing => (Asked(k).id # 0)'
    BY <1>2, <2>1, <2>2 DEF Goto
  <2> QED
    BY <1>1, <1>5, <2>3 DEF Answer, userVars, outVars, UsersAreSomebody
<1>6. ASSUME NEW j \in Job, MayRemove(j) PROVE UsersAreSomebody'
  <2>1. PICK l : Goto(j, l) /\ (l = "answer" \/ \E u \in users : u.id = Asked(j).id)
    BY <1>6 DEF MayRemove
  <2>2. l \in Removing => Asked(j).id # 0
    BY <1>1, <2>1 DEF Removing
  <2>3. \A k \in Job : at'[k] \in Removing => (Asked(k).id # 0)'
    BY <1>2, <2>1, <2>2 DEF Goto
  <2> QED
    BY <1>1, <1>6, <2>3 DEF MayRemove, userVars, outVars, UsersAreSomebody
<1>7. ASSUME NEW j \in Job, Delete(j) PROVE UsersAreSomebody'
  <2>1. \A k \in Job : at'[k] \in Removing => (Asked(k).id # 0)'
    BY <1>2, <1>7 DEF Delete, On, Goto, Removing
  <2> QED
    BY <1>1, <1>7, <2>1 DEF Delete, outVars, UsersAreSomebody
<1>8. ASSUME NEW j \in Job, KickSessionByUserId(j) PROVE UsersAreSomebody'
  <2>1. \A k \in Job : at'[k] \in Removing => (Asked(k).id # 0)'
    BY <1>2, <1>8 DEF KickSessionByUserId, On, Goto, Removing
  <2>2. Asked(j).id # 0
    BY <1>1, <1>8 DEF KickSessionByUserId, On, Removing
  <2> QED
    BY <1>1, <1>8, <2>1, <2>2 DEF KickSessionByUserId, userVars, UsersAreSomebody
<1>9. ASSUME NEW j \in Job, AddUser(j) PROVE UsersAreSomebody'
  <2>1. \A k \in Job : at'[k] \in Removing => (Asked(k).id # 0)'
    BY <1>2, <1>9 DEF AddUser, Goto, Removing
  <2>2. \A u \in users' : u.id # 0
    BY <1>1, <1>9 DEF AddUser, userVars
  <2> QED
    BY <1>1, <1>9, <2>1, <2>2 DEF AddUser, outVars, UsersAreSomebody
<1>10. ASSUME NEW j \in Job, ModifyUser(j) \/ ChangePassword(j) PROVE UsersAreSomebody'
  <2>1. \A k \in Job : at'[k] \in Removing => (Asked(k).id # 0)'
    BY <1>2, <1>10 DEF ModifyUser, ChangePassword, Goto, Removing
  <2>2. \A v \in users' : v.id # 0
    BY <1>1, <1>10, RewritingUsers
  <2> QED
    BY <1>1, <1>10, <2>1, <2>2 DEF ModifyUser, ChangePassword, outVars, UsersAreSomebody
<1>11. ASSUME NEW j \in Job,
              \/ Select(j) \/ SetUser(j) \/ Logout(j) \/ KickSession(j)
              \/ FindSub(j) \/ PushSub(j) \/ RemoveSub(j) \/ AgvJob(j)
       PROVE  UsersAreSomebody'
  <2>1. UNCHANGED <<users, removed>>
    BY <1>11 DEF Select, SetUser, Logout, KickSession, FindSub, PushSub, RemoveSub, AgvJob,
       userVars, outVars
  <2>2. PICK l : Goto(j, l) /\ l \notin Removing
    BY <1>11 DEF Select, SetUser, Logout, KickSession, FindSub, PushSub, RemoveSub, AgvJob,
       Removing
  <2>3. \A k \in Job : at'[k] \in Removing => (Asked(k).id # 0)'
    BY <1>2, <2>2 DEF Goto
  <2> QED
    BY <1>1, <2>1, <2>3 DEF UsersAreSomebody
<1>12. ASSUME NEW c \in Client, Ask(c) PROVE UsersAreSomebody'
  <2>1. PICK request \in agenda.asks, n \in Job : Comes(c, request, n)
    BY <1>12, AskComes
  <2>2. /\ at[n] = "none" /\ at' = [at EXCEPT ![n] = "queued"]
        /\ n \notin DOMAIN asks /\ asks'[n] = [c |-> c, request |-> request]
    BY <2>1 DEF Comes
  <2>3. \A k \in DOMAIN asks : asks'[k] = asks[k]
    BY <2>1 DEF Comes
  <2>4. ASSUME NEW k \in Job, at'[k] \in Removing PROVE (Asked(k).id # 0)'
    <3>1. k # n /\ at[k] \in Removing
      BY <1>1, <2>2, <2>4 DEF Removing
    <3>2. asks'[k] = asks[k]
      BY <2>3, <3>1 DEF Types, JobTypes, Removing
    <3> QED
      BY <1>1, <3>1, <3>2 DEF Asked
  <2> QED
    BY <1>1, <1>12, <2>4 DEF Ask, userVars, outVars, UsersAreSomebody
<1>13. ASSUME NEW c \in Client, Connect(c) \/ Leave(c) \/ ReadEnds(c) \/ RemoveSession(c)
       PROVE  UsersAreSomebody'
  BY <1>3, <1>13 DEF Connect, Leave, ReadEnds, RemoveSession, userVars, outVars
<1>14. ASSUME NEW t \in Topic, Publish(t) PROVE UsersAreSomebody'
  BY <1>3, <1>14 DEF Publish, userVars, outVars
<1>15. CASE UNCHANGED vars
  BY <1>3, <1>15 DEF vars, userVars, outVars
<1>16. ASSUME NEW j \in Job, Handler(j) PROVE UsersAreSomebody'
  BY <1>4, <1>5, <1>6, <1>7, <1>8, <1>9, <1>10, <1>11, <1>16 DEF Handler
<1> QED
  BY <1>12, <1>13, <1>14, <1>15, <1>16 DEF Next

LEMMA RemovedAreOutNext ==
    Types /\ KnownHere /\ UsersAreSomebody /\ RemovedAreOut /\ [Next]_vars => RemovedAreOut'
<1> SUFFICES ASSUME Types, KnownHere, UsersAreSomebody, RemovedAreOut, [Next]_vars
             PROVE  RemovedAreOut'
  OBVIOUS
<1>1. /\ sock \in [Client -> {"none", "open", "closed"}] /\ who \in [Client -> Person]
      /\ registered \subseteq Client /\ 0 \notin removed
  BY DEF Types, SessionTypes, UserTypes, UsersAreSomebody
<1>2. CASE UNCHANGED <<sock, who, registered, removed, raced>>
  BY <1>2 DEF RemovedAreOut
<1>3. ASSUME NEW c \in Client, Connect(c) PROVE RemovedAreOut'
  <2>1. who[c].id = 0
    BY <1>3 DEF Connect, KnownHere, Here
  <2> QED
    BY <1>1, <1>3, <2>1 DEF Connect, outVars, RemovedAreOut
<1>4. ASSUME NEW c \in Client, Ask(c) \/ Leave(c) \/ ReadEnds(c) PROVE RemovedAreOut'
  BY <1>2, <1>4 DEF Ask, Leave, ReadEnds, outVars
<1>5. ASSUME NEW c \in Client, RemoveSession(c) PROVE RemovedAreOut'
  BY <1>5 DEF RemoveSession, outVars, RemovedAreOut
<1>6. ASSUME NEW j \in Job, SetUser(j) PROVE RemovedAreOut'
  <2>1. asks[j].c \in Client
    BY <1>6, HandlerMoves, RequestIs DEF Handler
  <2> QED
    BY <1>1, <1>6, <2>1 DEF SetUser, RemovedAreOut
<1>7. ASSUME NEW j \in Job, Logout(j) \/ ChangePassword(j) PROVE RemovedAreOut'
  <2>1. asks[j].c \in Client
    BY <1>7, HandlerMoves, RequestIs DEF Handler
  <2>2. who' = [who EXCEPT ![asks[j].c] = [who[asks[j].c] EXCEPT !.id = 0]] \/ who' = who
    BY <1>7 DEF Logout, ChangePassword
  <2>3. [who[asks[j].c] EXCEPT !.id = 0].id = 0
    <3>1. who[asks[j].c] \in Person
      BY <1>1, <2>1
    <3> QED
      BY <3>1, OtherId
  <2>4. \A c \in Client : who'[c].id = who[c].id \/ who'[c].id = 0
    BY <1>1, <2>1, <2>2, <2>3
  <2>5. UNCHANGED <<sock, registered, removed, raced>>
    BY <1>7 DEF Logout, ChangePassword, outVars
  <2> QED
    BY <1>1, <2>4, <2>5 DEF RemovedAreOut
<1>8. ASSUME NEW j \in Job, KickSession(j) PROVE RemovedAreOut'
  <2>1. UNCHANGED <<who, registered, removed, raced>>
    BY <1>8 DEF KickSession, Close, outVars
  <2>2. \A c \in Client : sock'[c] = "open" => sock[c] = "open"
    BY <1>8 DEF KickSession, Close
  <2> QED
    BY <1>1, <2>1, <2>2 DEF RemovedAreOut
<1>9. ASSUME NEW j \in Job, KickSessionByUserId(j) PROVE RemovedAreOut'
  <2>1. /\ UNCHANGED <<who, registered, raced>>
        /\ removed' = removed \cup {Asked(j).id}
    BY <1>9 DEF KickSessionByUserId, Close
  <2>2. \A c \in registered : sock'[c] = "open" => sock[c] = "open" /\ who[c].id # Asked(j).id
    BY <1>1, <1>9 DEF KickSessionByUserId, Close, SessionsOf
  <2> QED
    BY <2>1, <2>2 DEF RemovedAreOut
<1>10. ASSUME NEW j \in Job,
              \/ Start(j) \/ Answer(j) \/ Select(j) \/ MayRemove(j) \/ Delete(j)
              \/ AddUser(j) \/ ModifyUser(j) \/ FindSub(j) \/ PushSub(j) \/ RemoveSub(j)
              \/ AgvJob(j)
       PROVE  RemovedAreOut'
  <2>1. UNCHANGED <<sock, who, registered, removed, raced>>
    BY <1>10 DEF Start, Answer, Select, MayRemove, Delete, AddUser, ModifyUser, FindSub,
       PushSub, RemoveSub, AgvJob, sessionVars, outVars
  <2> QED
    BY <1>2, <2>1
<1>11. ASSUME NEW t \in Topic, Publish(t) PROVE RemovedAreOut'
  BY <1>2, <1>11 DEF Publish, sessionVars, outVars
<1>12. CASE UNCHANGED vars
  BY <1>2, <1>12 DEF vars, sessionVars, outVars
<1>13. ASSUME NEW j \in Job, Handler(j) PROVE RemovedAreOut'
  BY <1>6, <1>7, <1>8, <1>9, <1>10, <1>13 DEF Handler
<1> QED
  BY <1>3, <1>4, <1>5, <1>11, <1>12, <1>13 DEF Next

\* In every run no connection of a user that was removed stays open, but for
\* one that logged in meanwhile.
THEOREM RemovedAreOutAlways == Spec => []RemovedAreOut
<1>1. Types /\ SessionInv /\ [Next]_vars => SessionInv'
  BY KnownHereNext, UsersAreSomebodyNext, RemovedAreOutNext DEF SessionInv
<1>2. SessionInv => RemovedAreOut
  BY DEF SessionInv
<1> QED
  BY <1>1, <1>2, TypesInit, TypesNext, SessionInit, PTL DEF Spec

-----------------------------------------------------------------------------
(* Lists *)

AboutLists(j) == Under(j) /\ Asked(j).todo \in {"sub", "unsub"}

\* Of two requests of a client about lists one has ended before the other came.
OneRequest == \A j, k \in Job : AboutLists(j) /\ AboutLists(k) /\ asks[j].c = asks[k].c =>
    j = k \/ asks[j].c \in atOnce
\* What outlives its session was under way when that was removed.
Outlived == \A j \in Job : Under(j) /\ reader[asks[j].c] = "over" => asks[j].c \in late
\* What the search of a list has found still holds when the entry is added.
PushNew == \A j \in Job : at[j] = "push" =>
    asks[j].c \in atOnce \/ asks[j].c \notin Range(subers[Asked(j).topic])
ListsOnce == \A t \in Topic, c \in Client \ atOnce :
    /\ OnceOnly(subers[t], c)
    /\ reader[c] = "over" /\ c \in Range(subers[t]) => c \in late
ListInv == OneRequest /\ Outlived /\ PushNew /\ ListsOnce

LEMMA ListInit == Init => ListInv
<1> SUFFICES ASSUME Init PROVE ListInv
  OBVIOUS
<1>1. \A j \in Job : at[j] = "none"
  BY DEF Init
<1>2. OneRequest /\ Outlived /\ PushNew
  BY <1>1 DEF OneRequest, Outlived, PushNew, AboutLists, Under
<1>3. \A t \in Topic : subers[t] = <<>>
  BY DEF Init
<1>4. \A c : OnceOnly(<<>>, c) /\ c \notin Range(<<>>)
  BY DEF OnceOnly, Range
<1> QED
  BY <1>2, <1>3, <1>4 DEF ListInv, ListsOnce

\* A handler is the only one that works at its request, and most of them leave
\* the lists alone.
LEMMA HandlerLists ==
    ASSUME Types, NEW j \in Job, Handler(j)
    PROVE  /\ UNCHANGED <<asks, atOnce, late, reader>>
           /\ at[j] # "none" /\ Under(j) /\ asks[j].c \in Client
           /\ \A k \in Job : k # j => at'[k] = at[k]
           /\ \A k \in Job : Under(k)' => Under(k)
           /\ \A k \in Job : Under(k) => at[k] # "none" /\ asks[k].c \in Client
           /\ FindSub(j) \/ PushSub(j) \/ RemoveSub(j) \/ (subers' = subers /\ at'[j] # "push")
<1>1. PICK l \in Step \ {"none", "queued"} : at' = [at EXCEPT ![j] = l]
  BY HandlerMoves
<1>2. asks' = asks /\ at[j] \notin {"none", "done"}
  BY HandlerMoves
<1>3. /\ at[j] # "none" /\ Under(j) /\ asks[j].c \in Client
      /\ \A k \in Job : k # j => at'[k] = at[k]
      /\ \A k \in Job : Under(k)' => Under(k)
  BY <1>1, <1>2, RequestIs DEF Under, Types, JobTypes
<1>4. \A k \in Job : Under(k) => at[k] # "none" /\ asks[k].c \in Client
  BY RequestIs DEF Under
<1>5. UNCHANGED <<atOnce, late, reader>>
  BY DEF Handler, Start, Answer, Select, SetUser, Logout, ChangePassword, KickSession,
     MayRemove, Delete, KickSessionByUserId, AddUser, ModifyUser, FindSub, PushSub, RemoveSub, AgvJob, Close,
     sessionVars, subVars
<1>6. ASSUME Start(j) PROVE subers' = subers /\ at'[j] # "push"
  <2>1. l \in Kinds \cup {"answer"}
    BY <1>1, <1>3, <1>6, RequestIs DEF Start, Goto, Types, JobTypes
  <2> QED
    BY <1>1, <1>6, <2>1 DEF Start, subVars, Kinds, Types, JobTypes
<1>7. ASSUME Answer(j) PROVE subers' = subers /\ at'[j] # "push"
  BY <1>7 DEF Answer, Goto, Then, Types, JobTypes
<1>8. ASSUME \/ Select(j) \/ SetUser(j) \/ Logout(j) \/ KickSession(j) \/ MayRemove(j)
             \/ Delete(j) \/ KickSessionByUserId(j) \/ AddUser(j) \/ ModifyUser(j) \/ AgvJob(j)
             \/ ChangePassword(j)
      PROVE  subers' = subers /\ at'[j] # "push"
  <2>1. subers' = subers
    BY <1>8 DEF Select, SetUser, Logout, ChangePassword, KickSession, MayRemove, Delete,
       KickSessionByUserId, AddUser, ModifyUser, AgvJob, Close, subVars
  <2>2. \A m : Goto(j, m) => at'[j] = m
    BY DEF Goto, Types, JobTypes
  <2>3. CASE Select(j) \/ SetUser(j) \/ Logout(j) \/ KickSession(j) \/ MayRemove(j)
    BY <2>1, <2>2, <2>3 DEF Select, SetUser, Logout, KickSession, MayRemove
  <2>4. CASE Delete(j) \/ KickSessionByUserId(j) \/ AddUser(j) \/ ModifyUser(j)
             \/ ChangePassword(j)
    BY <2>1, <2>2, <2>4 DEF Delete, KickSessionByUserId, AddUser, ModifyUser, ChangePassword
  <2>5. CASE AgvJob(j)
    BY <2>1, <2>2, <2>5 DEF AgvJob
  <2> QED
    BY <1>8, <2>3, <2>4, <2>5
<1>9. FindSub(j) \/ PushSub(j) \/ RemoveSub(j) \/ (subers' = subers /\ at'[j] # "push")
  BY <1>6, <1>7, <1>8 DEF Handler
<1> QED
  BY <1>2, <1>3, <1>4, <1>5, <1>9

LEMMA HandlerListInv ==
    ASSUME Types, ListInv, NEW j \in Job, Handler(j)
    PROVE  ListInv'
<1> DEFINE c == asks[j].c
           t == Asked(j).topic
<1>1. /\ UNCHANGED <<asks, atOnce, late, reader>>
      /\ at[j] # "none" /\ Under(j) /\ c \in Client
      /\ \A k \in Job : k # j => at'[k] = at[k]
      /\ \A k \in Job : Under(k)' => Under(k)
      /\ \A k \in Job : Under(k) => at[k] # "none" /\ asks[k].c \in Client
  BY HandlerLists
<1>2. subers \in [Topic -> Seq(Client)]
  BY DEF Types, SessionTypes
<1>3. \A k \in Job : at[k] = "push" => AboutLists(k) /\ Asked(k).todo = "sub" /\ Asked(k).topic \in Topic
  <2> TAKE k \in Job
  <2> HAVE at[k] = "push"
  <2>1. Asked(k).todo = "sub"
    BY RequestIs DEF Fits
  <2> QED
    BY <2>1, RequestIs DEF AboutLists, Under
<1>4. OneRequest'
  BY <1>1 DEF ListInv, OneRequest, AboutLists, Asked
<1>5. Outlived'
  BY <1>1 DEF ListInv, Outlived
<1>6. ASSUME subers' = subers, at'[j] # "push" PROVE PushNew' /\ ListsOnce'
  BY <1>1, <1>6 DEF ListInv, PushNew, ListsOnce, Asked
<1>7. ASSUME FindSub(j) PROVE PushNew' /\ ListsOnce'
  <2>1. subers' = subers
    BY <1>7 DEF FindSub, subVars
  <2>2. at'[j] = "push" => c \notin Range(subers[t])
    BY <1>7 DEF FindSub, Goto, There, Types, JobTypes
  <2>3. PushNew'
    BY <1>1, <2>1, <2>2 DEF ListInv, PushNew, Asked
  <2> QED
    BY <1>1, <2>1, <2>3 DEF ListInv, ListsOnce
<1>8. ASSUME PushSub(j) PROVE PushNew' /\ ListsOnce'
  <2>1. at[j] = "push" /\ at'[j] # "push"
    BY <1>8 DEF PushSub, On, Goto, Types, JobTypes
  <2>2. t \in Topic /\ AboutLists(j)
    BY <1>3, <2>1
  <2>3. subers[t] \in Seq(Client)
    BY <1>2, <2>2
  <2>4. /\ subers'[t] = Append(subers[t], c)
        /\ \A u \in Topic : u # t => subers'[u] = subers[u]
    BY <1>2, <1>8, <2>2 DEF PushSub
  <2>5. /\ Range(subers'[t]) = Range(subers[t]) \cup {c}
        /\ \A d : OnceOnly(subers[t], d) /\ (d # c \/ c \notin Range(subers[t]))
             => OnceOnly(subers'[t], d)
    BY <1>1, <2>3, <2>4, AppendEntry
  <2>6. c \in atOnce \/ c \notin Range(subers[t])
    BY <2>1 DEF ListInv, PushNew
  <2>7. PushNew'
    <3> SUFFICES ASSUME NEW k \in Job, at'[k] = "push", asks[k].c \notin atOnce
                 PROVE  asks[k].c \notin Range(subers'[Asked(k).topic])
      BY <1>1 DEF PushNew, Asked
    <3>1. k # j /\ at[k] = "push"
      BY <1>1, <2>1
    <3>2. AboutLists(k) /\ Asked(k).topic \in Topic
      BY <1>3, <3>1
    <3>3. asks[k].c # c
      BY <2>2, <3>1, <3>2 DEF ListInv, OneRequest
    <3>4. asks[k].c \notin Range(subers[Asked(k).topic])
      BY <3>1 DEF ListInv, PushNew
    <3> QED
      BY <2>4, <2>5, <3>2, <3>3, <3>4
  <2>8. ListsOnce'
    <3> SUFFICES ASSUME NEW u \in Topic, NEW d \in Client \ atOnce
                 PROVE  /\ OnceOnly(subers'[u], d)
                        /\ reader[d] = "over" /\ d \in Range(subers'[u]) => d \in late
      BY <1>1 DEF ListsOnce
    <3>1. /\ OnceOnly(subers[u], d)
          /\ reader[d] = "over" /\ d \in Range(subers[u]) => d \in late
      BY DEF ListInv, ListsOnce
    <3>2. d = c => (reader[d] = "over" => d \in late)
      BY <1>1 DEF ListInv, Outlived
    <3>3. CASE u = t
      BY <2>5, <2>6, <3>1, <3>2, <3>3
    <3>4. CASE u # t
      BY <2>4, <3>1, <3>4
    <3> QED
      BY <3>3, <3>4
  <2> QED
    BY <2>7, <2>8
<1>9. ASSUME RemoveSub(j) PROVE PushNew' /\ ListsOnce'
  <2>1. at[j] = "unsub" /\ at'[j] # "push"
    BY <1>9 DEF RemoveSub, On, Goto, Types, JobTypes
  <2>2. t \in Topic
    <3>1. Asked(j).todo = "unsub"
      BY <2>1, RequestIs DEF Fits
    <3> QED
      BY <1>1, <3>1, RequestIs
  <2>3. subers[t] \in Seq(Client)
    BY <1>2, <2>2
  <2>4. /\ subers'[t] = EraseFirst(subers[t], c)
        /\ \A u \in Topic : u # t => subers'[u] = subers[u]
    BY <1>2, <1>9, <2>2 DEF RemoveSub
  <2>5. \A u \in Topic : /\ Range(subers'[u]) \subseteq Range(subers[u])
                         /\ \A d : OnceOnly(subers[u], d) => OnceOnly(subers'[u], d)
    BY <2>3, <2>4, EraseFirstKeeps
  <2>6. PushNew'
    BY <1>1, <1>3, <2>1, <2>5 DEF ListInv, PushNew, Asked
  <2>7. ListsOnce'
    BY <1>1, <2>5 DEF ListInv, ListsOnce
  <2> QED
    BY <2>6, <2>7
<1>10. PushNew' /\ ListsOnce'
  BY <1>6, <1>7, <1>8, <1>9, HandlerLists
<1> QED
  BY <1>4, <1>5, <1>10 DEF ListInv

LEMMA ListNext == Types /\ ListInv /\ [Next]_vars => ListInv'
<1> SUFFICES ASSUME Types, ListInv, [Next]_vars PROVE ListInv'
  OBVIOUS
<1>1. /\ subers \in [Topic -> Seq(Client)]
      /\ reader \in [Client -> {"none", "reading", "ending", "over"}]
      /\ \A k \in Job : Under(k) => at[k] # "none" /\ asks[k].c \in Client /\ k \in DOMAIN asks
  BY RequestIs DEF Types, SessionTypes, Under
<1>2. ASSUME UNCHANGED <<asks, at, atOnce, late, subers>>,
             \A d \in Client : reader'[d] = "over" => reader[d] = "over"
      PROVE  ListInv'
  <2>1. OneRequest'
    BY <1>2 DEF ListInv, OneRequest, AboutLists, Under, Asked
  <2>2. Outlived'
    BY <1>1, <1>2 DEF ListInv, Outlived, Under
  <2>3. PushNew'
    BY <1>2 DEF ListInv, PushNew, Asked
  <2>4. ListsOnce'
    BY <1>2 DEF ListInv, ListsOnce
  <2> QED
    BY <2>1, <2>2, <2>3, <2>4 DEF ListInv
<1>3. ASSUME NEW c \in Client, Connect(c) PROVE ListInv'
  BY <1>1, <1>2, <1>3 DEF Connect, subVars
<1>4. ASSUME NEW c \in Client, Ask(c) PROVE ListInv'
  <2>1. PICK request \in agenda.asks, n \in Job : Comes(c, request, n)
    BY <1>4, AskComes
  <2>2. /\ at[n] = "none" /\ at' = [at EXCEPT ![n] = "queued"]
        /\ n \notin DOMAIN asks /\ asks'[n] = [c |-> c, request |-> request]
    BY <2>1 DEF Comes
  <2>3. \A k \in DOMAIN asks : asks'[k] = asks[k]
    BY <2>1 DEF Comes
  <2>4. /\ UNCHANGED <<late, subers>> /\ atOnce \subseteq atOnce'
        /\ reader[c] = "reading"
        /\ \A d \in Client : reader'[d] = "over" => reader[d] = "over" /\ d # c
    BY <1>1, <1>4, <2>1 DEF Ask, Comes
  <2>5. \A k \in Job : k # n => at'[k] = at[k]
    BY <2>2 DEF Types, JobTypes
  <2>6. at'[n] = "queued"
    BY <2>2 DEF Types, JobTypes
  <2>7. \A k \in Job : Under(k)' /\ k # n => Under(k) /\ asks'[k] = asks[k] /\ asks[k].c \in Client
    BY <1>1, <2>3, <2>5 DEF Under
  <2>8. OneRequest'
    <3> SUFFICES ASSUME NEW j \in Job, NEW k \in Job, AboutLists(j)', AboutLists(k)',
                        asks'[j].c = asks'[k].c, j # k
                 PROVE  asks'[j].c \in atOnce'
      BY DEF OneRequest
    <3>1. ASSUME NEW i \in Job, AboutLists(i)', AboutLists(n)', i # n, asks'[i].c = c PROVE c \in atOnce'
      <4>1. request.todo \in {"sub", "unsub"}
        BY <2>2, <3>1 DEF AboutLists, Asked
      <4>2. i \in JobsOf(c) /\ Asked(i).todo \in {"sub", "unsub"}
        BY <2>7, <3>1 DEF AboutLists, JobsOf, Asked
      <4> QED
        BY <2>1, <4>1, <4>2 DEF Comes
    <3>2. CASE j # n /\ k # n
      <4>1. AboutLists(j) /\ AboutLists(k) /\ asks[j].c = asks[k].c /\ asks'[j] = asks[j]
        BY <2>7, <3>2 DEF AboutLists, Asked
      <4>2. asks[j].c \in atOnce
        BY <4>1 DEF ListInv, OneRequest
      <4> QED
        BY <2>4, <4>1, <4>2
    <3>3. CASE j = n
      BY <2>2, <3>1, <3>3
    <3>4. CASE k = n
      BY <2>2, <3>1, <3>4
    <3> QED
      BY <3>2, <3>3, <3>4
  <2>9. Outlived'
    <3> SUFFICES ASSUME NEW j \in Job, Under(j)', reader'[asks'[j].c] = "over"
                 PROVE  asks'[j].c \in late
      BY <2>4 DEF Outlived
    <3>1. j # n
      BY <2>2, <2>4
    <3> QED
      BY <2>4, <2>7, <3>1 DEF ListInv, Outlived
  <2>10. PushNew'
    <3> SUFFICES ASSUME NEW j \in Job, at'[j] = "push", asks'[j].c \notin atOnce'
                 PROVE  asks'[j].c \notin Range(subers[Asked(j)'.topic])
      BY <2>4 DEF PushNew
    <3>1. j # n /\ at[j] = "push"
      BY <2>5, <2>6
    <3>2. asks'[j] = asks[j]
      BY <2>3, <3>1 DEF Types, JobTypes
    <3> QED
      BY <2>4, <3>1, <3>2 DEF ListInv, PushNew, Asked
  <2>11. ListsOnce'
    BY <2>4 DEF ListInv, ListsOnce
  <2> QED
    BY <2>8, <2>9, <2>10, <2>11 DEF ListInv
<1>5. ASSUME NEW c \in Client, Leave(c) PROVE ListInv'
  BY <1>1, <1>2, <1>5 DEF Leave
<1>6. ASSUME NEW c \in Client, ReadEnds(c) PROVE ListInv'
  BY <1>1, <1>2, <1>6 DEF ReadEnds, subVars
<1>7. ASSUME NEW c \in Client, RemoveSession(c) PROVE ListInv'
  <2>1. /\ UNCHANGED <<asks, at, atOnce>> /\ late \subseteq late'
        /\ JobsOf(c) # {} => c \in late'
        /\ \A d \in Client : d # c /\ reader'[d] = "over" => reader[d] = "over"
        /\ \A t \in Topic : subers'[t] = EraseFirst(subers[t], c)
    BY <1>1, <1>7 DEF RemoveSession
  <2>2. ASSUME NEW t \in Topic
        PROVE  /\ Range(subers'[t]) \subseteq Range(subers[t])
               /\ \A d : OnceOnly(subers[t], d) => OnceOnly(subers'[t], d)
               /\ OnceOnly(subers[t], c) => c \notin Range(subers'[t])
    <3>1. subers[t] \in Seq(Client)
      BY <1>1
    <3> QED
      BY <2>1, <3>1, EraseFirstKeeps
  <2>3. OneRequest'
    BY <2>1 DEF ListInv, OneRequest, AboutLists, Under, Asked
  <2>4. Outlived'
    <3> SUFFICES ASSUME NEW j \in Job, Under(j), reader'[asks[j].c] = "over"
                 PROVE  asks[j].c \in late'
      BY <2>1 DEF Outlived, Under
    <3>1. CASE asks[j].c = c
      BY <2>1, <3>1 DEF JobsOf
    <3>2. CASE asks[j].c # c
      BY <1>1, <2>1, <3>2 DEF ListInv, Outlived
    <3> QED
      BY <3>1, <3>2
  <2>5. PushNew'
    <3> SUFFICES ASSUME NEW j \in Job, at[j] = "push", asks[j].c \notin atOnce
                 PROVE  asks[j].c \notin Range(subers'[Asked(j).topic])
      BY <2>1 DEF PushNew, Asked
    <3>1. Asked(j).todo = "sub"
      BY RequestIs DEF Fits
    <3>2. Asked(j).topic \in Topic
      BY <3>1, RequestIs
    <3>3. asks[j].c \notin Range(subers[Asked(j).topic])
      BY DEF ListInv, PushNew
    <3> QED
      BY <2>2, <3>2, <3>3
  <2>6. ListsOnce'
    <3> SUFFICES ASSUME NEW t \in Topic, NEW d \in Client \ atOnce
                 PROVE  /\ OnceOnly(subers'[t], d)
                        /\ reader'[d] = "over" /\ d \in Range(subers'[t]) => d \in late'
      BY <2>1 DEF ListsOnce
    <3>1. /\ OnceOnly(subers[t], d)
          /\ reader[d] = "over" /\ d \in Range(subers[t]) => d \in late
      BY DEF ListInv, ListsOnce
    <3> QED
      BY <2>1, <2>2, <3>1
  <2> QED
    BY <2>3, <2>4, <2>5, <2>6 DEF ListInv
<1>8. ASSUME NEW j \in Job, Handler(j) PROVE ListInv'
  BY <1>8, HandlerListInv
<1>9. ASSUME NEW t \in Topic, Publish(t) PROVE ListInv'
  BY <1>2, <1>9 DEF Publish, sessionVars, subVars
<1>10. CASE UNCHANGED vars
  BY <1>2, <1>10 DEF vars, sessionVars, subVars
<1> QED
  BY <1>3, <1>4, <1>5, <1>6, <1>7, <1>8, <1>9, <1>10 DEF Next

\* In every run nobody is on a list twice, and nobody who has left is on one,
\* unless two of its requests about lists ran at once, or it left before what
\* it had asked for was done.
THEOREM ListsFitAlways == Spec => []ListsFit
<1>1. Types /\ ListInv => ListsFit
  <2> SUFFICES ASSUME Types, ListInv, NEW t \in Topic, NEW c \in Client \ atOnce
               PROVE  /\ Cardinality({i \in DOMAIN subers[t] : subers[t][i] = c}) <= 1
                      /\ reader[c] = "over" /\ c \in Range(subers[t]) => c \in late
    BY DEF ListsFit
  <2> DEFINE E == {i \in DOMAIN subers[t] : subers[t][i] = c}
  <2>1. /\ OnceOnly(subers[t], c)
        /\ reader[c] = "over" /\ c \in Range(subers[t]) => c \in late
    BY DEF ListInv, ListsOnce
  <2>2. E = {} \/ \E i : E = {i}
    BY <2>1 DEF OnceOnly
  <2>3. Cardinality(E) \in {0, 1}
    BY <2>2, FS_EmptySet, FS_Singleton
  <2> QED
    BY <2>1, <2>3
<1> QED
  BY <1>1, TypesInit, TypesNext, ListInit, ListNext, PTL DEF Spec

-----------------------------------------------------------------------------
(* Who was told that it is on a list *)

\* A connection whose client is reached is read and registered.
HereInv ==
    \A c \in Client :
        /\ Reaches(c) => reader[c] = "reading" /\ c \in registered
        /\ sock[c] = "none" => reader[c] = "none"
\* What the search of a list has found, or added, is there when it is answered.
FoundListed ==
    \A j \in Job :
        LET c == asks[j].c
        IN  at[j] = "answerSub" => \/ c \in atOnce \/ reader[c] = "over"
                                   \/ c \in Range(subers[Asked(j).topic])
\* Whoever was told is reached, on the list, and does not ask to be taken off.
Cancels(j, c, t) == Under(j) /\ asks[j].c = c /\ Asked(j).todo = "unsub" /\ Asked(j).topic = t
ToldListed ==
    \A t \in Topic : \A c \in subscribed[t] :
        /\ c \in Client /\ Reaches(c) /\ c \in Range(subers[t])
        /\ \A j \in Job : ~Cancels(j, c, t)
ToldInv == peer \in [Client -> {"here", "gone"}] /\ HereInv /\ FoundListed /\ ToldListed

LEMMA ToldInit == Init => ToldInv
<1> SUFFICES ASSUME Init PROVE ToldInv
  OBVIOUS
<1>1. peer \in [Client -> {"here", "gone"}] /\ FoundListed
  BY DEF Init, FoundListed
<1>2. HereInv
  BY DEF Init, HereInv, Reaches
<1>3. ToldListed
  BY DEF Init, ToldListed
<1> QED
  BY <1>1, <1>2, <1>3 DEF ToldInv

\* What a step may do without a promise being broken: end requests, close
\* sockets of those that no longer count on anything.
LeavesLists ==
    /\ UNCHANGED <<peer, reader, registered, subers, atOnce, asks>>
    /\ \A d \in Client : \/ sock'[d] = sock[d]
                         \/ sock'[d] = "closed" /\ \A t \in Topic : d \notin subscribed'[t]
    /\ \A t \in Topic : subscribed'[t] \subseteq subscribed[t]
    /\ \A k \in Job : Under(k)' => Under(k)
    /\ \A k \in Job : at'[k] = "answerSub" => at[k] = "answerSub"

LEMMA ToldStays == ToldInv /\ LeavesLists => ToldInv'
<1> SUFFICES ASSUME ToldInv, LeavesLists PROVE ToldInv'
  OBVIOUS
<1>1. HereInv'
  BY DEF ToldInv, HereInv, LeavesLists, Reaches
<1>2. FoundListed'
  BY DEF ToldInv, FoundListed, LeavesLists, Asked
<1>3. ToldListed'
  <2> SUFFICES ASSUME NEW t \in Topic, NEW c \in subscribed'[t]
               PROVE  /\ c \in Client /\ Reaches(c)' /\ c \in Range(subers'[t])
                      /\ \A j \in Job : ~Cancels(j, c, t)'
    BY DEF ToldListed
  <2>1. /\ c \in Client /\ Reaches(c) /\ c \in Range(subers[t])
        /\ \A j \in Job : ~Cancels(j, c, t)
    BY DEF ToldInv, ToldListed, LeavesLists
  <2> QED
    BY <2>1 DEF LeavesLists, Reaches, Cancels, Asked
<1> QED
  BY <1>1, <1>2, <1>3 DEF ToldInv, LeavesLists

\* The handlers that answer nobody about a list.
LEMMA HandlerLeavesLists ==
    ASSUME Types, NEW j \in Job, Handler(j),
           ~(Answer(j) \/ FindSub(j) \/ PushSub(j) \/ RemoveSub(j))
    PROVE  LeavesLists
<1>1. /\ UNCHANGED <<asks, atOnce, reader, subers>>
      /\ at[j] # "none" /\ \A k \in Job : k # j => at'[k] = at[k]
      /\ \A k \in Job : Under(k)' => Under(k)
  BY HandlerLists
<1>2. at \in [Job -> Step] /\ sock \in [Client -> {"none", "open", "closed"}]
  BY DEF Types, JobTypes, SessionTypes
<1>3. \A m : Goto(j, m) => at'[j] = m
  BY <1>2 DEF Goto
<1>4. ASSUME KickSession(j) \/ KickSessionByUserId(j) PROVE LeavesLists
  <2>1. PICK S : Close(S)
    BY <1>4 DEF KickSession, KickSessionByUserId
  <2>2. /\ \A d \in Client : sock'[d] = IF d \in S THEN "closed" ELSE sock[d]
        /\ \A t \in Topic : subscribed'[t] = subscribed[t] \ S
        /\ UNCHANGED <<peer, registered>>
    BY <2>1 DEF Close
  <2>3. at'[j] = "done"
    BY <1>3, <1>4 DEF KickSession, KickSessionByUserId
  <2> QED
    BY <1>1, <2>2, <2>3 DEF LeavesLists
<1>5. ASSUME UNCHANGED <<sock, peer, registered, subscribed>>, at'[j] # "answerSub"
      PROVE  LeavesLists
  BY <1>1, <1>5 DEF LeavesLists
<1>6. ASSUME Start(j) PROVE LeavesLists
  <2>1. at'[j] \in Kinds \cup {"answer"}
    BY <1>1, <1>3, <1>6, RequestIs DEF Start
  <2> QED
    BY <1>5, <1>6, <2>1 DEF Start, Kinds, sessionVars, subVars
<1>7. ASSUME Select(j) \/ SetUser(j) \/ Logout(j) \/ ChangePassword(j) PROVE LeavesLists
  <2>1. UNCHANGED <<sock, peer, registered, subscribed>>
    BY <1>7 DEF Select, SetUser, Logout, ChangePassword, sessionVars, subVars
  <2>2. at'[j] # "answerSub"
    BY <1>3, <1>7 DEF Select, SetUser, Logout, ChangePassword
  <2> QED
    BY <1>5, <2>1, <2>2
<1>8. ASSUME MayRemove(j) \/ Delete(j) \/ AddUser(j) \/ ModifyUser(j) PROVE LeavesLists
  <2>1. UNCHANGED <<sock, peer, registered, subscribed>>
    BY <1>8 DEF MayRemove, Delete, AddUser, ModifyUser, sessionVars, subVars
  <2>2. at'[j] # "answerSub"
    BY <1>3, <1>8 DEF MayRemove, Delete, AddUser, ModifyUser
  <2> QED
    BY <1>5, <2>1, <2>2
<1>9. ASSUME AgvJob(j) PROVE LeavesLists
  <2>1. UNCHANGED <<sock, peer, registered, subscribed>>
    BY <1>9 DEF AgvJob, sessionVars, subVars
  <2>2. at'[j] # "answerSub"
    BY <1>3, <1>9 DEF AgvJob
  <2> QED
    BY <1>5, <2>1, <2>2
<1> QED
  BY <1>4, <1>6, <1>7, <1>8, <1>9 DEF Handler

LEMMA ToldHandler ==
    ASSUME Types, ListInv, ToldInv, NEW j \in Job, Handler(j)
    PROVE  ToldInv'
<1> DEFINE c == asks[j].c
           t == Asked(j).topic
<1>1. /\ UNCHANGED <<asks, atOnce, reader>>
      /\ at[j] # "none" /\ Under(j) /\ c \in Client
      /\ \A k \in Job : k # j => at'[k] = at[k]
      /\ \A k \in Job : Under(k)' => Under(k)
  BY HandlerLists
<1>2. subers \in [Topic -> Seq(Client)] /\ at \in [Job -> Step]
  BY DEF Types, SessionTypes, JobTypes
<1>3. \A m : Goto(j, m) => at'[j] = m
  BY <1>2 DEF Goto
<1>4. \A k \in Job : at[k] = "answerSub" => AboutLists(k) /\ Asked(k).todo = "sub" /\ Asked(k).topic \in Topic
  <2> TAKE k \in Job
  <2> HAVE at[k] = "answerSub"
  <2>1. Asked(k).todo = "sub"
    BY RequestIs DEF Fits
  <2> QED
    BY <2>1, RequestIs DEF AboutLists, Under
\* Steps that touch the lists but no session.
<1>5. ASSUME UNCHANGED <<sock, peer, registered, subscribed>>, FoundListed',
             \A u \in Topic : \A d \in subscribed[u] :
                 d \in Range(subers[u]) => d \in Range(subers'[u])
      PROVE  ToldInv'
  <2>1. HereInv'
    BY <1>1, <1>5 DEF ToldInv, HereInv, Reaches
  <2>2. ToldListed'
    BY <1>1, <1>5 DEF ToldInv, ToldListed, Reaches, Cancels, Asked
  <2> QED
    BY <1>5, <2>1, <2>2 DEF ToldInv
<1>6. ASSUME Answer(j) PROVE ToldInv'
  <2>1. at'[j] # "answerSub" /\ UNCHANGED <<sock, peer, registered, subers>>
    BY <1>3, <1>6 DEF Answer, Then, sessionVars
  <2>2. HereInv' /\ FoundListed'
    BY <1>1, <2>1 DEF ToldInv, HereInv, Reaches, FoundListed, Asked
  <2>3. \A u \in Topic : \A d \in subscribed'[u] :
            \/ d \in subscribed[u]
            \/ at[j] = "answerSub" /\ u = t /\ d = c /\ Reaches(c) /\ c \notin atOnce
    BY <1>6 DEF Answer
  <2>4. ToldListed'
    <3> SUFFICES ASSUME NEW u \in Topic, NEW d \in subscribed'[u]
                 PROVE  /\ d \in Client /\ Reaches(d) /\ d \in Range(subers[u])
                        /\ \A k \in Job : ~Cancels(k, d, u)
      BY <1>1, <2>1 DEF ToldListed, Reaches, Cancels, Asked
    <3>1. CASE d \in subscribed[u]
      BY <3>1 DEF ToldInv, ToldListed
    <3>2. CASE at[j] = "answerSub" /\ u = t /\ d = c /\ Reaches(c) /\ c \notin atOnce
      <4>1. reader[c] = "reading"
        BY <1>1, <3>2 DEF ToldInv, HereInv
      <4>2. c \in Range(subers[t])
        BY <3>2, <4>1 DEF ToldInv, FoundListed
      <4>3. ASSUME NEW k \in Job, Cancels(k, c, t) PROVE FALSE
        <5>1. AboutLists(k) /\ asks[k].c = c /\ Asked(k).todo = "unsub"
          BY <4>3 DEF Cancels, AboutLists
        <5>2. AboutLists(j) /\ Asked(j).todo = "sub"
          BY <1>4, <3>2
        <5>3. k = j
          BY <3>2, <5>1, <5>2 DEF ListInv, OneRequest
        <5> QED
          BY <5>1, <5>2, <5>3
      <4> QED
        BY <1>1, <3>2, <4>2, <4>3
    <3> QED
      BY <2>3, <3>1, <3>2
  <2> QED
    BY <2>1, <2>2, <2>4 DEF ToldInv
<1>7. ASSUME FindSub(j) PROVE ToldInv'
  <2>1. UNCHANGED <<sock, peer, registered, subscribed, subers>>
    BY <1>7 DEF FindSub, sessionVars, subVars
  <2>2. at'[j] = "answerSub" => c \in Range(subers[t])
    BY <1>3, <1>7 DEF FindSub, There
  <2>3. FoundListed'
    BY <1>1, <2>1, <2>2 DEF ToldInv, FoundListed, Asked
  <2> QED
    BY <1>5, <2>1, <2>3
<1>8. ASSUME PushSub(j) PROVE ToldInv'
  <2>1. UNCHANGED <<sock, peer, registered, subscribed>> /\ at[j] = "push"
    BY <1>8 DEF PushSub, On, sessionVars
  <2>2. t \in Topic
    <3>1. Asked(j).todo = "sub"
      BY <2>1, RequestIs DEF Fits
    <3> QED
      BY <1>1, <3>1, RequestIs
  <2>3. subers[t] \in Seq(Client)
    BY <1>2, <2>2
  <2>4. /\ subers'[t] = Append(subers[t], c)
        /\ \A u \in Topic : u # t => subers'[u] = subers[u]
    BY <1>2, <1>8, <2>2 DEF PushSub
  <2>5. Range(subers'[t]) = Range(subers[t]) \cup {c}
    BY <1>1, <2>3, <2>4, AppendEntry
  <2>6. c \in Range(subers'[t]) /\ \A u \in Topic : Range(subers[u]) \subseteq Range(subers'[u])
    BY <2>4, <2>5
  <2>7. FoundListed'
    <3> SUFFICES ASSUME NEW k \in Job, at'[k] = "answerSub",
                        asks[k].c \notin atOnce, reader[asks[k].c] # "over"
                 PROVE  asks[k].c \in Range(subers'[Asked(k).topic])
      BY <1>1 DEF FoundListed, Asked
    <3>1. CASE k = j
      BY <2>6, <3>1
    <3>2. CASE k # j
      <4>1. at[k] = "answerSub"
        BY <1>1, <3>2
      <4>2. asks[k].c \in Range(subers[Asked(k).topic])
        BY <4>1 DEF ToldInv, FoundListed
      <4> QED
        BY <1>4, <2>6, <4>1, <4>2
    <3> QED
      BY <3>1, <3>2
  <2> QED
    BY <1>5, <2>1, <2>6, <2>7
<1>9. ASSUME RemoveSub(j) PROVE ToldInv'
  <2>1. /\ UNCHANGED <<sock, peer, registered, subscribed>>
        /\ at[j] = "unsub" /\ at'[j] = "answer"
    BY <1>3, <1>9 DEF RemoveSub, On, sessionVars
  <2>2. Asked(j).todo = "unsub"
    BY <2>1, RequestIs DEF Fits
  <2>3. t \in Topic
    BY <1>1, <2>2, RequestIs
  <2>4. subers[t] \in Seq(Client)
    BY <1>2, <2>3
  <2>5. /\ subers'[t] = EraseFirst(subers[t], c)
        /\ \A u \in Topic : u # t => subers'[u] = subers[u]
    BY <1>2, <1>9, <2>3 DEF RemoveSub
  <2>6. Range(subers[t]) \ {c} \subseteq Range(subers'[t])
    BY <2>4, <2>5, EraseFirstKeeps
  <2>7. FoundListed'
    <3> SUFFICES ASSUME NEW k \in Job, at'[k] = "answerSub",
                        asks[k].c \notin atOnce, reader[asks[k].c] # "over"
                 PROVE  asks[k].c \in Range(subers'[Asked(k).topic])
      BY <1>1 DEF FoundListed, Asked
    <3>1. k # j /\ at[k] = "answerSub"
      BY <1>1, <2>1
    <3>2. AboutLists(k) /\ Asked(k).topic \in Topic
      BY <1>4, <3>1
    <3>3. asks[k].c # c
      BY <1>1, <2>2, <3>1, <3>2 DEF ListInv, OneRequest, AboutLists
    <3>4. asks[k].c \in Range(subers[Asked(k).topic])
      BY <3>1 DEF ToldInv, FoundListed
    <3> QED
      BY <2>5, <2>6, <3>2, <3>3, <3>4
  <2>8. c \notin subscribed[t]
    BY <1>1, <2>2, <2>3 DEF ToldInv, ToldListed, Cancels
  <2>9. \A u \in Topic : \A d \in subscribed[u] :
            d \in Range(subers[u]) => d \in Range(subers'[u])
    BY <2>5, <2>6, <2>8
  <2> QED
    BY <1>5, <2>1, <2>7, <2>9
<1>10. CASE ~(Answer(j) \/ FindSub(j) \/ PushSub(j) \/ RemoveSub(j))
  BY <1>10, HandlerLeavesLists, ToldStays
<1> QED
  BY <1>6, <1>7, <1>8, <1>9, <1>10

LEMMA ToldNext == Types /\ ListInv /\ ToldInv /\ [Next]_vars => ToldInv'
<1> SUFFICES ASSUME Types, ListInv, ToldInv, [Next]_vars PROVE ToldInv'
  OBVIOUS
<1>1. /\ subers \in [Topic -> Seq(Client)] /\ at \in [Job -> Step]
      /\ sock \in [Client -> {"none", "open", "closed"}]
      /\ reader \in [Client -> {"none", "reading", "ending", "over"}]
      /\ peer \in [Client -> {"here", "gone"}]
      /\ registered \subseteq Client
  BY DEF Types, SessionTypes, JobTypes, ToldInv
<1>2. \A k \in Job : at[k] = "answerSub" => asks[k].c \in Client /\ Asked(k).topic \in Topic
  <2> TAKE k \in Job
  <2> HAVE at[k] = "answerSub"
  <2>1. Asked(k).todo = "sub"
    BY RequestIs DEF Fits
  <2> QED
    BY <2>1, RequestIs
<1>3. ASSUME NEW c \in Client, Connect(c) PROVE ToldInv'
  <2>1. /\ sock[c] = "none" /\ sock' = [sock EXCEPT ![c] = "open"]
        /\ reader' = [reader EXCEPT ![c] = "reading"]
        /\ registered' = registered \cup {c}
        /\ UNCHANGED <<peer, subers, subscribed, atOnce, asks, at>>
    BY <1>3 DEF Connect, subVars
  <2>2. HereInv'
    BY <1>1, <2>1 DEF ToldInv, HereInv, Reaches
  <2>3. reader[c] = "none"
    BY <2>1 DEF ToldInv, HereInv
  <2>4. FoundListed'
    BY <1>1, <1>2, <2>1, <2>3 DEF ToldInv, FoundListed, Asked
  <2>5. ToldListed'
    BY <1>1, <2>1 DEF ToldInv, ToldListed, Reaches, Cancels, Under, Asked
  <2> QED
    BY <1>1, <2>1, <2>2, <2>4, <2>5 DEF ToldInv
<1>4. ASSUME NEW c \in Client, Ask(c) PROVE ToldInv'
  <2>1. PICK request \in agenda.asks :
          /\ asks' = Append(asks, [c |-> c, request |-> request])
          /\ subscribed' = [t \in Topic |->
                IF request.todo = "unsub" /\ request.topic = t
                THEN subscribed[t] \ {c} ELSE subscribed[t]]
          /\ atOnce' = IF /\ request.todo \in {"sub", "unsub"}
                          /\ \E j \in JobsOf(c) : Asked(j).todo \in {"sub", "unsub"}
                       THEN atOnce \cup {c} ELSE atOnce
    BY <1>4 DEF Ask
  <2>2. /\ UNCHANGED <<peer, sock, registered, subers>> /\ atOnce \subseteq atOnce'
        /\ Len(asks) < MaxAsks /\ at' = [at EXCEPT ![Len(asks')] = "queued"]
        /\ agenda' = agenda
        /\ reader' = IF sock[c] = "closed" THEN [reader EXCEPT ![c] = "ending"] ELSE reader
        /\ reader[c] = "reading"
    BY <1>4, <2>1 DEF Ask
  <2>3. PICK n \in Job : /\ at[n] = "none" /\ at' = [at EXCEPT ![n] = "queued"]
                         /\ n \notin DOMAIN asks /\ DOMAIN asks' = DOMAIN asks \cup {n}
                         /\ asks'[n] = [c |-> c, request |-> request]
                         /\ \A k \in DOMAIN asks : asks'[k] = asks[k]
    BY <2>1, <2>2, AskAdds
  <2>4. /\ at'[n] = "queued" /\ \A k \in Job : k # n => at'[k] = at[k]
        /\ \A k \in Job : k # n /\ at'[k] # "none" => k \in DOMAIN asks /\ asks'[k] = asks[k]
    BY <1>1, <2>3 DEF Types, JobTypes
  <2>5. HereInv'
    BY <1>1, <2>2 DEF ToldInv, HereInv, Reaches
  <2>6. FoundListed'
    <3> SUFFICES ASSUME NEW k \in Job, at'[k] = "answerSub",
                        asks'[k].c \notin atOnce', reader'[asks'[k].c] # "over"
                 PROVE  asks'[k].c \in Range(subers'[asks'[k].request.topic])
      BY DEF FoundListed, Asked
    <3>1. k # n /\ at[k] = "answerSub" /\ asks'[k] = asks[k]
      BY <2>4
    <3>2. asks[k].c \notin atOnce /\ reader[asks[k].c] # "over"
      BY <1>1, <1>2, <2>2, <3>1
    <3> QED
      BY <2>2, <3>1, <3>2 DEF ToldInv, FoundListed, Asked
  <2>7. ToldListed'
    <3> SUFFICES ASSUME NEW t \in Topic, NEW d \in subscribed'[t]
                 PROVE  /\ d \in Client /\ Reaches(d) /\ d \in Range(subers[t])
                        /\ \A k \in Job : ~Cancels(k, d, t)'
      BY <2>2 DEF ToldListed, Reaches
    <3>1. /\ d \in subscribed[t]
          /\ ~(request.todo = "unsub" /\ request.topic = t /\ d = c)
      BY <2>1
    <3>2. /\ d \in Client /\ Reaches(d) /\ d \in Range(subers[t])
          /\ \A k \in Job : ~Cancels(k, d, t)
      BY <3>1 DEF ToldInv, ToldListed
    <3>3. ASSUME NEW k \in Job, Cancels(k, d, t)' PROVE FALSE
      <4>1. /\ at'[k] \notin {"none", "done"} /\ asks'[k].c = d
            /\ asks'[k].request.todo = "unsub" /\ asks'[k].request.topic = t
        BY <3>3 DEF Cancels, Under, Asked
      <4>2. CASE k = n
        BY <2>3, <3>1, <4>1, <4>2
      <4>3. CASE k # n
        BY <2>4, <3>2, <4>1, <4>3 DEF Cancels, Under, Asked
      <4> QED
        BY <4>2, <4>3
    <3> QED
      BY <3>2, <3>3
  <2> QED
    BY <1>1, <2>2, <2>5, <2>6, <2>7 DEF ToldInv
<1>5. ASSUME NEW c \in Client, Leave(c) PROVE ToldInv'
  <2>1. /\ sock[c] # "none" /\ peer' = [peer EXCEPT ![c] = "gone"]
        /\ \A t \in Topic : subscribed'[t] = subscribed[t] \ {c}
        /\ UNCHANGED <<sock, reader, registered, subers, atOnce, asks, at>>
    BY <1>5 DEF Leave
  <2>2. HereInv' /\ FoundListed'
    BY <1>1, <2>1 DEF ToldInv, HereInv, Reaches, FoundListed, Asked
  <2>3. ToldListed'
    BY <1>1, <2>1 DEF ToldInv, ToldListed, Reaches, Cancels, Under, Asked
  <2> QED
    BY <1>1, <2>1, <2>2, <2>3 DEF ToldInv
<1>6. ASSUME NEW c \in Client, ReadEnds(c) PROVE ToldInv'
  <2>1. /\ ~Reaches(c) /\ reader[c] = "reading"
        /\ reader' = [reader EXCEPT ![c] = "ending"]
        /\ UNCHANGED <<sock, peer, registered, subers, subscribed, atOnce, asks, at>>
    BY <1>6 DEF ReadEnds, Reaches, subVars
  <2>2. HereInv'
    BY <1>1, <2>1 DEF ToldInv, HereInv, Reaches
  <2>3. FoundListed'
    BY <1>1, <1>2, <2>1 DEF ToldInv, FoundListed, Asked
  <2>4. ToldListed'
    BY <2>1 DEF ToldInv, ToldListed, Reaches, Cancels, Under, Asked
  <2> QED
    BY <1>1, <2>1, <2>2, <2>3, <2>4 DEF ToldInv
<1>7. ASSUME NEW c \in Client, RemoveSession(c) PROVE ToldInv'
  <2>1. /\ reader[c] = "ending" /\ reader' = [reader EXCEPT ![c] = "over"]
        /\ registered' = registered \ {c}
        /\ \A t \in Topic : subers'[t] = EraseFirst(subers[t], c)
        /\ \A t \in Topic : subscribed'[t] = subscribed[t] \ {c}
        /\ UNCHANGED <<sock, peer, atOnce, asks, at>>
    BY <1>7 DEF RemoveSession
  <2>2. \A t \in Topic : Range(subers[t]) \ {c} \subseteq Range(subers'[t])
    <3> TAKE t \in Topic
    <3>1. subers[t] \in Seq(Client)
      BY <1>1
    <3> QED
      BY <2>1, <3>1, EraseFirstKeeps
  <2>3. ~Reaches(c) /\ sock[c] # "none"
    BY <2>1 DEF ToldInv, HereInv
  <2>4. HereInv'
    BY <1>1, <2>1, <2>3 DEF ToldInv, HereInv, Reaches
  <2>5. FoundListed'
    <3> SUFFICES ASSUME NEW k \in Job, at[k] = "answerSub",
                        asks[k].c \notin atOnce, reader'[asks[k].c] # "over"
                 PROVE  asks[k].c \in Range(subers'[Asked(k).topic])
      BY <2>1 DEF FoundListed, Asked
    <3>1. asks[k].c # c /\ reader[asks[k].c] # "over"
      BY <1>1, <1>2, <2>1
    <3>2. asks[k].c \in Range(subers[Asked(k).topic])
      BY <3>1 DEF ToldInv, FoundListed
    <3> QED
      BY <1>2, <2>2, <3>1, <3>2
  <2>6. ToldListed'
    BY <2>1, <2>2 DEF ToldInv, ToldListed, Reaches, Cancels, Under, Asked
  <2> QED
    BY <1>1, <2>1, <2>4, <2>5, <2>6 DEF ToldInv
<1>8. ASSUME NEW j \in Job, Handler(j) PROVE ToldInv'
  BY <1>8, ToldHandler
<1>9. ASSUME UNCHANGED <<sock, peer, reader, registered, subers, subscribed, atOnce, asks, at>>
      PROVE  ToldInv'
  <2>1. LeavesLists
    BY <1>9 DEF LeavesLists, Under
  <2> QED
    BY <2>1, ToldStays
<1>10. ASSUME NEW t \in Topic, Publish(t) PROVE ToldInv'
  BY <1>9, <1>10 DEF Publish, sessionVars, subVars
<1>11. CASE UNCHANGED vars
  BY <1>9, <1>11 DEF vars, sessionVars, subVars
<1> QED
  BY <1>3, <1>4, <1>5, <1>6, <1>7, <1>8, <1>10, <1>11 DEF Next

\* In every run whoever was told that it has subscribed is on the list and
\* registered until it leaves, cancels or is told to go.
THEOREM ToldAreListedAlways == Spec => []ToldAreListed
<1>1. ToldInv => ToldAreListed
  BY DEF ToldInv, ToldListed, HereInv, ToldAreListed
<1> QED
  BY <1>1, TypesInit, TypesNext, ListInit, ListNext, ToldInit, ToldNext, PTL DEF Spec

-----------------------------------------------------------------------------
(* Vehicles.  Between the two steps of a request the row and the object of a
   vehicle differ; what balances them is the request under way. *)

PendingAdd(j) == at[j] \in {"readId", "addAgv"}
PendingRemoval(id) == \E k \in Job : at[k] = "removeAgv" /\ Asked(k).id = id
OneObjectEach ==
    /\ agvs = [i \in DOMAIN agvs |-> 1]
    /\ DOMAIN agvs \subseteq 1..lastAgvId
    /\ \A j \in Job : PendingAdd(j) => got[j].id \in (1..lastAgvId) \ DOMAIN agvs
    /\ \A j, k \in Job : PendingAdd(j) /\ PendingAdd(k) /\ got[j].id = got[k].id => j = k
RowsBalance ==
    /\ \A i \in agvRows : i \in DOMAIN agvs \/ \E j \in Job : PendingAdd(j) /\ got[j].id = i
    /\ \A i \in DOMAIN agvs : i \in agvRows \/ PendingRemoval(i)
    /\ \A j \in Job : at[j] = "addAgv" => got[j].id \in agvRows \/ PendingRemoval(got[j].id)
Balance == muddled \/ (OneObjectEach /\ RowsBalance)

LEMMA BalanceInit == Init => Balance
<1> SUFFICES ASSUME Init PROVE Balance
  OBVIOUS
<1>1. \A j \in Job : at[j] = "none"
  BY DEF Init
<1>2. agvs = [i \in agvRows |-> 1] /\ agvRows = 1..lastAgvId /\ DOMAIN agvs = agvRows
  BY DEF Init, RegistryInit, SetToBag
<1> QED
  BY <1>1, <1>2 DEF Balance, OneObjectEach, RowsBalance, PendingAdd

\* Nothing is at stake for a step that leaves the vehicles and the requests
\* about them alone.
LEMMA BalanceKept ==
    ASSUME Balance, UNCHANGED registryVars,
           \A k \in Job : \A l \in {"readId", "addAgv", "removeAgv"} : at'[k] = l <=> at[k] = l,
           \A k \in Job : at[k] \in {"readId", "addAgv", "removeAgv"} =>
               got'[k] = got[k] /\ asks'[k] = asks[k]
    PROVE  Balance'
<1>1. \A k \in Job : /\ PendingAdd(k)' <=> PendingAdd(k)
                     /\ PendingAdd(k) => got'[k] = got[k]
                     /\ at'[k] = "addAgv" <=> at[k] = "addAgv"
  BY DEF PendingAdd
<1>2. \A i : PendingRemoval(i) => PendingRemoval(i)'
  BY DEF PendingRemoval, Asked
<1>3. UNCHANGED <<agvRows, lastAgvId, agvs, muddled>>
  BY DEF registryVars
<1>4. OneObjectEach => OneObjectEach'
  BY <1>1, <1>3 DEF OneObjectEach
<1>5. RowsBalance => RowsBalance'
  <2> SUFFICES ASSUME RowsBalance PROVE RowsBalance'
    OBVIOUS
  <2>1. \A i \in agvRows : i \in DOMAIN agvs \/ \E j \in Job : PendingAdd(j)' /\ got'[j].id = i
    BY <1>1 DEF RowsBalance
  <2>2. \A i \in DOMAIN agvs : i \in agvRows \/ PendingRemoval(i)'
    BY <1>2 DEF RowsBalance
  <2>3. \A j \in Job : at'[j] = "addAgv" => got'[j].id \in agvRows \/ PendingRemoval(got[j].id)'
    BY <1>1, <1>2 DEF RowsBalance, PendingAdd
  <2>4. \A j \in Job : at'[j] = "addAgv" => got'[j] = got[j]
    BY <1>1 DEF PendingAdd
  <2> QED
    BY <1>3, <2>1, <2>2, <2>3, <2>4 DEF RowsBalance, PendingRemoval
<1> QED
  BY <1>3, <1>4, <1>5 DEF Balance

\* One request about a vehicle goes a step further.
LEMMA AgvJobBalance ==
    ASSUME Types, Balance, NEW j \in Job, AgvJob(j)
    PROVE  Balance'
<1>1. /\ lastAgvId \in Nat /\ agvRows \subseteq 1..lastAgvId /\ got \in [Job -> Person]
      /\ at \in [Job -> Step]
  BY DEF Types, RowsInv, UserTypes, JobTypes
<1>2. asks' = asks /\ \A k \in Job : k # j => at'[k] = at[k]
  BY HandlerMoves DEF Handler, Types, JobTypes
<1>3. \A m : Goto(j, m) => at'[j] = m
  BY <1>1 DEF Goto
<1>4. muddled => muddled'
  BY DEF AgvJob, InsertAgv, ReadAgvId, AddAgv, DeleteAgv, RemoveAgv, registryVars
<1> SUFFICES ASSUME ~muddled', OneObjectEach, RowsBalance
             PROVE  OneObjectEach' /\ RowsBalance'
  BY <1>4 DEF Balance
<1>5. /\ agvs = [i \in DOMAIN agvs |-> 1] /\ DOMAIN agvs \subseteq 1..lastAgvId
      /\ \A k \in Job : PendingAdd(k) => got[k].id \in 1..lastAgvId /\ got[k].id \notin DOMAIN agvs
      /\ \A k, m \in Job : PendingAdd(k) /\ PendingAdd(m) /\ got[k].id = got[m].id => k = m
  BY DEF OneObjectEach
<1>6. /\ \A i \in agvRows : i \in DOMAIN agvs \/ \E k \in Job : PendingAdd(k) /\ got[k].id = i
      /\ \A i \in DOMAIN agvs : i \in agvRows \/ PendingRemoval(i)
      /\ \A k \in Job : at[k] = "addAgv" => got[k].id \in agvRows \/ PendingRemoval(got[k].id)
  BY DEF RowsBalance
<1>7. ASSUME at[j] # "removeAgv" PROVE \A i : PendingRemoval(i) => PendingRemoval(i)'
  BY <1>2, <1>7 DEF PendingRemoval, Asked
<1>8. \A k \in Job : k # j => (PendingAdd(k)' <=> PendingAdd(k))
  BY <1>2 DEF PendingAdd
<1>9. CASE On(j, "newAgv") /\ Goto(j, "readId") /\ InsertAgv /\ got' = [got EXCEPT ![j].id = lastAgvId']
  <2>1. /\ at[j] = "newAgv" /\ at'[j] = "readId"
        /\ lastAgvId' = lastAgvId + 1 /\ agvRows' = agvRows \cup {lastAgvId + 1}
        /\ agvs' = agvs
    BY <1>3, <1>9 DEF On, InsertAgv
  <2>2. got'[j].id = lastAgvId + 1 /\ \A k \in Job : k # j => got'[k] = got[k]
    <3>1. got' = [got EXCEPT ![j] = [got[j] EXCEPT !.id = lastAgvId + 1]]
      BY <1>9, <2>1
    <3>2. got[j] \in Person /\ lastAgvId + 1 \in Nat
      BY <1>1
    <3>3. [got[j] EXCEPT !.id = lastAgvId + 1].id = lastAgvId + 1
      BY <3>2, OtherId
    <3> QED
      BY <1>1, <3>1, <3>3
  <2>3. /\ 1..lastAgvId \subseteq 1..lastAgvId' /\ lastAgvId' \in 1..lastAgvId'
        /\ lastAgvId' \notin 1..lastAgvId
    BY <1>1, <2>1
  <2>4. ~PendingAdd(j) /\ PendingAdd(j)'
    BY <2>1 DEF PendingAdd
  <2>5. OneObjectEach'
    <3>1. \A k \in Job : PendingAdd(k)' =>
            got'[k].id \in 1..lastAgvId' /\ got'[k].id \notin DOMAIN agvs
      BY <1>5, <1>8, <2>1, <2>2, <2>3
    <3>2. \A k, m \in Job : PendingAdd(k)' /\ PendingAdd(m)' /\ got'[k].id = got'[m].id => k = m
      BY <1>5, <1>8, <2>1, <2>2, <2>3
    <3> QED
      BY <1>5, <2>1, <2>3, <3>1, <3>2 DEF OneObjectEach
  <2>6. RowsBalance'
    <3>1. \A i \in agvRows' : i \in DOMAIN agvs \/ \E k \in Job : PendingAdd(k)' /\ got'[k].id = i
      BY <1>6, <1>8, <2>1, <2>2, <2>4
    <3>2. \A i \in DOMAIN agvs : i \in agvRows' \/ PendingRemoval(i)'
      BY <1>6, <1>7, <2>1
    <3>3. \A k \in Job : at'[k] = "addAgv" => k # j /\ at[k] = "addAgv" /\ got'[k] = got[k]
      BY <1>2, <2>1, <2>2
    <3>4. ASSUME NEW k \in Job, at'[k] = "addAgv"
          PROVE  got'[k].id \in agvRows' \/ \E m \in Job : at'[m] = "removeAgv" /\ (Asked(m)').id = got'[k].id
      <4>1. PICK i : i = got[k].id
        OBVIOUS
      <4>2. i \in agvRows \/ PendingRemoval(i)
        BY <1>6, <3>3, <3>4, <4>1
      <4>3. i \in agvRows' \/ PendingRemoval(i)'
        BY <1>7, <2>1, <4>2
      <4> QED
        BY <3>3, <3>4, <4>1, <4>3 DEF PendingRemoval
    <3> QED
      BY <2>1, <3>1, <3>2, <3>3, <3>4 DEF RowsBalance, PendingRemoval
  <2> QED
    BY <2>5, <2>6
<1>10. CASE On(j, "readId") /\ agvRows = {} /\ Goto(j, "answer") /\ UNCHANGED <<got, registryVars>>
  <2>1. /\ at[j] = "readId" /\ at'[j] = "answer" /\ agvRows = {}
        /\ UNCHANGED <<got, agvRows, lastAgvId, agvs>>
    BY <1>3, <1>10 DEF On, registryVars
  <2>2. \A k \in Job : PendingAdd(k)' => PendingAdd(k)
    BY <1>8, <2>1 DEF PendingAdd
  <2>3. OneObjectEach'
    BY <2>1, <2>2 DEF OneObjectEach
  <2>4. \A i \in DOMAIN agvs : PendingRemoval(i)'
    BY <1>6, <1>7, <2>1
  <2>5. \A k \in Job : at'[k] = "addAgv" => PendingRemoval(got[k].id)'
    <3> TAKE k \in Job
    <3> HAVE at'[k] = "addAgv"
    <3>1. at[k] = "addAgv"
      BY <1>2, <2>1
    <3>2. PendingRemoval(got[k].id)
      BY <1>6, <2>1, <3>1
    <3> QED
      BY <1>2, <2>1, <3>2 DEF PendingRemoval, Asked
  <2>6. RowsBalance'
    BY <2>1, <2>4, <2>5 DEF RowsBalance, PendingRemoval
  <2> QED
    BY <2>3, <2>6
<1>11. CASE On(j, "readId") /\ agvRows # {} /\ Goto(j, "addAgv") /\ ReadAgvId(got[j].id)
            /\ got' = [got EXCEPT ![j].id = MaxAgvId]
  <2>1. /\ at[j] = "readId" /\ at'[j] = "addAgv" /\ MaxAgvId = got[j].id
        /\ UNCHANGED <<agvRows, lastAgvId, agvs>>
    BY <1>3, <1>11 DEF On, ReadAgvId
  <2>2. MaxAgvId \in agvRows
    BY <1>1, <1>11, MaxOfRows DEF MaxAgvId
  <2>3. \A k \in Job : got'[k].id = got[k].id
    <3>1. got' = [got EXCEPT ![j] = [got[j] EXCEPT !.id = MaxAgvId]]
      BY <1>11
    <3>2. got[j] \in Person /\ MaxAgvId \in Nat
      BY <1>1, <2>2
    <3>3. [got[j] EXCEPT !.id = MaxAgvId].id = MaxAgvId
      BY <3>2, OtherId
    <3> QED
      BY <1>1, <2>1, <3>1, <3>3
  <2>4. \A k \in Job : PendingAdd(k)' <=> PendingAdd(k)
    BY <1>8, <2>1 DEF PendingAdd
  <2>5. OneObjectEach'
    <3>1. \A k \in Job : PendingAdd(k)' => got'[k].id \in (1..lastAgvId) \ DOMAIN agvs
      BY <1>5, <2>3, <2>4
    <3>2. \A k, m \in Job : PendingAdd(k)' /\ PendingAdd(m)' /\ got'[k].id = got'[m].id => k = m
      BY <1>5, <2>3, <2>4
    <3> QED
      BY <1>5, <2>1, <3>1, <3>2 DEF OneObjectEach
  <2>6. RowsBalance'
    <3>1. \A i \in agvRows : i \in DOMAIN agvs \/ \E k \in Job : PendingAdd(k)' /\ got'[k].id = i
      BY <1>6, <2>3, <2>4
    <3>2. \A i \in DOMAIN agvs : i \in agvRows \/ PendingRemoval(i)'
      BY <1>6, <1>7, <2>1
    <3>3. ASSUME NEW k \in Job, at'[k] = "addAgv"
          PROVE  got'[k].id \in agvRows' \/ \E m \in Job : at'[m] = "removeAgv" /\ (Asked(m)').id = got'[k].id
      <4>1. PICK i : i = got'[k].id
        OBVIOUS
      <4>2. i \in agvRows \/ PendingRemoval(i)
        <5>1. CASE k = j
          BY <2>1, <2>2, <2>3, <4>1, <5>1
        <5>2. CASE k # j
          <6>1. at[k] = "addAgv" /\ got[k].id = i
            BY <1>2, <2>3, <3>3, <4>1, <5>2
          <6> QED
            BY <1>6, <6>1
        <5> QED
          BY <5>1, <5>2
      <4>3. i \in agvRows' \/ PendingRemoval(i)'
        BY <1>7, <2>1, <4>2
      <4> QED
        BY <4>1, <4>3 DEF PendingRemoval
    <3> QED
      BY <2>1, <3>1, <3>2, <3>3 DEF RowsBalance, PendingRemoval
  <2> QED
    BY <2>5, <2>6
<1>12. CASE On(j, "addAgv") /\ Goto(j, "answer") /\ AddAgv(got[j].id) /\ UNCHANGED got
  <2> DEFINE id == got[j].id
  <2>1. /\ at[j] = "addAgv" /\ at'[j] = "answer" /\ UNCHANGED <<got, agvRows, lastAgvId>>
    BY <1>3, <1>12 DEF On, AddAgv
  <2>2. PendingAdd(j) /\ ~PendingAdd(j)'
    BY <2>1 DEF PendingAdd
  <2>3. id \in 1..lastAgvId /\ id \notin DOMAIN agvs
    BY <1>5, <2>2
  <2>4. agvs' = [i \in DOMAIN agvs \cup {id} |->
                   (IF i \in DOMAIN agvs THEN agvs[i] ELSE 0) + (IF i = id THEN 1 ELSE 0)]
    BY <1>12 DEF AddAgv, BagIn, BagToSet
  <2>5. \A i \in DOMAIN agvs : agvs[i] = 1 /\ i # id
    BY <1>5, <2>3
  <2>6. agvs' = [i \in DOMAIN agvs \cup {id} |-> 1]
    BY <2>3, <2>4, <2>5
  <2>7. DOMAIN agvs' = DOMAIN agvs \cup {id}
    BY <2>6
  <2>8. OneObjectEach'
    <3>1. \A k \in Job : PendingAdd(k)' => PendingAdd(k) /\ k # j /\ got[k].id # id
      BY <1>5, <1>8, <2>2
    <3>2. \A k \in Job : PendingAdd(k)' => got'[k].id \in (1..lastAgvId') \ DOMAIN agvs'
      BY <1>5, <2>1, <2>7, <3>1
    <3>3. \A k, m \in Job : PendingAdd(k)' /\ PendingAdd(m)' /\ got'[k].id = got'[m].id => k = m
      BY <1>5, <2>1, <3>1
    <3>4. agvs' = [i \in DOMAIN agvs' |-> 1] /\ DOMAIN agvs' \subseteq 1..lastAgvId'
      BY <1>5, <2>1, <2>3, <2>6, <2>7
    <3> QED
      BY <3>2, <3>3, <3>4 DEF OneObjectEach
  <2>9. RowsBalance'
    <3>1. \A i \in agvRows : i \in DOMAIN agvs' \/ \E k \in Job : PendingAdd(k)' /\ got[k].id = i
      BY <1>6, <1>8, <2>7
    <3>2. \A i \in DOMAIN agvs' : i \in agvRows \/ PendingRemoval(i)'
      BY <1>6, <1>7, <2>1, <2>7
    <3>3. \A k \in Job : at'[k] = "addAgv" => got[k].id \in agvRows \/ PendingRemoval(got[k].id)'
      <4> TAKE k \in Job
      <4> HAVE at'[k] = "addAgv"
      <4>1. got[k].id \in agvRows \/ PendingRemoval(got[k].id)
        BY <1>2, <1>6, <2>1
      <4> QED
        BY <1>2, <2>1, <4>1 DEF PendingRemoval, Asked
    <3> QED
      BY <2>1, <3>1, <3>2, <3>3 DEF RowsBalance, PendingRemoval
  <2> QED
    BY <2>8, <2>9
<1>13. CASE On(j, "deleteAgv") /\ Goto(j, "removeAgv") /\ DeleteAgv(Asked(j).id) /\ UNCHANGED got
  <2>1. /\ at[j] = "deleteAgv" /\ at'[j] = "removeAgv" /\ UNCHANGED <<got, lastAgvId, agvs>>
        /\ agvRows' = agvRows \ {Asked(j).id}
    BY <1>3, <1>13 DEF On, DeleteAgv
  <2>2. PendingRemoval(Asked(j).id)' /\ \A i : PendingRemoval(i) => PendingRemoval(i)'
    BY <1>2, <1>7, <2>1 DEF PendingRemoval, Asked
  <2>3. \A k \in Job : PendingAdd(k)' <=> PendingAdd(k)
    BY <1>8, <2>1 DEF PendingAdd
  <2>4. OneObjectEach'
    BY <2>1, <2>3 DEF OneObjectEach
  <2>5. \A i : i \in agvRows \/ PendingRemoval(i) => i \in agvRows' \/ PendingRemoval(i)'
    <3> TAKE i
    <3>1. i = Asked(j).id => PendingRemoval(i)'
      BY <1>2, <2>1 DEF PendingRemoval, Asked
    <3> QED
      BY <2>1, <2>2, <3>1
  <2>6. RowsBalance'
    <3>1. \A i \in agvRows' : i \in DOMAIN agvs \/ \E k \in Job : PendingAdd(k)' /\ got[k].id = i
      BY <1>6, <2>1, <2>3
    <3>2. \A i \in DOMAIN agvs : i \in agvRows' \/ PendingRemoval(i)'
      BY <1>6, <2>5
    <3>3. \A k \in Job : at'[k] = "addAgv" => at[k] = "addAgv"
      BY <1>2, <2>1
    <3>4. ASSUME NEW k \in Job, at'[k] = "addAgv"
          PROVE  got'[k].id \in agvRows' \/ \E m \in Job : at'[m] = "removeAgv" /\ (Asked(m)').id = got'[k].id
      <4>1. PICK i : i = got[k].id
        OBVIOUS
      <4>2. i \in agvRows \/ PendingRemoval(i)
        BY <1>6, <3>3, <3>4, <4>1
      <4>3. i \in agvRows' \/ PendingRemoval(i)'
        BY <2>5, <4>2
      <4> QED
        BY <2>1, <4>1, <4>3 DEF PendingRemoval
    <3> QED
      BY <2>1, <3>1, <3>2, <3>4 DEF RowsBalance, PendingRemoval
  <2> QED
    BY <2>4, <2>6
<1>14. CASE On(j, "removeAgv") /\ Goto(j, "answer") /\ RemoveAgv(Asked(j).id, Adding) /\ UNCHANGED got
  <2> DEFINE id == Asked(j).id
  <2>1. /\ at[j] = "removeAgv" /\ at'[j] = "answer" /\ UNCHANGED <<got, agvRows, lastAgvId>>
        /\ agvs' = [i \in DOMAIN agvs \ {id} |-> agvs[i]]
        /\ id \notin agvRows /\ id \notin Adding
    BY <1>3, <1>14 DEF On, RemoveAgv
  <2>2. DOMAIN agvs' = DOMAIN agvs \ {id} /\ agvs' = [i \in DOMAIN agvs' |-> 1]
    BY <1>5, <2>1
  <2>3. \A k \in Job : PendingAdd(k)' <=> PendingAdd(k)
    BY <1>8, <2>1 DEF PendingAdd
  <2>4. OneObjectEach'
    <3>1. \A k \in Job : PendingAdd(k)' => got'[k].id \in (1..lastAgvId') \ DOMAIN agvs'
      BY <1>5, <2>1, <2>2, <2>3
    <3>2. \A k, m \in Job : PendingAdd(k)' /\ PendingAdd(m)' /\ got'[k].id = got'[m].id => k = m
      BY <1>5, <2>1, <2>3
    <3>3. DOMAIN agvs' \subseteq 1..lastAgvId'
      BY <1>5, <2>1, <2>2
    <3> QED
      BY <2>2, <3>1, <3>2, <3>3 DEF OneObjectEach
  <2>5. \A i : i # id /\ PendingRemoval(i) => PendingRemoval(i)'
    BY <1>2, <2>1 DEF PendingRemoval, Asked
  <2>6. RowsBalance'
    <3>1. \A i \in agvRows' : i \in DOMAIN agvs' \/ \E k \in Job : PendingAdd(k)' /\ got'[k].id = i
      BY <1>6, <2>1, <2>2, <2>3
    <3>2. \A i \in DOMAIN agvs' : i \in agvRows' \/ PendingRemoval(i)'
      BY <1>6, <2>1, <2>2, <2>5
    <3>3. ASSUME NEW k \in Job, at'[k] = "addAgv"
          PROVE  got'[k].id \in agvRows' \/ \E m \in Job : at'[m] = "removeAgv" /\ (Asked(m)').id = got'[k].id
      <4>1. PICK i : i = got[k].id
        OBVIOUS
      <4>2. at[k] = "addAgv"
        BY <1>2, <2>1, <3>3
      <4>3. i \in Adding /\ (i \in agvRows \/ PendingRemoval(i))
        BY <1>6, <4>1, <4>2 DEF Adding
      <4>4. i \in agvRows' \/ PendingRemoval(i)'
        BY <2>1, <2>5, <4>3
      <4> QED
        BY <2>1, <4>1, <4>4 DEF PendingRemoval
    <3> QED
      BY <3>1, <3>2, <3>3 DEF RowsBalance, PendingRemoval
  <2> QED
    BY <2>4, <2>6
<1> QED
  BY <1>9, <1>10, <1>11, <1>12, <1>13, <1>14 DEF AgvJob

\* The other requests do nothing to the vehicles, nor to those about vehicles.
LEMMA BalanceNext == Types /\ Balance /\ [Next]_vars => Balance'
<1> SUFFICES ASSUME Types, Balance, [Next]_vars PROVE Balance'
  OBVIOUS
<1> DEFINE About == {"readId", "addAgv", "removeAgv"}
<1>1. at \in [Job -> Step] /\ got \in [Job -> Person]
  BY DEF Types, JobTypes, UserTypes
<1>2. ASSUME UNCHANGED <<registryVars, at, got, asks>> PROVE Balance'
  BY <1>2, BalanceKept
<1>3. ASSUME NEW j \in Job, NEW l, Goto(j, l), at[j] \notin About, l \notin About,
             UNCHANGED registryVars,
             \A k \in Job : k # j => got'[k] = got[k]
      PROVE  Balance'
  <2>1. at'[j] = l /\ asks' = asks /\ \A k \in Job : k # j => at'[k] = at[k]
    BY <1>1, <1>3 DEF Goto
  <2>2. \A k \in Job : \A m \in About : at'[k] = m <=> at[k] = m
    BY <1>3, <2>1
  <2>3. \A k \in Job : at[k] \in About => got'[k] = got[k] /\ asks'[k] = asks[k]
    BY <1>3, <2>1
  <2> QED
    BY <1>3, <2>2, <2>3, BalanceKept
<1>4. ASSUME NEW j \in Job, Start(j) PROVE Balance'
  <2>1. PICK l \in Kinds \cup {"answer"} : Goto(j, l)
    <3>1. at[j] # "none"
      BY <1>4 DEF Start
    <3> QED
      BY <1>4, <3>1, RequestIs DEF Start
  <2>2. l \notin About /\ at[j] \notin About /\ UNCHANGED <<got, registryVars>>
    BY <1>4 DEF Start, Kinds
  <2> QED
    BY <1>3, <2>1, <2>2
<1>5. ASSUME NEW j \in Job, Answer(j) PROVE Balance'
  <2>1. PICK l : Goto(j, l) /\ l \in {Then[at[j]], "done"}
    BY <1>5 DEF Answer
  <2>2. l \notin About /\ at[j] \notin About /\ UNCHANGED <<got, registryVars>>
    BY <1>5, <2>1 DEF Answer, Then
  <2> QED
    BY <1>3, <2>1, <2>2
<1>6. ASSUME NEW j \in Job, Select(j) PROVE Balance'
  <2>1. PICK l \in {"answer", "set"} : Goto(j, l)
    BY <1>6 DEF Select
  <2>2. /\ at[j] \notin About /\ UNCHANGED registryVars
        /\ \A k \in Job : k # j => got'[k] = got[k]
    BY <1>1, <1>6 DEF Select, On
  <2> QED
    BY <1>3, <2>1, <2>2
<1>7. ASSUME NEW j \in Job,
             \/ SetUser(j) \/ Logout(j) \/ KickSession(j) \/ MayRemove(j) \/ Delete(j)
             \/ KickSessionByUserId(j) \/ AddUser(j) \/ ModifyUser(j) \/ ChangePassword(j)
      PROVE  Balance'
  <2>1. PICK l \in {"answer", "answerAndKick", "done", "delete", "answerAndKickUser"} : Goto(j, l)
    <3>1. CASE SetUser(j) \/ AddUser(j) \/ ModifyUser(j)
      BY <3>1 DEF SetUser, AddUser, ModifyUser
    <3>2. CASE Logout(j) \/ ChangePassword(j) \/ Delete(j)
      BY <3>2 DEF Logout, ChangePassword, Delete
    <3>3. CASE KickSession(j) \/ KickSessionByUserId(j)
      BY <3>3 DEF KickSession, KickSessionByUserId
    <3>4. CASE MayRemove(j)
      BY <3>4 DEF MayRemove
    <3> QED
      BY <1>7, <3>1, <3>2, <3>3, <3>4
  <2>2. at[j] \notin About /\ UNCHANGED <<got, registryVars>>
    BY <1>7 DEF SetUser, Logout, ChangePassword, KickSession, MayRemove, Delete,
       KickSessionByUserId, AddUser, ModifyUser, On
  <2> QED
    BY <1>3, <2>1, <2>2
<1>8. ASSUME NEW j \in Job, FindSub(j) \/ PushSub(j) \/ RemoveSub(j) PROVE Balance'
  <2>1. PICK l \in {"answer", "answerSub", "push"} : Goto(j, l)
    BY <1>8 DEF FindSub, PushSub, RemoveSub
  <2>2. at[j] \notin About /\ UNCHANGED <<got, registryVars>>
    BY <1>8 DEF FindSub, PushSub, RemoveSub, On
  <2> QED
    BY <1>3, <2>1, <2>2
<1>9. ASSUME NEW j \in Job, Handler(j) PROVE Balance'
  BY <1>4, <1>5, <1>6, <1>7, <1>8, <1>9, AgvJobBalance DEF Handler
<1>10. ASSUME NEW c \in Client, Ask(c) PROVE Balance'
  <2>1. PICK request \in agenda.asks, n \in Job : Comes(c, request, n)
    BY <1>10, AskComes
  <2>2. /\ at[n] = "none" /\ at' = [at EXCEPT ![n] = "queued"]
        /\ n \notin DOMAIN asks /\ asks'[n] = [c |-> c, request |-> request]
    BY <2>1 DEF Comes
  <2>3. \A k \in DOMAIN asks : asks'[k] = asks[k]
    BY <2>1 DEF Comes
  <2>4. UNCHANGED <<got, registryVars>>
    BY <1>10 DEF Ask
  <2>5. \A k \in Job : \A m \in About : at'[k] = m <=> at[k] = m
    BY <1>1, <2>2
  <2>6. \A k \in Job : at[k] \in About => k \in DOMAIN asks
    BY DEF Types, JobTypes
  <2> QED
    BY <2>3, <2>4, <2>5, <2>6, BalanceKept
<1>11. ASSUME NEW c \in Client, Connect(c) \/ Leave(c) \/ ReadEnds(c) \/ RemoveSession(c)
       PROVE  Balance'
  BY <1>2, <1>11 DEF Connect, Leave, ReadEnds, RemoveSession
<1>12. ASSUME NEW t \in Topic, Publish(t) PROVE Balance'
  BY <1>2, <1>12 DEF Publish
<1>13. CASE UNCHANGED vars
  BY <1>2, <1>13 DEF vars
<1> QED
  BY <1>9, <1>10, <1>11, <1>12, <1>13 DEF Next

\* In every run, once all that was asked for is done, the vehicles in memory
\* are those of the table, one object each, unless an add was muddled.
THEOREM RegistryFitsAlways == Spec => []RegistryFits
<1>1. Balance => RegistryFits
  <2> SUFFICES ASSUME Balance, \A j \in Job : ~Under(j), ~muddled
               PROVE  agvs = SetToBag(agvRows)
    BY DEF RegistryFits, InTableAsInMemory
  <2>1. \A j \in Job : at[j] \in {"none", "done"}
    BY DEF Under
  <2>2. agvs = [i \in DOMAIN agvs |-> 1] /\ DOMAIN agvs = agvRows
    BY <2>1 DEF Balance, OneObjectEach, RowsBalance, PendingAdd, PendingRemoval
  <2> QED
    BY <2>2 DEF SetToBag
<1> QED
  BY <1>1, TypesInit, TypesNext, BalanceInit, BalanceNext, PTL DEF Spec

-----------------------------------------------------------------------------
(* Framing: the parts of a stream *)

\* Induction over the natural numbers, for a set in place of a predicate.
LEMMA SetInduction ==
    ASSUME NEW S \in SUBSET Nat, 0 \in S, \A n \in S : n + 1 \in S
    PROVE  S = Nat
<1> DEFINE R == OpToRel(<, Nat)
           T == Nat \ S
<1>1. SUFFICES ASSUME T # {} PROVE FALSE
  OBVIOUS
<1>2. PICK m \in T : \A n \in T : ~(<<n, m>> \in R)
  <2>1. IsWellFoundedOn(R, Nat)
    BY NatLessThanWellFounded
  <2> HIDE DEF R
  <2> QED
    BY <1>1, <2>1, WFMin
<1>3. m \in Nat /\ m # 0 /\ m - 1 \in Nat /\ m - 1 < m
  OBVIOUS
<1>4. <<m - 1, m>> \in R
  BY <1>3 DEF OpToRel
<1>5. m - 1 \in S
  BY <1>2, <1>3, <1>4
<1>6. (m - 1) + 1 = m
  BY <1>3
<1> QED
  BY <1>5, <1>6

-----------------------------------------------------------------------------
(* Streams: where their parts are *)

\* The recursive definition does define a function.
LEMMA FirstsAre ==
    ASSUME NEW s \in Stream
    PROVE  /\ Len(s.parts) \in Nat /\ DOMAIN s.parts = 1..Len(s.parts)
           /\ Firsts[s][0] = [bytes |-> <<>>, messages |-> <<>>]
           /\ \A i \in 1..Len(s.parts) : Firsts[s][i] = And(Firsts[s][i - 1], s.parts[i])
<1> DEFINE n == Len(s.parts)
           none == [bytes |-> <<>>, messages |-> <<>>]
           next(f, i) == And(f, s.parts[i])
           first[i \in 0..n] == IF i = 0 THEN none ELSE next(first[i - 1], i)
<1>1. n \in Nat /\ DOMAIN s.parts = 1..n
  BY StreamAssumption
<1>2. Firsts[s] = first
  BY DEF Firsts
<1> HIDE DEF none, next, n
<1>3. \A i \in 0..n : first[i] = IF i = 0 THEN none ELSE next(first[i - 1], i)
  <2> DEFINE fits(g, k) == g = [i \in 0..k |-> IF i = 0 THEN none
                                               ELSE next(g[i - 1], i)]
             S == {k \in Nat : \E g : fits(g, k)}
  <2>1. 0 \in S
    <3> DEFINE g == [i \in 0..0 |-> none]
    <3>1. g = [i \in 0..0 |-> IF i = 0 THEN none ELSE next(g[i - 1], i)]
      OBVIOUS
    <3> HIDE DEF g
    <3> QED
      BY <3>1
  <2>2. ASSUME NEW k \in S PROVE k + 1 \in S
    <3>1. PICK g : fits(g, k)
      OBVIOUS
    <3> DEFINE h == [i \in 0..(k + 1) |-> IF i <= k THEN g[i] ELSE next(g[k], k + 1)]
    <3>2. ASSUME NEW i \in 0..(k + 1)
          PROVE  h[i] = IF i = 0 THEN none ELSE next(h[i - 1], i)
      <4>1. i # 0 => i - 1 \in 0..(k + 1) /\ h[i - 1] = g[i - 1]
        OBVIOUS
      <4>2. i <= k => g[i] = IF i = 0 THEN none ELSE next(g[i - 1], i)
        <5>1. i <= k => i \in 0..k
          OBVIOUS
        <5>2. \A j \in 0..k : g[j] = IF j = 0 THEN none ELSE next(g[j - 1], j)
          BY <3>1
        <5> QED
          BY <5>1, <5>2
      <4>3. h[i] = IF i <= k THEN g[i] ELSE next(g[k], k + 1)
        OBVIOUS
      <4>4. ~(i <= k) => i - 1 = k /\ i = k + 1 /\ i # 0
        OBVIOUS
      <4> HIDE DEF h
      <4> QED
        BY <4>1, <4>2, <4>3, <4>4
    <3>3. h = [i \in 0..(k + 1) |-> IF i = 0 THEN none ELSE next(h[i - 1], i)]
      BY <3>2
    <3>4. k + 1 \in Nat
      OBVIOUS
    <3> HIDE DEF h
    <3> QED
      BY <3>3, <3>4
  <2>3. S = Nat
    <3>1. S \in SUBSET Nat
      OBVIOUS
    <3> HIDE DEF S
    <3> QED
      BY <2>1, <2>2, <3>1, SetInduction
  <2>4. \E g : g = [i \in 0..n |-> IF i = 0 THEN none ELSE next(g[i - 1], i)]
    BY <1>1, <2>3
  <2>5. first = [i \in 0..n |-> IF i = 0 THEN none ELSE next(first[i - 1], i)]
    BY <2>4
  <2> HIDE DEF first
  <2> QED
    BY <2>5
<1> HIDE DEF first
<1>4. 0 \in 0..n /\ \A i \in 1..n : i \in 0..n /\ i # 0
  BY <1>1
<1> QED
  BY <1>1, <1>2, <1>3, <1>4 DEF none, next, n

\* What is between two places of a sequence.
LEMMA PieceIs ==
    ASSUME NEW S, NEW b \in Seq(S), NEW m \in Nat \ {0}, NEW n \in Int, n <= Len(b)
    PROVE  /\ SubSeq(b, m, n) \in Seq(S)
           /\ Len(SubSeq(b, m, n)) = IF m <= n THEN n - m + 1 ELSE 0
           /\ \A i \in 1..(n - m + 1) : SubSeq(b, m, n)[i] = b[m + i - 1]
<1>1. \A i \in m..n : b[i] \in S
  OBVIOUS
<1> QED
  BY <1>1, SubSeqProperties

LEMMA PartIs ==
    ASSUME NEW s \in Stream, NEW i \in 1..Len(s.parts)
    PROVE  /\ s.parts[i].bytes \in Seq(Byte) /\ s.parts[i].bytes # <<>>
           /\ s.parts[i].message \in Seq(Byte)
           /\ Len(s.parts[i].bytes) \in Nat \ {0}
           /\ IsMarked(s, i) \/ IsJunk(s, i)
<1>1. i \in DOMAIN s.parts
  BY FirstsAre
<1>2. s.parts[i] \in Part
  BY <1>1, StreamAssumption
<1>3. IsMarked(s, i) \/ IsJunk(s, i)
  BY <1>1, PartsAssumption
<1>4. s.parts[i].bytes \in Seq(Byte) /\ s.parts[i].message \in Seq(Byte)
  BY <1>2, StreamAssumption
<1>6. /\ Len(s.parts[i].bytes) \in Int /\ Len(s.parts[i].bytes) - 1 \in Int
      /\ Len(s.parts[i].bytes) - 1 <= Len(s.parts[i].bytes)
  BY <1>4
<1>5. s.parts[i].bytes # <<>>
  <2>1. ASSUME NEW json \in Seq(Byte), s.parts[i].bytes = Packet(json).bytes
        PROVE  s.parts[i].bytes # <<>>
    BY <2>1 DEF Packet
  <2>2. CASE IsPacket(s.parts[i])
    <3>1. SubSeq(s.parts[i].bytes, Prefix + 1, Len(s.parts[i].bytes)) \in Seq(Byte)
      BY <1>4, <1>6, PieceIs DEF Prefix
    <3> QED
      BY <2>1, <2>2, <3>1 DEF IsPacket
  <2>3. ASSUME NEW r, IsFrame(s.parts[i], r) PROVE s.parts[i].bytes # <<>>
    <3>1. SubSeq(s.parts[i].bytes, 2, Len(s.parts[i].bytes) - 1) \in Seq(Byte)
      BY <1>4, <1>6, PieceIs
    <3> QED
      BY <2>3, <3>1 DEF IsFrame
  <2> QED
    BY <1>3, <2>2, <2>3 DEF IsMarked, IsJunk
<1> QED
  BY <1>3, <1>4, <1>5

LEMMA AndIs ==
    ASSUME NEW f, NEW p
    PROVE  /\ And(f, p).bytes = f.bytes \o p.bytes
           /\ And(f, p).messages = IF p.message = <<>> THEN f.messages
                                   ELSE Append(f.messages, p.message)
  BY DEF And

LEMMA FirstsType ==
    ASSUME NEW s \in Stream, NEW i \in 0..Len(s.parts)
    PROVE  Firsts[s][i].bytes \in Seq(Byte) /\ Firsts[s][i].messages \in Seq(Seq(Byte))
<1> DEFINE n == Len(s.parts)
           S == {k \in Nat : k <= n => /\ Firsts[s][k].bytes \in Seq(Byte)
                                       /\ Firsts[s][k].messages \in Seq(Seq(Byte))}
<1>1. 0 \in S
  <2>1. Firsts[s][0].bytes = <<>> /\ Firsts[s][0].messages = <<>>
    BY FirstsAre
  <2>2. <<>> \in Seq(Byte) /\ <<>> \in Seq(Seq(Byte))
    BY EmptySeq
  <2> QED
    BY <2>1, <2>2
<1>2. ASSUME NEW k \in S PROVE k + 1 \in S
  <2>1. CASE k + 1 <= n
    <3>0. n \in Nat /\ k \in Nat
      BY FirstsAre
    <3>1. k + 1 \in 1..n /\ (k + 1) - 1 = k /\ k <= n
      <4> HIDE DEF n
      <4> QED
        BY <2>1, <3>0
    <3>2. Firsts[s][k + 1] = And(Firsts[s][k], s.parts[k + 1])
      BY <3>1, FirstsAre
    <3>3. s.parts[k + 1].bytes \in Seq(Byte) /\ s.parts[k + 1].message \in Seq(Byte)
      BY <3>1, PartIs
    <3>4. Firsts[s][k].bytes \in Seq(Byte) /\ Firsts[s][k].messages \in Seq(Seq(Byte))
      BY <3>1
    <3>5. And(Firsts[s][k], s.parts[k + 1]).bytes \in Seq(Byte)
      BY <3>3, <3>4 DEF And
    <3>6. And(Firsts[s][k], s.parts[k + 1]).messages \in Seq(Seq(Byte))
      BY <3>3, <3>4 DEF And
    <3> QED
      BY <3>2, <3>5, <3>6
  <2>2. CASE ~(k + 1 <= n)
    BY <2>2
  <2> QED
    BY <2>1, <2>2
<1>3. S = Nat
  <2>1. S \in SUBSET Nat
    OBVIOUS
  <2> HIDE DEF S
  <2> QED
    BY <1>1, <1>2, <2>1, SetInduction
<1>4. i \in Nat /\ i <= n
  BY FirstsAre
<1> QED
  BY <1>3, <1>4

\* Each part comes right after the one before, and is not empty.
LEMMA EndsAre ==
    ASSUME NEW s \in Stream
    PROVE  /\ EndOf[s][0] = 0
           /\ \A i \in 0..Len(s.parts) : EndOf[s][i] \in Nat
           /\ \A i \in 1..Len(s.parts) :
                /\ EndOf[s][i] = EndOf[s][i - 1] + Len(s.parts[i].bytes)
                /\ EndOf[s][i - 1] < EndOf[s][i]
           /\ EndOf[s][Len(s.parts)] = Len(Bytes[s])
           /\ Bytes[s] \in Seq(Byte)
<1> DEFINE n == Len(s.parts)
<1>1. n \in Nat /\ n \in 0..n /\ 0 \in 0..n
  BY FirstsAre
<1>2. \A i \in 0..n : EndOf[s][i] = Len(Firsts[s][i].bytes)
  BY DEF EndOf
<1>3. EndOf[s][0] = 0
  BY <1>1, <1>2, FirstsAre
<1>4. \A i \in 0..n : EndOf[s][i] \in Nat
  BY <1>2, FirstsType
<1>5. ASSUME NEW i \in 1..n
      PROVE  /\ EndOf[s][i] = EndOf[s][i - 1] + Len(s.parts[i].bytes)
             /\ EndOf[s][i - 1] < EndOf[s][i]
  <2>1. i \in 0..n /\ i - 1 \in 0..n
    BY <1>1
  <2>2. Firsts[s][i].bytes = Firsts[s][i - 1].bytes \o s.parts[i].bytes
    <3>1. Firsts[s][i] = And(Firsts[s][i - 1], s.parts[i])
      BY FirstsAre
    <3>2. PICK f, p : f = Firsts[s][i - 1] /\ p = s.parts[i]
      OBVIOUS
    <3>3. And(f, p).bytes = f.bytes \o p.bytes
      BY AndIs
    <3>4. Firsts[s][i].bytes = And(f, p).bytes
      BY <3>1, <3>2
    <3> QED
      BY <3>2, <3>3, <3>4
  <2>3. Firsts[s][i - 1].bytes \in Seq(Byte) /\ s.parts[i].bytes \in Seq(Byte)
    BY <2>1, FirstsType, PartIs
  <2>4. Len(Firsts[s][i].bytes) = Len(Firsts[s][i - 1].bytes) + Len(s.parts[i].bytes)
    BY <2>2, <2>3
  <2>5. Len(s.parts[i].bytes) \in Nat \ {0}
    BY PartIs
  <2>6. Len(Firsts[s][i - 1].bytes) \in Nat
    BY <2>3
  <2>7. /\ EndOf[s][i] = Len(Firsts[s][i].bytes)
        /\ EndOf[s][i - 1] = Len(Firsts[s][i - 1].bytes)
    BY <1>2, <2>1
  <2>8. \A x \in Nat, y \in Nat \ {0} : x < x + y
    OBVIOUS
  <2> QED
    BY <2>4, <2>5, <2>6, <2>7, <2>8
<1>6. Bytes[s] = Firsts[s][n].bytes
  BY DEF Bytes
<1> QED
  BY <1>1, <1>2, <1>3, <1>4, <1>5, <1>6, FirstsType

LEMMA Monotone ==
    ASSUME NEW s \in Stream, NEW i \in 0..Len(s.parts), NEW j \in 0..Len(s.parts), i < j
    PROVE  EndOf[s][i] < EndOf[s][j]
<1> DEFINE n == Len(s.parts)
           S == {k \in Nat : i + k + 1 <= n => EndOf[s][i] < EndOf[s][i + k + 1]}
<1>0. n \in Nat /\ i \in Nat /\ j \in Nat
  BY FirstsAre
<1>1. ASSUME NEW k \in Nat, i + k + 1 <= n
      PROVE  /\ EndOf[s][i + k] < EndOf[s][i + k + 1]
             /\ EndOf[s][i] \in Nat /\ EndOf[s][i + k] \in Nat
             /\ EndOf[s][i + k + 1] \in Nat
  <2>1. i + k + 1 \in 1..n /\ (i + k + 1) - 1 = i + k /\ i + k \in 0..n
        /\ i + k + 1 \in 0..n
    BY <1>0, <1>1
  <2> QED
    BY <2>1, EndsAre
<1>2. 0 \in S
  <2>1. i + 0 + 1 <= n => EndOf[s][i + 0] < EndOf[s][i + 0 + 1]
    BY <1>1
  <2>2. i + 0 = i
    BY <1>0
  <2> QED
    BY <2>1, <2>2
<1>3. ASSUME NEW k \in S PROVE k + 1 \in S
  <2>1. CASE i + (k + 1) + 1 <= n
    <3>1. k + 1 \in Nat /\ i + k + 1 <= n /\ i + (k + 1) = i + k + 1
      BY <1>0, <2>1
    <3>2. EndOf[s][i] < EndOf[s][i + k + 1]
      BY <3>1
    <3>3. /\ EndOf[s][i + (k + 1)] < EndOf[s][i + (k + 1) + 1]
          /\ EndOf[s][i] \in Nat /\ EndOf[s][i + (k + 1)] \in Nat
          /\ EndOf[s][i + (k + 1) + 1] \in Nat
      BY <1>1, <2>1, <3>1
    <3>4. \A a, b, c \in Nat : a < b /\ b < c => a < c
      OBVIOUS
    <3> QED
      BY <3>1, <3>2, <3>3, <3>4
  <2>2. CASE ~(i + (k + 1) + 1 <= n)
    BY <2>2
  <2> QED
    BY <2>1, <2>2
<1>4. S = Nat
  <2>1. S \in SUBSET Nat
    OBVIOUS
  <2> HIDE DEF S
  <2> QED
    BY <1>2, <1>3, <2>1, SetInduction
<1>5. j - i - 1 \in Nat /\ i + (j - i - 1) + 1 = j /\ j <= n
  BY <1>0
<1>6. j - i - 1 \in S
  BY <1>4, <1>5
<1> QED
  BY <1>5, <1>6

LEMMA InOrder ==
    ASSUME NEW s \in Stream, NEW i \in 0..Len(s.parts), NEW j \in 0..Len(s.parts)
    PROVE  /\ i <= j <=> EndOf[s][i] <= EndOf[s][j]
           /\ i < j <=> EndOf[s][i] < EndOf[s][j]
<1>1. i \in Nat /\ j \in Nat /\ EndOf[s][i] \in Nat /\ EndOf[s][j] \in Nat
  BY FirstsAre, EndsAre
<1>2. /\ i < j => EndOf[s][i] < EndOf[s][j]
      /\ j < i => EndOf[s][j] < EndOf[s][i]
  BY Monotone
<1>3. i = j => EndOf[s][i] = EndOf[s][j]
  OBVIOUS
<1> HIDE DEF EndOf
<1> QED
  BY <1>1, <1>2, <1>3

\* Every byte belongs to a part.
LEMMA PartOf ==
    ASSUME NEW s \in Stream, NEW q \in Nat, q < Len(Bytes[s])
    PROVE  \E j \in 1..Len(s.parts) : EndOf[s][j - 1] <= q /\ q < EndOf[s][j]
<1> DEFINE n == Len(s.parts)
           S == {k \in 0..n : q < EndOf[s][k]}
<1>0. n \in Nat /\ n \in S
  BY FirstsAre, EndsAre
<1>1. S \in SUBSET Nat /\ S # {}
  BY <1>0
<1>2. PICK j \in S : \A k \in S : j <= k
  <2> HIDE DEF S
  <2> QED
    BY <1>1, LeastOf
<1>3. j # 0
  <2>1. 0 \notin S
    BY EndsAre
  <2> QED
    BY <2>1
<1>4. j \in 1..n /\ j - 1 \in 0..n /\ ~(j <= j - 1)
  BY <1>0, <1>3
<1>5. ~(q < EndOf[s][j - 1])
  BY <1>2, <1>4
<1>6. EndOf[s][j - 1] \in Nat
  BY <1>4, EndsAre
<1>7. EndOf[s][j - 1] <= q
  BY <1>5, <1>6
<1> QED
  BY <1>4, <1>7

\* The bytes of the stream are those of its parts.
LEMMA BytesAre ==
    ASSUME NEW s \in Stream, NEW i \in 1..Len(s.parts),
           NEW x \in 1..Len(s.parts[i].bytes)
    PROVE  /\ Bytes[s][EndOf[s][i - 1] + x] = s.parts[i].bytes[x]
           /\ EndOf[s][i - 1] + x \in 1..Len(Bytes[s])
<1> DEFINE n == Len(s.parts)
           b(k) == Firsts[s][k].bytes
           hits == EndOf[s][i - 1] + x
           S == {k \in Nat : i + k <= n => b(i + k)[hits] = s.parts[i].bytes[x]}
<1>0. /\ n \in Nat /\ i \in Nat /\ i - 1 \in 0..n /\ i \in 0..n
      /\ \A k \in 0..n : b(k) \in Seq(Byte) /\ Len(b(k)) = EndOf[s][k]
      /\ \A k \in 0..n : EndOf[s][k] \in Nat
  <2>1. n \in Nat /\ i \in Nat /\ i - 1 \in 0..n /\ i \in 0..n
    BY FirstsAre
  <2> QED
    BY <2>1, FirstsType, EndsAre DEF EndOf
<1>1. \A k \in 1..n : /\ b(k) = b(k - 1) \o s.parts[k].bytes
                      /\ s.parts[k].bytes \in Seq(Byte)
  <2> TAKE k \in 1..n
  <2>1. Firsts[s][k] = And(Firsts[s][k - 1], s.parts[k])
    BY FirstsAre
  <2> QED
    BY <2>1, AndIs, PartIs
<1>2. x \in Nat \ {0} /\ x <= Len(s.parts[i].bytes) /\ Len(s.parts[i].bytes) \in Nat
      /\ hits \in Nat \ {0} /\ hits <= EndOf[s][i]
  <2>1. EndOf[s][i] = EndOf[s][i - 1] + Len(s.parts[i].bytes)
    BY EndsAre
  <2>2. EndOf[s][i - 1] \in Nat /\ Len(s.parts[i].bytes) \in Nat
    BY <1>0, PartIs
  <2>3. \A a, c \in Nat : \A y \in 1..c : a + y \in Nat \ {0} /\ a + y <= a + c
    OBVIOUS
  <2>4. hits \in Nat \ {0} /\ hits <= EndOf[s][i - 1] + Len(s.parts[i].bytes)
    BY <2>2, <2>3
  <2> QED
    BY <2>1, <2>2, <2>4
<1> HIDE DEF b
<1>3. 0 \in S
  <2>1. b(i) = b(i - 1) \o s.parts[i].bytes
    BY <1>1
  <2>2. b(i - 1) \in Seq(Byte) /\ s.parts[i].bytes \in Seq(Byte)
        /\ Len(b(i - 1)) = EndOf[s][i - 1]
    BY <1>0, <1>1
  <2>3. (b(i - 1) \o s.parts[i].bytes)[Len(b(i - 1)) + x] = s.parts[i].bytes[x]
    BY <1>2, <2>2
  <2>4. i + 0 = i
    BY <1>0
  <2> QED
    BY <2>1, <2>2, <2>3, <2>4
<1>4. ASSUME NEW k \in S PROVE k + 1 \in S
  <2>1. CASE i + (k + 1) <= n
    <3>1. PICK t \in 1..n : t = i + (k + 1) /\ t - 1 = i + k
      BY <1>0, <2>1
    <3>2. t - 1 \in 0..n /\ i <= t - 1 /\ t - 1 \in Nat /\ i + k <= n
      BY <1>0, <2>1, <3>1
    <3> DEFINE f == b(t - 1)
               g == s.parts[t].bytes
    <3>3. b(t) = f \o g /\ f \in Seq(Byte) /\ g \in Seq(Byte) /\ Len(f) = EndOf[s][t - 1]
      BY <1>0, <1>1, <3>2
    <3>4. EndOf[s][i] <= EndOf[s][t - 1]
      BY <1>0, <3>2, InOrder
    <3>5. EndOf[s][i] \in Nat /\ EndOf[s][t - 1] \in Nat
      BY <1>0, <3>2
    <3>6. f[hits] = s.parts[i].bytes[x]
      <4>1. b(i + k)[hits] = s.parts[i].bytes[x]
        BY <3>2
      <4> QED
        BY <3>1, <4>1
    <3> HIDE DEF hits, f, g
    <3>7. hits \in 1..Len(f)
      BY <1>2, <3>3, <3>4, <3>5
    <3>8. (f \o g)[hits] = f[hits]
      BY <3>3, <3>7
    <3>9. b(t)[hits] = s.parts[i].bytes[x]
      BY <3>3, <3>6, <3>8
    <3> QED
      BY <3>1, <3>9
  <2>2. CASE ~(i + (k + 1) <= n)
    BY <2>2
  <2> QED
    BY <2>1, <2>2
<1>5. S = Nat
  <2>1. S \in SUBSET Nat
    OBVIOUS
  <2> HIDE DEF S
  <2> QED
    BY <1>3, <1>4, <2>1, SetInduction
<1>6. n - i \in S /\ i + (n - i) = n
  <2>1. n - i \in Nat /\ i + (n - i) = n
    BY <1>0
  <2> HIDE DEF S
  <2> QED
    BY <1>5, <2>1
<1>7. b(n)[hits] = s.parts[i].bytes[x]
  BY <1>6
<1>8. hits \in 1..Len(Bytes[s])
  <2>1. n \in 0..n /\ i <= n
    BY <1>0
  <2>2. EndOf[s][i] <= EndOf[s][n] /\ EndOf[s][i] \in Nat /\ EndOf[s][n] \in Nat
    BY <1>0, <2>1, InOrder
  <2>3. EndOf[s][n] = Len(Bytes[s])
    BY EndsAre
  <2> HIDE DEF hits
  <2> QED
    BY <1>2, <2>2, <2>3
<1>9. Bytes[s] = b(n)
  BY DEF Bytes, b
<1> QED
  BY <1>7, <1>8, <1>9

-----------------------------------------------------------------------------
(* Messages *)

LEMMA MessagesGrow ==
    ASSUME NEW s \in Stream, NEW i \in 1..Len(s.parts)
    PROVE  Firsts[s][i].messages = IF s.parts[i].message = <<>> THEN Firsts[s][i - 1].messages
                                  ELSE Append(Firsts[s][i - 1].messages, s.parts[i].message)
<1>1. Firsts[s][i] = And(Firsts[s][i - 1], s.parts[i])
  BY FirstsAre
<1> DEFINE f == Firsts[s][i - 1]
           p == s.parts[i]
<1>2. And(f, p).messages = IF p.message = <<>> THEN f.messages
                           ELSE Append(f.messages, p.message)
  BY AndIs
<1>3. Firsts[s][i].messages = And(f, p).messages
  BY <1>1
<1> QED
  BY <1>2, <1>3

LEMMA NoMessage ==
    ASSUME NEW s \in Stream, NEW i \in 1..Len(s.parts), ~IsMarked(s, i)
    PROVE  s.parts[i].message = <<>> /\ IsJunk(s, i)
  BY PartIs DEF IsJunk

\* Messages are only added, and only by parts that have one.
Begins(a, b) == Len(a) <= Len(b) /\ \A x \in 1..Len(a) : a[x] = b[x]
LEMMA MessagesBetween ==
    ASSUME NEW s \in Stream, NEW i \in 0..Len(s.parts), NEW j \in 0..Len(s.parts), i <= j
    PROVE  /\ Begins(Firsts[s][i].messages, Firsts[s][j].messages)
           /\ (\A x \in (i + 1)..j : s.parts[x].message = <<>>) =>
                Firsts[s][i].messages = Firsts[s][j].messages
<1> DEFINE n == Len(s.parts)
           m(k) == Firsts[s][k].messages
           none(k) == \A x \in (i + 1)..(i + k) : s.parts[x].message = <<>>
           S == {k \in Nat : i + k <= n => /\ Begins(m(i), m(i + k))
                                           /\ none(k) => m(i) = m(i + k)}
<1>0. n \in Nat /\ i \in Nat /\ j \in Nat
      /\ \A k \in 0..n : m(k) \in Seq(Seq(Byte)) /\ Len(m(k)) \in Nat
  <2>1. \A k \in 0..n : m(k) \in Seq(Seq(Byte))
    BY FirstsType
  <2> QED
    BY <2>1, FirstsAre
<1>1. \A k \in 1..n : m(k) = IF s.parts[k].message = <<>> THEN m(k - 1)
                             ELSE Append(m(k - 1), s.parts[k].message)
  BY MessagesGrow
<1> HIDE DEF m
<1>2. 0 \in S
  <2>1. i + 0 = i
    BY <1>0
  <2>2. Begins(m(i), m(i))
    BY <1>0 DEF Begins
  <2> QED
    BY <2>1, <2>2
<1>3. ASSUME NEW k \in S PROVE k + 1 \in S
  <2>1. CASE i + (k + 1) <= n
    <3>1. PICK t \in 1..n : t = i + (k + 1) /\ t - 1 = i + k
      BY <1>0, <2>1
    <3>2. i + k <= n /\ i \in 0..n /\ t - 1 \in 0..n /\ t \in 0..n
      BY <1>0, <2>1, <3>1
    <3>3. Begins(m(i), m(t - 1)) /\ (none(k) => m(i) = m(t - 1))
      BY <3>1, <3>2
    <3>4. none(k + 1) => none(k) /\ s.parts[t].message = <<>>
      <4>1. \A x \in (i + 1)..(i + k) : x \in (i + 1)..(i + (k + 1))
        BY <1>0
      <4>2. t \in (i + 1)..(i + (k + 1))
        BY <1>0, <3>1
      <4> QED
        BY <4>1, <4>2
    <3> HIDE DEF none
    <3>5. m(t) = IF s.parts[t].message = <<>> THEN m(t - 1)
                 ELSE Append(m(t - 1), s.parts[t].message)
      BY <1>1
    <3>6. ASSUME s.parts[t].message # <<>> PROVE Begins(m(i), m(t))
      <4> DEFINE f == m(t - 1)
                 e == s.parts[t].message
      <4>1. f \in Seq(Seq(Byte)) /\ e \in Seq(Byte) /\ m(i) \in Seq(Seq(Byte))
            /\ Len(f) \in Nat /\ Len(m(i)) \in Nat
        BY <1>0, <3>2, PartIs
      <4>2. m(t) = Append(f, e) /\ Begins(m(i), f)
        BY <3>3, <3>5, <3>6
      <4> HIDE DEF f, e
      <4>3. Len(Append(f, e)) = Len(f) + 1 /\ \A x \in 1..Len(f) : Append(f, e)[x] = f[x]
        BY <4>1, AppendProperties
      <4>4. \A x \in 1..Len(m(i)) : x \in 1..Len(f)
        BY <4>1, <4>2 DEF Begins
      <4>5. Len(m(i)) <= Len(f) + 1
        BY <4>1, <4>2 DEF Begins
      <4> QED
        BY <4>2, <4>3, <4>4, <4>5 DEF Begins
    <3>7. Begins(m(i), m(t)) /\ (none(k + 1) => m(i) = m(t))
      BY <3>3, <3>4, <3>5, <3>6
    <3> QED
      BY <3>1, <3>7
  <2>2. CASE ~(i + (k + 1) <= n)
    BY <2>2
  <2> QED
    BY <2>1, <2>2
<1>4. S = Nat
  <2>1. S \in SUBSET Nat
    OBVIOUS
  <2> HIDE DEF S
  <2> QED
    BY <1>2, <1>3, <2>1, SetInduction
<1>5. j - i \in Nat /\ i + (j - i) = j /\ j <= n
  BY <1>0
<1>6. j - i \in S
  <2> HIDE DEF S
  <2> QED
    BY <1>4, <1>5
<1> QED
  BY <1>5, <1>6 DEF m

\* The parts that end within the first bytes are the first parts.
LEMMA LastCame ==
    ASSUME NEW s \in Stream, NEW c \in Nat
    PROVE  \E m \in 0..Len(s.parts) :
             /\ EndOf[s][m] <= c /\ Came(s, c) = Firsts[s][m].messages
             /\ \A i \in 0..Len(s.parts) : EndOf[s][i] <= c => i <= m
<1> DEFINE n == Len(s.parts)
           S == {i \in 0..n : EndOf[s][i] <= c}
           T == {b \in 0..n : \A i \in S : i <= b}
<1>0. n \in Nat /\ 0 \in S /\ S \subseteq 0..n
  <2>1. n \in Nat
    BY FirstsAre
  <2> QED
    BY <2>1, EndsAre
<1>1. PICK m \in T : \A b \in T : m <= b
  <2>1. n \in T
    BY <1>0
  <2>2. T \in SUBSET Nat /\ T # {}
    BY <1>0, <2>1
  <2> HIDE DEF T
  <2> QED
    BY <2>2, LeastOf
<1>2. m \in S
  <2> SUFFICES ASSUME m \notin S PROVE FALSE
    OBVIOUS
  <2> HIDE DEF S
  <2>1. m \in Nat /\ m <= n /\ \A i \in S : i \in Nat /\ i <= m /\ i # m
    BY <1>0, <1>1
  <2>2. m # 0 /\ \A i \in S : i <= m - 1
    BY <1>0, <2>1
  <2>3. m - 1 \in T /\ ~(m <= m - 1)
    BY <1>0, <2>1, <2>2
  <2> QED
    BY <1>1, <2>3
<1>3. \A i \in S : m >= i
  <2> HIDE DEF S
  <2>1. \A i \in S : i <= m /\ i \in Nat /\ m \in Nat
    BY <1>0, <1>1
  <2> QED
    BY <2>1
<1>4. Max(S) = m
  <2> HIDE DEF S
  <2>1. S \subseteq Nat
    BY <1>0
  <2>2. \A x \in S : (\A y \in S : x >= y) => x = m
    BY <1>2, <1>3, <2>1
  <2> QED
    BY <1>2, <1>3, <2>2 DEF Max
<1>5. Came(s, c) = Firsts[s][m].messages
  BY <1>4 DEF Came
<1>6. \A i \in 0..n : EndOf[s][i] <= c => i <= m
  <2>1. \A i \in S : i <= m
    BY <1>1
  <2> QED
    BY <2>1
<1> QED
  BY <1>2, <1>5, <1>6

\* When no part that has come since has a message, nothing is missing.
LEMMA CameIs ==
    ASSUME NEW s \in Stream, NEW c \in Nat, NEW k \in 0..Len(s.parts), EndOf[s][k] <= c
    PROVE  /\ IsPrefix(Firsts[s][k].messages, Came(s, c))
           /\ (\A i \in 1..Len(s.parts) : k < i /\ EndOf[s][i] <= c =>
                 s.parts[i].message = <<>>) => Came(s, c) = Firsts[s][k].messages
<1> DEFINE n == Len(s.parts)
<1>0. n \in Nat /\ \A i \in 0..n : EndOf[s][i] \in Nat
  BY FirstsAre, EndsAre
<1>1. PICK m \in 0..n : /\ EndOf[s][m] <= c /\ Came(s, c) = Firsts[s][m].messages
                        /\ \A i \in 0..n : EndOf[s][i] <= c => i <= m
  BY LastCame
<1>2. k <= m
  <2>1. k \in 0..n
    OBVIOUS
  <2> QED
    BY <1>1, <2>1, Zenon
<1>3. /\ Begins(Firsts[s][k].messages, Firsts[s][m].messages)
      /\ (\A x \in (k + 1)..m : s.parts[x].message = <<>>) =>
           Firsts[s][k].messages = Firsts[s][m].messages
  BY <1>2, MessagesBetween
<1>4. IsPrefix(Firsts[s][k].messages, Firsts[s][m].messages)
  <2> DEFINE a == Firsts[s][k].messages
             b == Firsts[s][m].messages
  <2>1. a \in Seq(Seq(Byte)) /\ b \in Seq(Seq(Byte)) /\ Len(a) \in Nat /\ Len(b) \in Nat
    <3>1. a \in Seq(Seq(Byte)) /\ b \in Seq(Seq(Byte))
      BY FirstsType
    <3> HIDE DEF a, b
    <3> QED
      BY <3>1
  <2>2. Len(a) <= Len(b) /\ \A x \in 1..Len(a) : a[x] = b[x]
    BY <1>3 DEF Begins
  <2> HIDE DEF a, b
  <2>3. SubSeq(a, 1, Len(a)) = SubSeq(b, 1, Len(a))
    <3>1. /\ SubSeq(a, 1, Len(a)) \in Seq(Seq(Byte))
          /\ Len(SubSeq(a, 1, Len(a))) = Len(a)
          /\ \A x \in 1..Len(a) : SubSeq(a, 1, Len(a))[x] = a[x]
      BY <2>1, SubSeqFull
    <3>2. \A x \in 1..Len(a) : b[x] \in Seq(Byte)
      BY <2>1, <2>2
    <3>3. /\ SubSeq(b, 1, Len(a)) \in Seq(Seq(Byte))
          /\ Len(SubSeq(b, 1, Len(a))) = Len(a)
          /\ \A x \in 1..Len(a) : SubSeq(b, 1, Len(a))[x] = b[x]
      <4>1. /\ SubSeq(b, 1, Len(a)) \in Seq(Seq(Byte))
            /\ Len(SubSeq(b, 1, Len(a))) = IF 1 <= Len(a) THEN Len(a) - 1 + 1 ELSE 0
            /\ \A x \in 1..(Len(a) - 1 + 1) : SubSeq(b, 1, Len(a))[x] = b[1 + x - 1]
        BY <2>1, <2>2, PieceIs
      <4>2. Len(a) - 1 + 1 = Len(a) /\ (~(1 <= Len(a)) => Len(a) = 0)
            /\ \A x \in 1..Len(a) : 1 + x - 1 = x
        BY <2>1
      <4> QED
        BY <4>1, <4>2
    <3>4. \A x \in 1..Len(a) : SubSeq(a, 1, Len(a))[x] = SubSeq(b, 1, Len(a))[x]
      BY <2>2, <3>1, <3>3
    <3> QED
      BY <3>1, <3>3, <3>4, SeqEqual
  <2> QED
    BY <2>2, <2>3 DEF IsPrefix, a, b
<1>5. ASSUME \A i \in 1..n : k < i /\ EndOf[s][i] <= c => s.parts[i].message = <<>>
      PROVE  Firsts[s][k].messages = Firsts[s][m].messages
  <2>1. ASSUME NEW x \in (k + 1)..m PROVE s.parts[x].message = <<>>
    <3>1. x \in 1..n /\ x \in 0..n /\ k < x /\ x <= m
      BY <1>0
    <3>2. EndOf[s][x] <= EndOf[s][m]
      BY <3>1, InOrder
    <3>3. EndOf[s][x] <= c
      BY <1>0, <1>1, <3>1, <3>2
    <3> QED
      BY <1>5, <3>1, <3>3
  <2> QED
    BY <1>3, <2>1
<1> QED
  BY <1>1, <1>4, <1>5

-----------------------------------------------------------------------------
(* What packets, frames and the rest look like *)

LEMMA PacketIs ==
    ASSUME NEW s \in Stream, s.reader = "client", NEW i \in 1..Len(s.parts), IsMarked(s, i),
           NEW b, b = s.parts[i].bytes
    PROVE  /\ b \in Seq(Byte) /\ Len(b) \in Nat /\ Len(b) >= 5
           /\ b[1] = HEAD /\ b[2] + 256 * b[3] = Len(b) - 5
           /\ s.parts[i].message =
                IF Len(b) = 5 \/ b[6] = Broken THEN <<>> ELSE SubSeq(b, 6, Len(b))
<1> DEFINE json == SubSeq(b, 6, Len(b))
<1>1. b \in Seq(Byte) /\ Len(b) \in Nat
  BY PartIs
<1>2. json \in Seq(Byte) /\ Len(json) \in Nat
  BY <1>1, PieceIs
<1>3. s.parts[i] = Packet(json) /\ Len(json) < 256 * 256
  BY DEF IsMarked, IsPacket, Prefix
<1>4. /\ b = <<HEAD, Len(json) % 256, Len(json) \div 256, 0, 0>> \o json
      /\ s.parts[i].message = IF json # <<>> /\ Head(json) # Broken THEN json ELSE <<>>
  <2>1. /\ Packet(json).bytes = <<HEAD, Len(json) % 256, Len(json) \div 256, 0, 0>> \o json
        /\ Packet(json).message = IF json # <<>> /\ Head(json) # Broken THEN json ELSE <<>>
    BY DEF Packet
  <2> HIDE DEF json
  <2> QED
    BY <1>3, <2>1
<1>5. /\ Len(b) = 5 + Len(json) /\ b[1] = HEAD
      /\ b[2] = Len(json) % 256 /\ b[3] = Len(json) \div 256
      /\ \A x \in 1..Len(json) : b[5 + x] = json[x]
  <2> DEFINE top == <<HEAD, Len(json) % 256, Len(json) \div 256, 0, 0>>
  <2> HIDE DEF json
  <2>1. top \in Seq(Byte) /\ json \in Seq(Byte) /\ Len(json) \in Nat
    <3>1. \A x \in Nat : x < 256 * 256 => x % 256 \in 0..255 /\ x \div 256 \in 0..255
      OBVIOUS
    <3>2. Len(json) % 256 \in 0..255 /\ Len(json) \div 256 \in 0..255
      BY <1>2, <1>3, <3>1
    <3>4. Len(json) % 256 \in Byte /\ Len(json) \div 256 \in Byte
      BY <3>2 DEF Byte
    <3>3. HEAD \in Byte /\ 0 \in Byte
      BY DEF HEAD, Byte
    <3> QED
      BY <1>2, <3>3, <3>4
  <2>2. Len(top) = 5 /\ top[1] = HEAD /\ top[2] = Len(json) % 256
        /\ top[3] = Len(json) \div 256
    OBVIOUS
  <2> HIDE DEF top
  <2>3. /\ Len(top \o json) = 5 + Len(json)
        /\ \A x \in 1..5 : (top \o json)[x] = top[x]
        /\ \A x \in 1..Len(json) : (top \o json)[5 + x] = json[x]
    <3>1. ASSUME NEW f \in Seq(Byte), NEW g \in Seq(Byte)
          PROVE  /\ Len(f \o g) = Len(f) + Len(g)
                 /\ \A x \in 1..Len(f) : (f \o g)[x] = f[x]
                 /\ \A x \in 1..Len(g) : (f \o g)[Len(f) + x] = g[x]
      OBVIOUS
    <3>2. /\ Len(top \o json) = Len(top) + Len(json)
          /\ \A x \in 1..Len(top) : (top \o json)[x] = top[x]
          /\ \A x \in 1..Len(json) : (top \o json)[Len(top) + x] = json[x]
      BY <2>1, <3>1
    <3> QED
      BY <2>2, <3>2
  <2>4. PICK v : v = top \o json
    OBVIOUS
  <2>5. /\ Len(v) = 5 + Len(json) /\ \A x \in 1..Len(json) : v[5 + x] = json[x]
        /\ v[1] = top[1] /\ v[2] = top[2] /\ v[3] = top[3]
    BY <2>3, <2>4
  <2>6. /\ Len(v) = 5 + Len(json) /\ \A x \in 1..Len(json) : v[5 + x] = json[x]
        /\ v[1] = HEAD /\ v[2] = Len(json) % 256 /\ v[3] = Len(json) \div 256
    BY <2>2, <2>5
  <2>7. b = v
    BY <1>4, <2>4 DEF top
  <2> QED
    BY <2>6, <2>7, Zenon
<1>6. b[2] + 256 * b[3] = Len(json)
  <2> HIDE DEF json
  <2>1. \A x \in Nat : (x % 256) + 256 * (x \div 256) = x
    OBVIOUS
  <2> QED
    BY <1>2, <1>5, <2>1
<1>7. Len(json) = 0 => json = <<>>
  <2> HIDE DEF json
  <2>1. \A j \in Seq(Byte) : Len(j) = 0 => j = <<>>
    OBVIOUS
  <2> QED
    BY <1>2, <2>1
<1>8. Len(json) # 0 => json # <<>> /\ Head(json) = b[6]
  <2> HIDE DEF json
  <2>1. Len(json) # 0 => json # <<>> /\ Head(json) = json[1] /\ 1 \in 1..Len(json)
    BY <1>2
  <2> QED
    BY <1>5, <2>1
<1> QED
  <2> HIDE DEF json
  <2>1. Len(b) >= 5 /\ Len(b) - 5 = Len(json) /\ (Len(b) = 5 <=> Len(json) = 0)
    <3>1. \A x, y \in Nat : x = 5 + y => x >= 5 /\ x - 5 = y /\ (x = 5 <=> y = 0)
      OBVIOUS
    <3> QED
      BY <1>1, <1>2, <1>5, <3>1
  <2>2. s.parts[i].message = IF Len(b) = 5 \/ b[6] = Broken THEN <<>> ELSE json
    <3>1. CASE Len(json) = 0
      BY <1>4, <1>7, <2>1, <3>1
    <3>2. CASE Len(json) # 0
      BY <1>4, <1>8, <2>1, <3>2
    <3> QED
      BY <3>1, <3>2
  <2>3. b[2] + 256 * b[3] = Len(b) - 5
    BY <1>6, <2>1
  <2>4. json = SubSeq(b, 6, Len(b))
    BY DEF json
  <2>5. s.parts[i].message = IF Len(b) = 5 \/ b[6] = Broken THEN <<>> ELSE SubSeq(b, 6, Len(b))
    BY <2>2, <2>4, Zenon
  <2> QED
    BY <1>1, <1>5, <2>1, <2>3, <2>5

LEMMA FrameIs ==
    ASSUME NEW s \in Stream, s.reader # "client", NEW i \in 1..Len(s.parts), IsMarked(s, i),
           NEW b, b = s.parts[i].bytes
    PROVE  /\ b \in Seq(Byte) /\ Len(b) \in Nat /\ Len(b) > 2
           /\ s.reader = "forklift" => Len(b) > 12
           /\ b[1] = STAR /\ b[Len(b)] = HASH
           /\ \A x \in 2..(Len(b) - 1) : b[x] # STAR /\ b[x] # HASH
           /\ s.parts[i].message = MessageIn(SubSeq(b, 2, Len(b) - 1), s.reader)
<1> DEFINE d == SubSeq(b, 2, Len(b) - 1)
<1>1. b \in Seq(Byte) /\ Len(b) \in Nat
  BY PartIs
<1>2. d \in Seq(Byte) /\ Len(d) \in Nat
  <2>1. Len(b) - 1 \in Int /\ Len(b) - 1 <= Len(b)
    BY <1>1
  <2> QED
    BY <1>1, <2>1, PieceIs
<1>3. /\ b = <<STAR>> \o d \o <<HASH>> /\ Range(d) \cap {STAR, HASH} = {}
      /\ Len(d) > 0 /\ (s.reader = "forklift" => Len(d) > 10)
      /\ s.parts[i].message = MessageIn(d, s.reader)
  <2>1. IsFrame(s.parts[i], s.reader)
    BY DEF IsMarked
  <2> HIDE DEF d
  <2>2. /\ b = <<STAR>> \o d \o <<HASH>> /\ Range(d) \cap {STAR, HASH} = {}
        /\ Len(d) > IF s.reader = "forklift" THEN 10 ELSE 0
        /\ s.parts[i].message = MessageIn(d, s.reader)
    BY <2>1 DEF IsFrame, d
  <2> QED
    BY <1>2, <2>2
<1> HIDE DEF d
<1>4. /\ Len(b) = Len(d) + 2 /\ b[1] = STAR /\ b[Len(d) + 2] = HASH
      /\ \A x \in 1..Len(d) : b[x + 1] = d[x]
  <2>1. <<STAR>> \in Seq(Byte) /\ <<HASH>> \in Seq(Byte)
    BY DEF STAR, HASH, Byte
  <2> DEFINE e == <<STAR>> \o d
  <2>2. /\ e \in Seq(Byte) /\ Len(e) = Len(d) + 1 /\ e[1] = STAR
        /\ \A x \in 1..Len(d) : e[x + 1] = d[x]
    BY <1>2, <2>1
  <2>3. b = e \o <<HASH>>
    BY <1>3
  <2> HIDE DEF e
  <2>4. /\ Len(b) = Len(e) + 1 /\ b[Len(e) + 1] = HASH
        /\ \A x \in 1..Len(e) : b[x] = e[x]
    BY <2>1, <2>2, <2>3
  <2>5. 1 \in 1..Len(e) /\ Len(e) + 1 = Len(d) + 2
        /\ \A x \in 1..Len(d) : x + 1 \in 1..Len(e)
    BY <1>2, <2>2
  <2> QED
    BY <2>2, <2>4, <2>5
<1>5. ASSUME NEW x \in 2..(Len(b) - 1) PROVE b[x] # STAR /\ b[x] # HASH
  <2>1. x - 1 \in 1..Len(d) /\ (x - 1) + 1 = x
    BY <1>2, <1>4
  <2>2. b[x] = d[x - 1]
    BY <1>4, <2>1
  <2>3. d[x - 1] \in Range(d)
    BY <1>2, <2>1 DEF Range
  <2> QED
    BY <1>3, <2>2, <2>3
<1>6. Len(b) > 2 /\ (s.reader = "forklift" => Len(b) > 12)
  BY <1>2, <1>3, <1>4
<1> QED
  BY <1>1, <1>3, <1>4, <1>5, <1>6 DEF d

\* What is neither a packet nor a frame.
LEMMA JunkIs ==
    ASSUME NEW s \in Stream, NEW i \in 1..Len(s.parts), ~IsMarked(s, i),
           NEW x \in 1..Len(s.parts[i].bytes)
    PROVE  /\ s.reader = "client" => s.parts[i].bytes[x] # HEAD
           /\ s.reader # "client" /\ s.parts[i].bytes[x] = HASH =>
                /\ \A y \in 1..Len(s.parts[i].bytes) : s.parts[i].bytes[y] # STAR
                /\ i = 1 \/ IsMarked(s, i - 1)
<1> DEFINE b == s.parts[i].bytes
<1>1. b \in Seq(Byte) /\ \A y \in 1..Len(b) : b[y] \in Range(b)
  <2>1. b \in Seq(Byte)
    BY PartIs
  <2> QED
    BY <2>1 DEF Range
<1>2. IsJunk(s, i)
  BY NoMessage
<1> QED
  BY <1>1, <1>2 DEF IsJunk, IsMarked

-----------------------------------------------------------------------------
(* The same facts, in operators of which the provers need to know no more *)

Parts(s) == Len(s.parts)
Size(s) == Len(Bytes[s])
Ends(s, i) == EndOf[s][i]
ByteAt(s, p) == Bytes[s][p]
Length(s, i) == Len(s.parts[i].bytes)
PartByte(s, i, x) == s.parts[i].bytes[x]
Says(s, k) == Firsts[s][k].messages
Silent(s, i) == s.parts[i].message = <<>>
IsClient(s) == s.reader = "client"
IsForklift(s) == s.reader = "forklift"

LEMMA EndsAreNumbers ==
    ASSUME NEW s \in Stream
    PROVE  /\ Len(s.parts) \in Nat /\ Len(Bytes[s]) \in Nat
           /\ \A i \in 0..Len(s.parts) : EndOf[s][i] \in Nat
           /\ \A i \in 1..Len(s.parts) :
                /\ i \in 0..Len(s.parts) /\ i - 1 \in 0..Len(s.parts)
                /\ EndOf[s][i] \in Nat /\ EndOf[s][i - 1] \in Nat
                /\ EndOf[s][i - 1] < EndOf[s][i] /\ EndOf[s][i] <= Len(Bytes[s])
                /\ Len(s.parts[i].bytes) = EndOf[s][i] - EndOf[s][i - 1]
<1> DEFINE n == Len(s.parts)
<1>1. n \in Nat /\ EndOf[s][n] = Len(Bytes[s]) /\ \A i \in 0..n : EndOf[s][i] \in Nat
  BY FirstsAre, EndsAre
<1>2. Len(Bytes[s]) \in Nat
  BY <1>1
<1>3. ASSUME NEW i \in 1..n
      PROVE  /\ i \in 0..n /\ i - 1 \in 0..n
             /\ EndOf[s][i] \in Nat /\ EndOf[s][i - 1] \in Nat
             /\ EndOf[s][i - 1] < EndOf[s][i] /\ EndOf[s][i] <= Len(Bytes[s])
             /\ Len(s.parts[i].bytes) = EndOf[s][i] - EndOf[s][i - 1]
  <2>1. i \in 0..n /\ i - 1 \in 0..n /\ n \in 0..n /\ i <= n
    BY <1>1
  <2>2. /\ EndOf[s][i] = EndOf[s][i - 1] + Len(s.parts[i].bytes)
        /\ EndOf[s][i - 1] < EndOf[s][i]
    BY EndsAre
  <2>3. EndOf[s][i] <= EndOf[s][n]
    BY <2>1, InOrder
  <2>4. Len(s.parts[i].bytes) \in Nat /\ EndOf[s][i] \in Nat /\ EndOf[s][i - 1] \in Nat
    BY <1>1, <2>1, PartIs
  <2>5. \A x, y, z \in Nat : x = y + z => z = x - y
    OBVIOUS
  <2>6. Len(s.parts[i].bytes) = EndOf[s][i] - EndOf[s][i - 1]
    BY <2>2, <2>4, <2>5
  <2> QED
    BY <1>1, <2>1, <2>2, <2>3, <2>4, <2>6
<1> QED
  BY <1>1, <1>2, <1>3

LEMMA NumbersAre ==
    ASSUME NEW s \in Stream
    PROVE  /\ Parts(s) \in Nat /\ Size(s) \in Nat
           /\ \A i \in 0..Parts(s) : Ends(s, i) \in Nat
           /\ \A i \in 1..Parts(s) :
                /\ i \in 0..Parts(s) /\ i - 1 \in 0..Parts(s)
                /\ Ends(s, i) \in Nat /\ Ends(s, i - 1) \in Nat
                /\ Ends(s, i - 1) < Ends(s, i) /\ Ends(s, i) <= Size(s)
                /\ Length(s, i) = Ends(s, i) - Ends(s, i - 1)
BY EndsAreNumbers, Zenon DEF Parts, Size, Ends, Length

LEMMA Ordered ==
    ASSUME NEW s \in Stream, NEW i \in 0..Parts(s), NEW j \in 0..Parts(s)
    PROVE  /\ i <= j <=> Ends(s, i) <= Ends(s, j)
           /\ i < j <=> Ends(s, i) < Ends(s, j)
BY InOrder DEF Parts, Ends

LEMMA OwnerIs ==
    ASSUME NEW s \in Stream, NEW q \in Nat, q < Size(s)
    PROVE  \E j \in 1..Parts(s) : Ends(s, j - 1) <= q /\ q < Ends(s, j)
BY PartOf DEF Parts, Ends, Size

LEMMA ByteOf ==
    ASSUME NEW s \in Stream, NEW i \in 1..Parts(s), NEW x \in 1..Length(s, i)
    PROVE  /\ ByteAt(s, Ends(s, i - 1) + x) = PartByte(s, i, x)
           /\ Ends(s, i - 1) + x \in 1..Size(s)
BY BytesAre DEF Parts, Ends, Length, ByteAt, PartByte, Size

LEMMA SaysSame ==
    ASSUME NEW s \in Stream, NEW i \in 0..Parts(s), NEW j \in 0..Parts(s), i <= j,
           \A x \in (i + 1)..j : Silent(s, x)
    PROVE  Says(s, i) = Says(s, j)
BY MessagesBetween DEF Parts, Silent, Says

LEMMA SilentIs ==
    ASSUME NEW s \in Stream, NEW i \in 1..Parts(s), ~IsMarked(s, i)
    PROVE  Silent(s, i)
BY NoMessage DEF Silent, Parts

LEMMA LastEnded ==
    ASSUME NEW s \in Stream, NEW c \in Nat
    PROVE  \E m \in 0..Parts(s) :
             Ends(s, m) <= c /\ \A i \in 0..Parts(s) : Ends(s, i) <= c => i <= m
<1>1. \E m \in 0..Len(s.parts) :
        /\ EndOf[s][m] <= c /\ Came(s, c) = Firsts[s][m].messages
        /\ \A i \in 0..Len(s.parts) : EndOf[s][i] <= c => i <= m
  BY LastCame
<1> QED
  BY <1>1, Zenon DEF Parts, Ends

LEMMA SaysAll ==
    ASSUME NEW s \in Stream, NEW c \in Nat, NEW k \in 0..Parts(s), Ends(s, k) <= c
    PROVE  /\ IsPrefix(Says(s, k), Came(s, c))
           /\ (\A i \in 1..Parts(s) : k < i /\ Ends(s, i) <= c => ~IsMarked(s, i))
                => Says(s, k) = Came(s, c)
<1>1. /\ IsPrefix(Firsts[s][k].messages, Came(s, c))
      /\ (\A i \in 1..Len(s.parts) : k < i /\ EndOf[s][i] <= c =>
             s.parts[i].message = <<>>) => Came(s, c) = Firsts[s][k].messages
  BY CameIs DEF Parts, Ends
<1>2. \A i \in 1..Parts(s) : ~IsMarked(s, i) => Silent(s, i)
  BY SilentIs
<1> QED
  BY <1>1, <1>2, Zenon DEF Parts, Ends, Says, Silent

\* Packets, frames and the rest.
LEMMA PacketHas ==
    ASSUME NEW s \in Stream, IsClient(s), NEW i \in 1..Parts(s), IsMarked(s, i)
    PROVE  /\ Length(s, i) \in Nat /\ Length(s, i) >= 5 /\ PartByte(s, i, 1) = HEAD
           /\ PartByte(s, i, 2) + 256 * PartByte(s, i, 3) = Length(s, i) - 5
<1> DEFINE b == s.parts[i].bytes
<1>1. /\ Len(b) \in Nat /\ Len(b) >= 5
      /\ b[1] = HEAD /\ b[2] + 256 * b[3] = Len(b) - 5
  <2>1. s.reader = "client" /\ i \in 1..Len(s.parts)
    BY DEF IsClient, Parts
  <2>2. PICK v : v = b
    OBVIOUS
  <2>3. /\ Len(v) \in Nat /\ Len(v) >= 5
        /\ v[1] = HEAD /\ v[2] + 256 * v[3] = Len(v) - 5
    <3>1. v = s.parts[i].bytes
      BY <2>2
    <3> HIDE DEF b
    <3> QED
      BY <2>1, <3>1, PacketIs, SMTT(40)
  <2> QED
    BY <2>2, <2>3, Zenon
<1> QED
  BY <1>1, Zenon DEF Length, PartByte

LEMMA FrameHas ==
    ASSUME NEW s \in Stream, ~IsClient(s), NEW i \in 1..Parts(s), IsMarked(s, i)
    PROVE  /\ Length(s, i) \in Nat /\ Length(s, i) > 2
           /\ IsForklift(s) => Length(s, i) > 12
           /\ PartByte(s, i, 1) = STAR /\ PartByte(s, i, Length(s, i)) = HASH
           /\ \A x \in 2..(Length(s, i) - 1) :
                 PartByte(s, i, x) # STAR /\ PartByte(s, i, x) # HASH
<1> DEFINE b == s.parts[i].bytes
<1>1. /\ Len(b) \in Nat /\ Len(b) > 2 /\ (s.reader = "forklift" => Len(b) > 12)
      /\ b[1] = STAR /\ b[Len(b)] = HASH
      /\ \A x \in 2..(Len(b) - 1) : b[x] # STAR /\ b[x] # HASH
  <2>1. s.reader # "client" /\ i \in 1..Len(s.parts)
    BY DEF IsClient, Parts
  <2>2. PICK v : v = b
    OBVIOUS
  <2>3. /\ Len(v) \in Nat /\ Len(v) > 2 /\ (s.reader = "forklift" => Len(v) > 12)
        /\ v[1] = STAR /\ v[Len(v)] = HASH
        /\ \A x \in 2..(Len(v) - 1) : v[x] # STAR /\ v[x] # HASH
    BY <2>1, <2>2, FrameIs
  <2> QED
    BY <2>2, <2>3, Zenon
<1> QED
  BY <1>1, Zenon DEF Length, PartByte, IsForklift

\* A # is in it.
HasHash(s, i) == \E x \in 1..Length(s, i) : PartByte(s, i, x) = HASH

LEMMA JunkHas ==
    ASSUME NEW s \in Stream, NEW i \in 1..Parts(s), ~IsMarked(s, i)
    PROVE  /\ IsClient(s) => \A x \in 1..Length(s, i) : PartByte(s, i, x) # HEAD
           /\ ~IsClient(s) /\ HasHash(s, i) =>
                /\ \A x \in 1..Length(s, i) : PartByte(s, i, x) # STAR
                /\ i = 1 \/ IsMarked(s, i - 1)
<1>1. i \in 1..Len(s.parts)
  BY DEF Parts
<1>2. ASSUME NEW x \in 1..Len(s.parts[i].bytes)
      PROVE  /\ s.reader = "client" => s.parts[i].bytes[x] # HEAD
             /\ s.reader # "client" /\ s.parts[i].bytes[x] = HASH =>
                  /\ \A y \in 1..Len(s.parts[i].bytes) : s.parts[i].bytes[y] # STAR
                  /\ i = 1 \/ IsMarked(s, i - 1)
  BY <1>1, JunkIs
<1> QED
  BY <1>2, Zenon DEF HasHash, Length, PartByte, IsClient

-----------------------------------------------------------------------------
(* Where a reader stands in the stream *)

\* What a reader looks for: the first byte of a packet or frame.
Mark(s) == IF IsClient(s) THEN HEAD ELSE STAR

\* The reader has gone through k parts and c bytes: what it has yet to read
\* has the rest of the parts, and all of the packets and frames among them.
Stands(s, k, c) ==
    /\ k \in 0..Parts(s) /\ Ends(s, k) <= c
    /\ \A i \in 1..Parts(s) :
         k < i => c < Ends(s, i) /\ (IsMarked(s, i) => c <= Ends(s, i - 1))

\* This byte is not among those after c up to q.
Without(s, b, c, q) == \A x \in (c + 1)..q : ByteAt(s, x) # b

\* Between two parts.
LEMMA StandsAtEnd ==
    ASSUME NEW s \in Stream, NEW k \in 0..Parts(s)
    PROVE  Stands(s, k, Ends(s, k))
<1>1. ASSUME NEW i \in 1..Parts(s), k < i
      PROVE  Ends(s, k) < Ends(s, i) /\ Ends(s, k) <= Ends(s, i - 1)
  <2>1. i \in 0..Parts(s) /\ i - 1 \in 0..Parts(s) /\ k <= i - 1
    BY <1>1, NumbersAre
  <2> QED
    BY <1>1, <2>1, Ordered
<1>2. Ends(s, k) \in Nat
  BY NumbersAre
<1> QED
  BY <1>1, <1>2 DEF Stands

\* Each packet and each frame begins with the mark; a frame ends with #.
LEMMA MarkIs ==
    ASSUME NEW s \in Stream, NEW i \in 1..Parts(s), IsMarked(s, i)
    PROVE  /\ Ends(s, i - 1) + 1 \in 1..Size(s)
           /\ ByteAt(s, Ends(s, i - 1) + 1) = Mark(s)
           /\ ~IsClient(s) => ByteAt(s, Ends(s, i)) = HASH
<1>1. /\ Length(s, i) \in Nat \ {0} /\ PartByte(s, i, 1) = Mark(s)
      /\ ~IsClient(s) => PartByte(s, i, Length(s, i)) = HASH
  BY PacketHas, FrameHas DEF Mark
<1>2. 1 \in 1..Length(s, i) /\ Length(s, i) \in 1..Length(s, i)
  BY <1>1
<1>3. Ends(s, i - 1) + Length(s, i) = Ends(s, i)
  BY NumbersAre
<1> QED
  BY <1>1, <1>2, <1>3, ByteOf

\* Where there is no mark, no packet and no frame is passed.
LEMMA Passing ==
    ASSUME NEW s \in Stream, NEW k, NEW c \in Nat, Stands(s, k, c),
           NEW q \in Nat, c <= q, q <= Size(s),
           Without(s, Mark(s), c, q)
    PROVE  \E m \in 0..Parts(s) :
             /\ k <= m /\ Stands(s, m, q)
             /\ Says(s, m) = Says(s, k)
<1> DEFINE n == Parts(s)
<1>0. n \in Nat /\ k \in 0..n /\ Ends(s, k) <= c /\ Ends(s, k) \in Nat
  BY NumbersAre DEF Stands
<1>1. PICK m \in 0..n : Ends(s, m) <= q /\ \A i \in 0..n : Ends(s, i) <= q => i <= m
  BY LastEnded
<1>2. k <= m
  BY <1>0, <1>1
<1>3. ASSUME NEW i \in 1..n, k < i, IsMarked(s, i) PROVE q <= Ends(s, i - 1)
  <2>1. c <= Ends(s, i - 1) /\ Ends(s, i - 1) \in Nat
    BY <1>3, NumbersAre DEF Stands
  <2>2. ByteAt(s, Ends(s, i - 1) + 1) = Mark(s)
    BY <1>3, MarkIs
  <2>3. ~(Ends(s, i - 1) + 1 \in (c + 1)..q)
    BY <2>2 DEF Without
  <2>4. \A e, x, y \in Nat : x <= e /\ ~(e + 1 \in (x + 1)..y) => y <= e
    OBVIOUS
  <2> QED
    BY <2>1, <2>3, <2>4
<1>4. Stands(s, m, q)
  <2>1. ASSUME NEW i \in 1..n, m < i PROVE q < Ends(s, i)
    <3>1. i \in 0..n /\ ~(i <= m) /\ Ends(s, i) \in Nat
      BY <1>0, <2>1, NumbersAre
    <3> QED
      BY <1>1, <3>1
  <2>2. ASSUME NEW i \in 1..n, m < i, IsMarked(s, i) PROVE q <= Ends(s, i - 1)
    <3>1. k < i
      BY <1>0, <1>2, <2>2
    <3> QED
      BY <1>3, <2>2, <3>1
  <2> QED
    BY <1>1, <2>1, <2>2 DEF Stands
<1>5. ASSUME NEW x \in (k + 1)..m PROVE Silent(s, x)
  <2>1. x \in 1..n /\ x \in 0..n /\ k < x /\ x <= m
    BY <1>0
  <2>2. Ends(s, x) <= Ends(s, m) /\ Ends(s, m) \in Nat
    BY <2>1, Ordered, NumbersAre
  <2>3. Ends(s, x - 1) < Ends(s, x) /\ Ends(s, x) \in Nat /\ Ends(s, x - 1) \in Nat
    BY <2>1, NumbersAre
  <2>6. \A e, f, g, r \in Nat : e < f /\ f <= g /\ g <= r => ~(r <= e)
    OBVIOUS
  <2>4. ~(q <= Ends(s, x - 1))
    BY <1>1, <2>2, <2>3, <2>6
  <2>5. ~IsMarked(s, x)
    BY <1>3, <2>1, <2>4
  <2> QED
    BY <2>1, <2>5, SilentIs
<1>6. Says(s, k) = Says(s, m)
  BY <1>0, <1>2, <1>5, SaysSame
<1> QED
  BY <1>2, <1>4, <1>6

\* A head is the beginning of a packet.
LEMMA AtHead ==
    ASSUME NEW s \in Stream, IsClient(s), NEW m, NEW q \in Nat, Stands(s, m, q),
           q < Size(s), ByteAt(s, q + 1) = HEAD
    PROVE  Ends(s, m) = q /\ m + 1 \in 1..Parts(s) /\ IsMarked(s, m + 1)
<1> DEFINE n == Parts(s)
<1>0. n \in Nat /\ m \in 0..n /\ Ends(s, m) <= q /\ Ends(s, m) \in Nat
  BY NumbersAre DEF Stands
<1>1. PICK j \in 1..n : Ends(s, j - 1) <= q /\ q < Ends(s, j)
  BY OwnerIs
<1>2. /\ j \in 0..n /\ j - 1 \in 0..n /\ Ends(s, j) \in Nat /\ Ends(s, j - 1) \in Nat
      /\ Length(s, j) = Ends(s, j) - Ends(s, j - 1)
  BY NumbersAre
<1>3. m < j
  <2>2. \A e, f, r \in Nat : e <= r /\ r < f => e < f
    OBVIOUS
  <2>1. Ends(s, m) < Ends(s, j)
    BY <1>0, <1>1, <1>2, <2>2
  <2> QED
    BY <1>0, <1>2, <2>1, Ordered
<1>4. PICK x \in 1..Length(s, j) : Ends(s, j - 1) + x = q + 1
  <2>1. \A e, f, r \in Nat : e <= r /\ r < f => r + 1 - e \in 1..(f - e) /\ e + (r + 1 - e) = r + 1
    OBVIOUS
  <2> QED
    BY <1>1, <1>2, <2>1
<1>5. PartByte(s, j, x) = HEAD
  BY <1>4, ByteOf
<1>6. IsMarked(s, j)
  BY <1>5, JunkHas
<1>7. Ends(s, j - 1) = q
  <2>1. q <= Ends(s, j - 1)
    BY <1>3, <1>6 DEF Stands
  <2>2. \A e, r \in Nat : e <= r /\ r <= e => e = r
    OBVIOUS
  <2> QED
    BY <1>1, <1>2, <2>1, <2>2
<1>8. j = m + 1
  <2> SUFFICES ASSUME m < j - 1 PROVE FALSE
    BY <1>0, <1>2, <1>3
  <2>1. j - 1 \in 1..n
    BY <1>0, <1>2
  <2>2. q < Ends(s, j - 1)
    BY <2>1 DEF Stands
  <2> QED
    BY <1>7, <2>2
<1>9. Ends(s, m) = q
  <2>1. m = j - 1
    BY <1>0, <1>2, <1>8
  <2> QED
    BY <1>7, <2>1
<1> QED
  BY <1>6, <1>8, <1>9

\* Where is the part with this byte?
LEMMA ByteIs ==
    ASSUME NEW s \in Stream, NEW p \in 1..Size(s)
    PROVE  \E j \in 1..Parts(s), x \in Nat \ {0} :
             /\ Ends(s, j - 1) < p /\ p <= Ends(s, j)
             /\ Ends(s, j - 1) + x = p /\ x \in 1..Length(s, j)
             /\ PartByte(s, j, x) = ByteAt(s, p)
<1>1. p - 1 \in Nat /\ p - 1 < Size(s) /\ p \in Nat
  BY NumbersAre
<1>2. PICK j \in 1..Parts(s) : Ends(s, j - 1) <= p - 1 /\ p - 1 < Ends(s, j)
  BY <1>1, OwnerIs
<1>3. /\ Ends(s, j) \in Nat /\ Ends(s, j - 1) \in Nat
      /\ Length(s, j) = Ends(s, j) - Ends(s, j - 1)
  BY NumbersAre
<1> DEFINE x == p - Ends(s, j - 1)
<1>5. /\ Ends(s, j - 1) < p /\ p <= Ends(s, j) /\ x \in Nat \ {0}
      /\ Ends(s, j - 1) + x = p /\ x \in 1..Length(s, j)
  <2>1. PICK e \in Nat, f \in Nat : e = Ends(s, j - 1) /\ f = Ends(s, j)
    BY <1>3
  <2>2. /\ e < p /\ p <= f /\ p - e \in Nat \ {0} /\ p - e \in 1..(f - e)
        /\ e + (p - e) = p
    <3>1. e <= p - 1 /\ p - 1 < f
      BY <1>2, <2>1
    <3> QED
      BY <1>1, <3>1
  <2>3. f - e = Length(s, j)
    BY <1>3, <2>1
  <2> QED
    BY <2>1, <2>2, <2>3
<1> HIDE DEF x
<1>6. PartByte(s, j, x) = ByteAt(s, p)
  BY <1>5, ByteOf
<1> QED
  BY <1>5, <1>6

\* A frame that was not begun ends only beyond the next #.
LEMMA EndsWithHash ==
    ASSUME NEW s \in Stream, ~IsClient(s), NEW k, NEW c \in Nat, Stands(s, k, c),
           NEW i \in 1..Parts(s), k < i, IsMarked(s, i)
    PROVE  /\ Ends(s, i) \in 1..Size(s) /\ c < Ends(s, i)
           /\ ByteAt(s, Ends(s, i)) = HASH
<1>1. Ends(s, i) \in Nat /\ Ends(s, i) <= Size(s) /\ Size(s) \in Nat
  BY NumbersAre
<1>2. c < Ends(s, i)
  BY DEF Stands
<1>3. \A d, e, f \in Nat : d < e /\ e <= f => e \in 1..f
  OBVIOUS
<1>4. Ends(s, i) \in 1..Size(s)
  BY <1>1, <1>2, <1>3
<1> QED
  BY <1>2, <1>4, MarkIs

\* From the first * to the first #, when it comes after it, is a frame, and none
\* was before it.
FirstFrame(s, k, c, a, h) ==
    /\ Stands(s, k, c) /\ c < a /\ a < h /\ h <= Size(s)
    /\ ByteAt(s, a) = STAR /\ Without(s, STAR, c, a - 1)
    /\ ByteAt(s, h) = HASH /\ Without(s, HASH, c, h - 1)

LEMMA FrameFound ==
    ASSUME NEW s \in Stream, ~IsClient(s), NEW k, NEW c \in Nat, NEW a \in Nat,
           NEW h \in Nat, FirstFrame(s, k, c, a, h)
    PROVE  \E j \in 1..Parts(s) :
             /\ k < j /\ IsMarked(s, j) /\ Ends(s, j) = h /\ a <= Ends(s, j - 1) + 1
             /\ Says(s, j - 1) = Says(s, k)
<1> SUFFICES ASSUME Stands(s, k, c), c < a, a < h, h <= Size(s),
                    ByteAt(s, a) = STAR, Without(s, STAR, c, a - 1),
                    ByteAt(s, h) = HASH, Without(s, HASH, c, h - 1)
             PROVE  \E j \in 1..Parts(s) :
                      /\ k < j /\ IsMarked(s, j) /\ Ends(s, j) = h
                      /\ a <= Ends(s, j - 1) + 1
                      /\ Says(s, j - 1) = Says(s, k)
  BY DEF FirstFrame
<1> DEFINE n == Parts(s)
<1>0. /\ n \in Nat /\ k \in 0..n /\ Ends(s, k) <= c /\ Ends(s, k) \in Nat
      /\ Size(s) \in Nat
  BY NumbersAre DEF Stands
<1>a. a \in 1..Size(s) /\ h \in 1..Size(s)
  <2>1. \A d, e, f, g \in Nat : d < e /\ e < f /\ f <= g => e \in 1..g /\ f \in 1..g
    OBVIOUS
  <2> QED
    BY <1>0, <2>1
<1>b. \A u, v \in 0..n : Ends(s, u) < Ends(s, v) => u < v
  BY Ordered
<1>1. PICK j \in 1..n, x \in Nat \ {0} :
        /\ Ends(s, j - 1) < h /\ h <= Ends(s, j)
        /\ Ends(s, j - 1) + x = h /\ x \in 1..Length(s, j)
        /\ PartByte(s, j, x) = HASH
  <2>1. \E j \in 1..n, x \in Nat \ {0} :
          /\ Ends(s, j - 1) < h /\ h <= Ends(s, j)
          /\ Ends(s, j - 1) + x = h /\ x \in 1..Length(s, j)
          /\ PartByte(s, j, x) = ByteAt(s, h)
    BY <1>a, ByteIs
  <2> QED
    BY <2>1, Zenon
<1>2. /\ j \in 0..n /\ j - 1 \in 0..n /\ Ends(s, j) \in Nat /\ Ends(s, j - 1) \in Nat
      /\ Length(s, j) = Ends(s, j) - Ends(s, j - 1)
  BY NumbersAre
<1>3. k < j
  <2>1. \A e, d, f, g \in Nat : e <= d /\ d < f /\ f < g => e < g
    OBVIOUS
  <2>2. Ends(s, k) < h
    BY <1>0, <2>1
  <2>3. \A e, d, f \in Nat : e < d /\ d <= f => e < f
    OBVIOUS
  <2>4. Ends(s, k) < Ends(s, j)
    BY <1>0, <1>1, <1>2, <2>2, <2>3
  <2> QED
    BY <1>0, <1>2, <2>4, Ordered
\* An earlier frame would have had a # before this one.
<1>4. ASSUME NEW i \in 1..n, k < i, IsMarked(s, i), Ends(s, i) < h PROVE FALSE
  <2>1. c < Ends(s, i) /\ Ends(s, i) \in Nat /\ ByteAt(s, Ends(s, i)) = HASH
    BY <1>4, EndsWithHash
  <2>2. Ends(s, i) \in (c + 1)..(h - 1)
    BY <1>4, <2>1
  <2> QED
    BY <2>1, <2>2 DEF Without
<1>5. IsMarked(s, j)
  <2> SUFFICES ASSUME ~IsMarked(s, j) PROVE FALSE
    OBVIOUS
  <2>1. /\ \A y \in 1..Length(s, j) : PartByte(s, j, y) # STAR
        /\ j = 1 \/ IsMarked(s, j - 1)
    <3>1. HasHash(s, j)
      BY <1>1 DEF HasHash
    <3> QED
      BY <3>1, JunkHas
  <2>2. PICK i \in 1..n, y \in Nat \ {0} :
          /\ Ends(s, i - 1) < a /\ a <= Ends(s, i)
          /\ Ends(s, i - 1) + y = a /\ y \in 1..Length(s, i)
          /\ PartByte(s, i, y) = STAR
    <3>1. \E i \in 1..n, y \in Nat \ {0} :
            /\ Ends(s, i - 1) < a /\ a <= Ends(s, i)
            /\ Ends(s, i - 1) + y = a /\ y \in 1..Length(s, i)
            /\ PartByte(s, i, y) = ByteAt(s, a)
      BY <1>a, ByteIs
    <3> QED
      BY <3>1, Zenon
  <2>3. /\ i \in 0..n /\ i - 1 \in 0..n /\ Ends(s, i) \in Nat /\ Ends(s, i - 1) \in Nat
    BY NumbersAre
  <2>4. i # j
    BY <2>1, <2>2
  <2>5. i - 1 < j
    <3>1. \A e, d, f, g \in Nat : e < d /\ d < f /\ f <= g => e < g
      OBVIOUS
    <3>2. Ends(s, i - 1) < Ends(s, j)
      BY <1>1, <1>2, <2>2, <2>3, <3>1
    <3> QED
      BY <1>2, <1>b, <2>3, <3>2
  <2>6. i <= j - 1 /\ j # 1 /\ j - 1 \in 1..n
    BY <1>0, <2>4, <2>5
  <2>7. Ends(s, i) <= Ends(s, j - 1)
    BY <1>2, <2>3, <2>6, Ordered
  <2>8. c < Ends(s, j - 1)
    <3>1. \A e, d, f, g \in Nat : e < d /\ d <= f /\ f <= g => e < g
      OBVIOUS
    <3> QED
      BY <1>2, <2>2, <2>3, <2>7, <3>1
  <2>9. k < j - 1
    <3>1. \A e, d, f \in Nat : e <= d /\ d < f => e < f
      OBVIOUS
    <3>2. Ends(s, k) < Ends(s, j - 1)
      BY <1>0, <1>2, <2>8, <3>1
    <3> QED
      BY <1>0, <1>2, <3>2, Ordered
  <2> QED
    BY <1>1, <1>4, <2>1, <2>6, <2>9
<1>6. Ends(s, j) = h
  <2>1. ~(Ends(s, j) > h)
    <3> SUFFICES ASSUME Ends(s, j) > h PROVE FALSE
      OBVIOUS
    <3>1. /\ PartByte(s, j, 1) = STAR
          /\ \A y \in 2..(Length(s, j) - 1) : PartByte(s, j, y) # HASH
      BY <1>5, FrameHas
    <3>2. x # 1
      BY <1>1, <3>1 DEF STAR, HASH
    <3>3. x \in 2..(Length(s, j) - 1)
      BY <1>1, <1>2, <3>2
    <3> QED
      BY <1>1, <3>1, <3>3
  <2>2. \A e, f \in Nat : e <= f /\ ~(f > e) => f = e
    OBVIOUS
  <2> QED
    BY <1>1, <1>2, <2>1, <2>2
<1>7. a <= Ends(s, j - 1) + 1
  <2>1. c <= Ends(s, j - 1) /\ ByteAt(s, Ends(s, j - 1) + 1) = STAR
    BY <1>3, <1>5, MarkIs DEF Stands, Mark
  <2>2. ~(Ends(s, j - 1) + 1 \in (c + 1)..(a - 1))
    BY <2>1 DEF Without
  <2>3. \A d, e, f \in Nat : d <= e /\ ~(e + 1 \in (d + 1)..(f - 1)) => f <= e + 1
    OBVIOUS
  <2> QED
    BY <1>2, <2>1, <2>2, <2>3
<1>8. ASSUME NEW y \in (k + 1)..(j - 1) PROVE Silent(s, y)
  <2>1. y \in 1..n /\ y \in 0..n /\ k < y /\ y <= j - 1
    BY <1>0, <1>2
  <2>2. Ends(s, y) <= Ends(s, j - 1) /\ Ends(s, y) \in Nat
    BY <1>2, <2>1, Ordered, NumbersAre
  <2>3. \A d, e, f \in Nat : d <= e /\ e < f => d < f
    OBVIOUS
  <2>4. Ends(s, y) < h
    BY <1>1, <1>2, <2>2, <2>3
  <2>5. ~IsMarked(s, y)
    BY <1>4, <2>1, <2>4
  <2> QED
    BY <2>1, <2>5, SilentIs
<1>9. Says(s, k) = Says(s, j - 1)
  <2>1. k <= j - 1
    BY <1>0, <1>2, <1>3
  <2> QED
    BY <1>0, <1>2, <1>8, <2>1, SaysSame
<1> QED
  BY <1>3, <1>5, <1>6, <1>7, <1>9

LEMMA MarkedHasHash ==
    ASSUME NEW s \in Stream, ~IsClient(s), NEW i \in 1..Parts(s), IsMarked(s, i)
    PROVE  HasHash(s, i)
<1>1. Length(s, i) \in 1..Length(s, i) /\ PartByte(s, i, Length(s, i)) = HASH
  BY FrameHas
<1> QED
  BY <1>1 DEF HasHash

LEMMA Differ == STAR # HASH
BY DEF STAR, HASH

LEMMA Offset ==
    ASSUME NEW d \in Nat, NEW e \in Nat, NEW g \in Nat, d < g, g <= e
    PROVE  g - d \in 1..(e - d) /\ d + (g - d) = g
OBVIOUS

LEMMA OffsetBack ==
    ASSUME NEW d \in Nat, NEW e \in Nat, NEW y \in 1..(e - d)
    PROVE  d + y \in Nat /\ d < d + y /\ d + y <= e
OBVIOUS

\* Of the parts that have ended, at most one has a #.
OneHash(s, k, f) ==
    \A i, j \in 1..Parts(s) :
        /\ k < i /\ Ends(s, i) <= f /\ HasHash(s, i)
        /\ k < j /\ Ends(s, j) <= f /\ HasHash(s, j)
        => i = j
HashUpTo(s, c, a, f) == \E h \in (c + 1)..(a + 1) : h <= f /\ ByteAt(s, h) = HASH

\* When a # comes before the first *, only the part with it has one so far.
LEMMA HashBeforeStar ==
    ASSUME NEW s \in Stream, ~IsClient(s), NEW k, NEW c \in Nat, Stands(s, k, c),
           NEW a \in Nat, c < a, NEW f \in Nat, a <= f, f <= Size(s),
           NEW m, Stands(s, m, a - 1), k <= m,
           ByteAt(s, a) = STAR, Without(s, STAR, c, a - 1),
           Without(s, HASH, c, f) \/ HashUpTo(s, c, a, f), OneHash(s, k, f),
           NEW i \in 1..Parts(s), m < i, Ends(s, i) <= f, HasHash(s, i)
    PROVE  FALSE
<1> DEFINE n == Parts(s)
<1>0. /\ n \in Nat /\ k \in 0..n /\ Ends(s, k) <= c /\ Ends(s, k) \in Nat
      /\ Size(s) \in Nat
  BY NumbersAre DEF Stands
<1>a. /\ i \in 0..n /\ i - 1 \in 0..n /\ Ends(s, i) \in Nat /\ Ends(s, i - 1) \in Nat
      /\ Length(s, i) = Ends(s, i) - Ends(s, i - 1)
  BY NumbersAre
<1>b. m \in 0..n /\ k < i /\ a - 1 < Ends(s, i)
      /\ (IsMarked(s, i) => a - 1 <= Ends(s, i - 1))
  <2>1. m \in 0..n /\ a - 1 < Ends(s, i) /\ (IsMarked(s, i) => a - 1 <= Ends(s, i - 1))
    BY DEF Stands
  <2>2. k < i
    BY <1>0, <1>a, <2>1
  <2> QED
    BY <2>1, <2>2
<1>c. a \in 1..Size(s)
  BY <1>0
\* A part that is no frame does not have both.
<1>1. ASSUME NEW j \in 1..n, ~IsMarked(s, j), HasHash(s, j),
             Ends(s, j - 1) < a, a <= Ends(s, j)
      PROVE  FALSE
  <2>1. \A y \in 1..Length(s, j) : PartByte(s, j, y) # STAR
    BY <1>1, JunkHas DEF HasHash
  <2>2. /\ Ends(s, j) \in Nat /\ Ends(s, j - 1) \in Nat
        /\ Length(s, j) = Ends(s, j) - Ends(s, j - 1)
    BY NumbersAre
  <2>4. a - Ends(s, j - 1) \in 1..Length(s, j)
        /\ Ends(s, j - 1) + (a - Ends(s, j - 1)) = a
    BY <1>1, <2>2, Offset
  <2>5. ByteAt(s, a) = PartByte(s, j, a - Ends(s, j - 1))
    BY <2>4, ByteOf
  <2> QED
    BY <2>1, <2>4, <2>5
<1>2. PICK x \in 1..Length(s, i) : PartByte(s, i, x) = HASH
  BY DEF HasHash
<1>3. PICK p \in Nat : /\ p = Ends(s, i - 1) + x /\ ByteAt(s, p) = HASH
                       /\ Ends(s, i - 1) < p /\ p <= Ends(s, i)
  <2>1. ByteAt(s, Ends(s, i - 1) + x) = HASH
    BY <1>2, ByteOf
  <2>2. /\ Ends(s, i - 1) + x \in Nat /\ Ends(s, i - 1) < Ends(s, i - 1) + x
        /\ Ends(s, i - 1) + x <= Ends(s, i)
    BY <1>a, OffsetBack
  <2> QED
    BY <2>1, <2>2
<1>d. p \in Nat /\ (~(p < a) => p >= a)
  <2>1. \A y, z \in Nat : ~(y < z) => y >= z
    OBVIOUS
  <2>2. p \in Nat
    BY <1>3
  <2> QED
    BY <2>1, <2>2
<1>4. p >= a
  <2> SUFFICES ASSUME p < a PROVE FALSE
    BY <1>d
  <2>1. \A d, e \in Nat : d < e /\ e < a => d < a /\ ~(a - 1 <= d)
    OBVIOUS
  <2>2. Ends(s, i - 1) < a /\ ~(a - 1 <= Ends(s, i - 1))
    BY <1>3, <1>a, <2>1
  <2>3. \A e \in Nat : a - 1 < e => a <= e
    OBVIOUS
  <2>4. a <= Ends(s, i)
    BY <1>a, <1>b, <2>3
  <2> QED
    BY <1>1, <1>b, <2>2, <2>4
<1>5. p # a
  BY <1>3, Differ
<1>6. p \in (c + 1)..f
  <2>1. \A d \in Nat : p <= d /\ d <= f => p <= f
    OBVIOUS
  <2>2. p <= f
    BY <1>3, <1>a, <2>1
  <2>3. \A v, w, y, z \in Nat : v < w /\ y >= w /\ y <= z => y \in (v + 1)..z
    OBVIOUS
  <2> QED
    BY <1>d, <1>4, <2>2, <2>3
<1>7. PICK h \in (c + 1)..(a + 1) : h <= f /\ ByteAt(s, h) = HASH
  <2>1. ~Without(s, HASH, c, f)
    BY <1>3, <1>6 DEF Without
  <2>2. HashUpTo(s, c, a, f)
    BY <2>1
  <2> QED
    BY <2>2 DEF HashUpTo
\* It comes before the *, or right after it.
<1>8. ASSUME NEW g \in (c + 1)..(a - 1), ByteAt(s, g) = HASH PROVE FALSE
  <2>a. \A v, w, z \in Nat : \A y \in (v + 1)..(w - 1) :
          w <= z => y \in 1..z /\ y < w /\ y \in Nat /\ v < y
    OBVIOUS
  <2>b. a <= Size(s)
    BY <1>0, <1>c
  <2>1. g \in 1..Size(s) /\ g < a /\ g \in Nat /\ c < g
    BY <1>0, <2>a, <2>b
  <2>2. \E j \in 1..n, y \in Nat \ {0} :
          /\ Ends(s, j - 1) < g /\ g <= Ends(s, j)
          /\ Ends(s, j - 1) + y = g /\ y \in 1..Length(s, j)
          /\ PartByte(s, j, y) = ByteAt(s, g)
    BY <2>1, ByteIs
  <2>3. PICK j \in 1..n : Ends(s, j - 1) < g /\ g <= Ends(s, j) /\ HasHash(s, j)
    BY <1>8, <2>2, Zenon DEF HasHash
  <2>4. /\ j \in 0..n /\ j - 1 \in 0..n /\ Ends(s, j) \in Nat /\ Ends(s, j - 1) \in Nat
    BY NumbersAre
  <2>5. k < j
    <3>3. \A d, e, v, w \in Nat : d <= v /\ v < w /\ w <= e => d < e
      OBVIOUS
    <3>1. \A d, e \in Nat : d <= c /\ g <= e => d < e
      BY <2>1, <3>3
    <3>2. Ends(s, k) < Ends(s, j)
      BY <1>0, <2>3, <2>4, <3>1
    <3> QED
      BY <1>0, <2>4, <3>2, Ordered
  <2>6. ~IsMarked(s, j)
    <3> SUFFICES ASSUME IsMarked(s, j) PROVE FALSE
      OBVIOUS
    <3>1. c <= Ends(s, j - 1) /\ ByteAt(s, Ends(s, j - 1) + 1) = STAR
      BY <2>5, MarkIs DEF Stands, Mark
    <3>4. \A d, v, w, y \in Nat : v <= d /\ d < w /\ w < y => d + 1 \in (v + 1)..(y - 1)
      OBVIOUS
    <3>2. \A d \in Nat : c <= d /\ d < g => d + 1 \in (c + 1)..(a - 1)
      BY <2>1, <3>4
    <3>3. Ends(s, j - 1) + 1 \in (c + 1)..(a - 1)
      BY <2>3, <2>4, <3>1, <3>2
    <3> QED
      BY <3>1, <3>3 DEF Without
  <2>7. Ends(s, j - 1) < a
    <3>1. \A d \in Nat : d < g => d < a
      BY <2>1
    <3> QED
      BY <2>3, <2>4, <3>1
  <2>8. ~(a <= Ends(s, j))
    BY <1>1, <2>3, <2>6, <2>7
  <2>9. Ends(s, j) <= f
    <3>1. \A d \in Nat : ~(a <= d) => d <= f
      OBVIOUS
    <3> QED
      BY <2>4, <2>8, <3>1
  <2>10. i = j
    BY <1>b, <2>3, <2>5, <2>9 DEF OneHash
  <2>11. \A d \in Nat : a - 1 < d => a <= d
    OBVIOUS
  <2> QED
    BY <1>a, <1>b, <2>8, <2>10, <2>11
<1>9. h = a + 1
  <2>1. h # a
    BY <1>7, Differ
  <2>2. h \notin (c + 1)..(a - 1)
    BY <1>7, <1>8
  <2> QED
    BY <2>1, <2>2
<1>10. PICK j \in 1..n : /\ IsMarked(s, j) /\ Ends(s, j) = a + 1
                         /\ a <= Ends(s, j - 1) + 1
  <2>1. \A y \in (c + 1)..((a + 1) - 1) : ByteAt(s, y) # HASH
    <3>1. \A y \in (c + 1)..((a + 1) - 1) : y \in (c + 1)..(a - 1) \/ y = a
      OBVIOUS
    <3> QED
      BY <1>8, <3>1, Differ
  <2>2. a + 1 \in Nat /\ a < a + 1 /\ a + 1 <= Size(s) /\ ByteAt(s, a + 1) = HASH
    BY <1>0, <1>7, <1>9
  <2>3. PICK w \in Nat : w = a + 1
    OBVIOUS
  <2>5. /\ a < w /\ w <= Size(s) /\ ByteAt(s, w) = HASH
        /\ Without(s, HASH, c, w - 1)
    BY <2>1, <2>2, <2>3 DEF Without
  <2>7. FirstFrame(s, k, c, a, w)
    BY <2>5 DEF FirstFrame
  <2>6. \E j \in 1..Parts(s) :
          /\ k < j /\ IsMarked(s, j) /\ Ends(s, j) = w /\ a <= Ends(s, j - 1) + 1
          /\ Says(s, j - 1) = Says(s, k)
    BY <2>3, <2>7, FrameFound
  <2> QED
    BY <2>3, <2>6
<1>11. /\ Length(s, j) = Ends(s, j) - Ends(s, j - 1)
       /\ Ends(s, j - 1) \in Nat /\ Length(s, j) > 2
  <2>1. Length(s, j) > 2
    BY <1>10, FrameHas
  <2> QED
    BY <2>1, NumbersAre
<1>12. \A d \in Nat : a <= d + 1 => ~((a + 1) - d > 2)
  OBVIOUS
<1> QED
  BY <1>10, <1>11, <1>12

-----------------------------------------------------------------------------
(* The buffer *)

\* The buffer holds the bytes of the stream after c up to f.
Holds(s, f, b, c) ==
    /\ f \in 0..Size(s) /\ c \in Nat /\ b \in Seq(Byte) /\ c + Len(b) = f
    /\ \A x \in 1..Len(b) : b[x] = ByteAt(s, c + x)

LEMMA Cut ==
    ASSUME NEW s \in Stream, NEW f, NEW b, NEW c, Holds(s, f, b, c), NEW r \in 0..Len(b)
    PROVE  /\ Holds(s, f, RemoveFront(b, r), c + r)
           /\ Len(RemoveFront(b, r)) = Len(b) - r
           /\ \A x \in 1..(Len(b) - r) : RemoveFront(b, r)[x] = b[r + x]
<1>1. /\ b \in Seq(Byte) /\ Len(b) \in Nat /\ f \in 0..Size(s) /\ c \in Nat /\ c + Len(b) = f
      /\ \A x \in 1..Len(b) : b[x] = ByteAt(s, c + x)
  BY DEF Holds
<1>2. RemoveFront(b, r) = SubSeq(b, r + 1, Len(b))
  BY <1>1 DEF RemoveFront
<1>3. r + 1 \in Nat \ {0} /\ Len(b) \in Int /\ Len(b) <= Len(b)
  BY <1>1
<1>4. /\ SubSeq(b, r + 1, Len(b)) \in Seq(Byte)
      /\ Len(SubSeq(b, r + 1, Len(b))) = Len(b) - r
      /\ \A x \in 1..(Len(b) - r) : SubSeq(b, r + 1, Len(b))[x] = b[r + x]
  <2>1. /\ SubSeq(b, r + 1, Len(b)) \in Seq(Byte)
        /\ Len(SubSeq(b, r + 1, Len(b))) =
             IF r + 1 <= Len(b) THEN Len(b) - (r + 1) + 1 ELSE 0
        /\ \A x \in 1..(Len(b) - (r + 1) + 1) :
             SubSeq(b, r + 1, Len(b))[x] = b[r + 1 + x - 1]
    BY <1>1, <1>3, PieceIs
  <2>2. /\ (IF r + 1 <= Len(b) THEN Len(b) - (r + 1) + 1 ELSE 0) = Len(b) - r
        /\ Len(b) - (r + 1) + 1 = Len(b) - r
        /\ \A x \in 1..(Len(b) - r) : r + 1 + x - 1 = r + x
    BY <1>1
  <2> QED
    BY <2>1, <2>2
<1>5. /\ c + r \in Nat /\ c + r + (Len(b) - r) = f
      /\ \A x \in 1..(Len(b) - r) : r + x \in 1..Len(b) /\ c + r + x = c + (r + x)
  <2>1. r \in 0..Len(b) /\ Len(b) \in Nat /\ c \in Nat /\ c + Len(b) = f
    BY <1>1
  <2>2. ASSUME NEW n \in Nat, NEW d \in Nat, NEW y \in 0..n
        PROVE  /\ d + y \in Nat /\ d + y + (n - y) = d + n
               /\ \A x \in 1..(n - y) : y + x \in 1..n /\ d + y + x = d + (y + x)
    OBVIOUS
  <2> QED
    BY <2>1, <2>2
<1>6. \A x \in 1..(Len(b) - r) : b[r + x] = ByteAt(s, c + r + x)
  BY <1>1, <1>5
<1> QED
  BY <1>1, <1>2, <1>4, <1>5, <1>6 DEF Holds

LEMMA FindIs ==
    ASSUME NEW key, buffer \in Seq(Byte)
    PROVE  \/ Find(key) = -1 /\ \A x \in 1..Len(buffer) : buffer[x] # key
           \/ /\ Find(key) \in Nat /\ Find(key) < Len(buffer) /\ buffer[Find(key) + 1] = key
              /\ \A x \in 1..Find(key) : buffer[x] # key
<1> DEFINE hits == {i \in DOMAIN buffer : buffer[i] = key}
<1>1. DOMAIN buffer = 1..Len(buffer) /\ Len(buffer) \in Nat
  OBVIOUS
<1>2. Find(key) = IF hits = {} THEN -1 ELSE Min(hits) - 1
  BY DEF Find
<1>3. CASE hits = {}
  <2>1. \A x \in 1..Len(buffer) : buffer[x] = key => x \in hits
    BY <1>1
  <2>2. Find(key) = -1
    BY <1>2, <1>3
  <2>3. \A x \in 1..Len(buffer) : buffer[x] # key
    BY <1>3, <2>1, Zenon
  <2> QED
    BY <2>2, <2>3
<1>4. CASE hits # {}
  <2>0. hits \in SUBSET Nat
    BY <1>1
  <2>1. PICK m \in hits : \A n \in hits : m <= n
    <3> HIDE DEF hits
    <3> QED
      BY <1>4, <2>0, LeastOf
  <2>2. Min(hits) = m
    <3>1. \A x \in hits : x \in Nat
      BY <1>1
    <3>2. \A x \in hits : (\A n \in hits : x <= n) => x = m
      BY <2>1, <3>1
    <3> QED
      BY <2>1, <3>2 DEF Min
  <2>3. m \in 1..Len(buffer) /\ buffer[m] = key
    BY <1>1
  <2>4. Find(key) = m - 1
    BY <1>2, <1>4, <2>2
  <2>5. m - 1 \in Nat /\ m - 1 < Len(buffer) /\ m - 1 + 1 = m
    BY <1>1, <2>3
  <2>6. ASSUME NEW x \in 1..(m - 1), buffer[x] = key
        PROVE  FALSE
    <3>1. x \in 1..Len(buffer) /\ ~(m <= x)
      BY <1>1, <2>3, <2>6
    <3> QED
      BY <1>1, <2>1, <2>6, <3>1
  <2> QED
    BY <2>3, <2>4, <2>5, <2>6
<1> QED
  BY <1>3, <1>4

\* Where it is in the stream.
LEMMA Found ==
    ASSUME NEW s \in Stream, NEW f, NEW c, Holds(s, f, buffer, c), NEW key
    PROVE  \/ Find(key) = -1 /\ Without(s, key, c, f)
           \/ /\ Find(key) \in 0..Len(buffer) /\ Find(key) \in Nat
              /\ c + Find(key) \in Nat /\ c <= c + Find(key) /\ c + Find(key) < f
              /\ ByteAt(s, c + Find(key) + 1) = key
              /\ Without(s, key, c, c + Find(key))
<1>1. /\ buffer \in Seq(Byte) /\ Len(buffer) \in Nat
      /\ f \in Int /\ c \in Nat /\ c + Len(buffer) = f
      /\ \A x \in 1..Len(buffer) : buffer[x] = ByteAt(s, c + x)
  BY DEF Holds
<1>2. ASSUME NEW n \in Nat, n <= Len(buffer), \A x \in 1..n : buffer[x] # key
      PROVE  Without(s, key, c, c + n)
  <2>1. ASSUME NEW y \in (c + 1)..(c + n)
        PROVE  ByteAt(s, y) # key
    <3>1. /\ y - c \in 1..n /\ y - c \in 1..Len(buffer) /\ c + (y - c) = y
      BY <1>1, <1>2
    <3> QED
      BY <1>1, <1>2, <3>1
  <2> QED
    BY <2>1 DEF Without
<1>3. CASE Find(key) = -1 /\ \A x \in 1..Len(buffer) : buffer[x] # key
  <2>1. Without(s, key, c, c + Len(buffer))
    BY <1>1, <1>2, <1>3
  <2> QED
    BY <1>1, <1>3, <2>1
<1>4. CASE /\ Find(key) \in Nat /\ Find(key) < Len(buffer) /\ buffer[Find(key) + 1] = key
           /\ \A x \in 1..Find(key) : buffer[x] # key
  <2>0. Find(key) <= Len(buffer)
    BY <1>1, <1>4
  <2>1. Without(s, key, c, c + Find(key))
    BY <1>2, <1>4, <2>0, Zenon
  <2>2. \A n \in Nat : n < Len(buffer) =>
          /\ n + 1 \in 1..Len(buffer) /\ c + (n + 1) = c + n + 1 /\ n \in 0..Len(buffer)
          /\ c + n \in Nat /\ c <= c + n /\ c + n < f
    BY <1>1
  <2>3. ByteAt(s, c + Find(key) + 1) = key
    BY <1>1, <1>4, <2>2
  <2> QED
    BY <1>4, <2>1, <2>2, <2>3
<1> QED
  BY <1>1, <1>3, <1>4, FindIs

-----------------------------------------------------------------------------
(* Packets in the buffer *)

\* A piece of a sequence that begins as another one does.
LEMMA SamePiece ==
    ASSUME NEW a \in Seq(Byte), NEW b \in Seq(Byte), NEW d \in Nat,
           NEW m \in Nat \ {0}, NEW n \in Nat, n <= Len(a), d + n <= Len(b),
           \A x \in m..n : b[d + x] = a[x]
    PROVE  SubSeq(b, d + m, d + n) = SubSeq(a, m, n)
<1>1. /\ SubSeq(a, m, n) \in Seq(Byte)
      /\ Len(SubSeq(a, m, n)) = IF m <= n THEN n - m + 1 ELSE 0
      /\ \A i \in 1..(n - m + 1) : SubSeq(a, m, n)[i] = a[m + i - 1]
  <2>1. n \in Int
    OBVIOUS
  <2> QED
    BY <2>1, PieceIs
<1>2. /\ SubSeq(b, d + m, d + n) \in Seq(Byte)
      /\ Len(SubSeq(b, d + m, d + n)) = IF d + m <= d + n THEN d + n - (d + m) + 1 ELSE 0
      /\ \A i \in 1..(d + n - (d + m) + 1) :
           SubSeq(b, d + m, d + n)[i] = b[d + m + i - 1]
  <2>1. d + m \in Nat \ {0} /\ d + n \in Int
    OBVIOUS
  <2> QED
    BY <2>1, PieceIs
<1>3. /\ (IF d + m <= d + n THEN d + n - (d + m) + 1 ELSE 0) = IF m <= n THEN n - m + 1 ELSE 0
      /\ d + n - (d + m) + 1 = n - m + 1
      /\ \A i \in 1..(n - m + 1) : m + i - 1 \in m..n /\ d + m + i - 1 = d + (m + i - 1)
  OBVIOUS
<1> DEFINE u == SubSeq(a, m, n)
           v == SubSeq(b, d + m, d + n)
<1>4. \A i \in 1..(n - m + 1) : v[i] = u[i]
  BY <1>1, <1>2, <1>3
<1>5. Len(u) = Len(v) /\ u \in Seq(Byte) /\ v \in Seq(Byte)
  BY <1>1, <1>2, <1>3
<1>6. \A i \in 1..Len(u) : i \in 1..(n - m + 1)
  BY <1>1
<1> HIDE DEF u, v
<1>7. \A i \in 1..Len(u) : v[i] = u[i]
  BY <1>4, <1>6
<1>8. u = v
  BY <1>5, <1>7, SeqEqual
<1> QED
  BY <1>8 DEF u, v

\* A head in the buffer begins the next packet of the stream.
LEMMA PacketFound ==
    ASSUME NEW s \in Stream, IsClient(s), NEW k, NEW f, NEW c,
           Holds(s, f, buffer, c), Stands(s, k, c), Find(HEAD) >= 0
    PROVE  \E m \in 0..Parts(s) :
             /\ Says(s, m) = Says(s, k) /\ m + 1 \in 1..Parts(s) /\ IsMarked(s, m + 1)
             /\ Holds(s, f, Trimmed, Ends(s, m))
             /\ Trimmed # <<>> /\ Trimmed[1] = HEAD
             /\ GetInt32(Trimmed, 1) =
                  IF Len(Trimmed) < 5 THEN -1 ELSE Length(s, m + 1) - 5
<1>0. Find(HEAD) # -1
  OBVIOUS
<1>1. PICK r \in Nat : r = Find(HEAD)
  BY <1>0, Found
<1>2. /\ r \in 0..Len(buffer) /\ c + r \in Nat /\ c <= c + r /\ c + r < f
      /\ ByteAt(s, c + r + 1) = HEAD /\ Without(s, HEAD, c, c + r)
  BY <1>0, <1>1, Found
<1>3. /\ f \in 0..Size(s) /\ c \in Nat /\ Size(s) \in Nat
      /\ Len(buffer) \in Nat /\ c + Len(buffer) = f
  BY NumbersAre DEF Holds
<1>4. c + r <= Size(s) /\ c + r < Size(s)
  BY <1>2, <1>3
<1>5. PICK m \in 0..Parts(s) : Stands(s, m, c + r) /\ Says(s, m) = Says(s, k)
  BY <1>2, <1>3, <1>4, Passing DEF Mark
<1>6. Ends(s, m) = c + r /\ m + 1 \in 1..Parts(s) /\ IsMarked(s, m + 1)
  BY <1>2, <1>4, <1>5, AtHead
<1>7. Holds(s, f, Trimmed, c + r) /\ Len(Trimmed) = Len(buffer) - r
  BY <1>1, <1>2, Cut DEF Trimmed
<1>8. PICK t \in Seq(Byte), e \in Nat : t = Trimmed /\ e = c + r
  BY <1>2, <1>7 DEF Holds
<1>9. /\ t \in Seq(Byte) /\ Len(t) \in Nat /\ Len(t) > 0
      /\ \A x \in 1..Len(t) : t[x] = ByteAt(s, e + x)
  <2>1. t \in Seq(Byte) /\ \A x \in 1..Len(t) : t[x] = ByteAt(s, e + x)
    BY <1>7, <1>8 DEF Holds
  <2>2. Len(t) = Len(buffer) - r /\ Len(buffer) - r > 0
    BY <1>2, <1>3, <1>7, <1>8
  <2> QED
    BY <2>1, <2>2
<1>10. PICK i \in 1..Parts(s) : i = m + 1
  BY <1>6
<1>11. /\ Length(s, i) \in Nat /\ Length(s, i) >= 5
       /\ PartByte(s, i, 2) + 256 * PartByte(s, i, 3) = Length(s, i) - 5
  BY <1>6, <1>10, PacketHas
<1>12. i - 1 = m /\ Ends(s, i - 1) = e
  BY <1>6, <1>8, <1>10
<1>13. t[1] = HEAD /\ t # <<>>
  <2>1. 1 \in 1..Len(t)
    BY <1>9
  <2>2. t[1] = ByteAt(s, e + 1)
    BY <1>9, <2>1
  <2> QED
    BY <1>2, <1>8, <1>9, <2>2
<1>14. GetInt32(t, 1) = IF Len(t) < 5 THEN -1 ELSE Length(s, i) - 5
  <2>1. CASE Len(t) < 5
    BY <1>9, <2>1 DEF GetInt32
  <2>2. CASE Len(t) >= 5
    <3>1. 2 \in 1..Length(s, i) /\ 3 \in 1..Length(s, i) /\ 2 \in 1..Len(t) /\ 3 \in 1..Len(t)
      BY <1>9, <1>11, <2>2
    <3>2. t[2] = PartByte(s, i, 2) /\ t[3] = PartByte(s, i, 3)
      BY <1>9, <1>12, <3>1, ByteOf
    <3>3. GetInt32(t, 1) = t[2] + 256 * t[3]
      <4>1. ~(1 + 4 > Len(t)) /\ 1 + 1 = 2 /\ 1 + 2 = 3
        BY <1>9, <2>2
      <4> QED
        BY <4>1 DEF GetInt32
    <3>4. ~(Len(t) < 5)
      BY <1>9, <2>2
    <3> QED
      BY <1>11, <3>2, <3>3, <3>4
  <2> QED
    BY <1>9, <2>1, <2>2
<1> QED
  BY <1>5, <1>6, <1>7, <1>8, <1>10, <1>13, <1>14

\* What packageProcess takes for the request of a packet.
Request(s, i, b, json) == json = SubSeq(b, 6, Length(s, i))

\* The whole of a packet is taken.
LEMMA PacketTaken ==
    ASSUME NEW s \in Stream, IsClient(s), NEW i \in 1..Parts(s), IsMarked(s, i),
           NEW f, NEW b, Holds(s, f, b, Ends(s, i - 1)), Length(s, i) <= Len(b),
           NEW json, Request(s, i, b, json)
    PROVE  /\ Holds(s, f, RemoveFront(b, Length(s, i)), Ends(s, i))
           /\ Stands(s, i, Ends(s, i))
           /\ Says(s, i) = IF Length(s, i) = 5 \/ ~Accepted(json) THEN Says(s, i - 1)
                           ELSE Append(Says(s, i - 1), json)
<1>1. /\ i \in 0..Parts(s) /\ Ends(s, i) \in Nat /\ Ends(s, i - 1) \in Nat
      /\ Length(s, i) = Ends(s, i) - Ends(s, i - 1)
  BY NumbersAre
<1>2. Length(s, i) \in Nat /\ Length(s, i) >= 5
  BY PacketHas
<1>3. /\ b \in Seq(Byte) /\ Len(b) \in Nat
      /\ \A x \in 1..Len(b) : b[x] = ByteAt(s, Ends(s, i - 1) + x)
  BY DEF Holds
<1>4. Length(s, i) \in 0..Len(b) /\ Ends(s, i - 1) + Length(s, i) = Ends(s, i)
  BY <1>1, <1>2, <1>3
<1>5. Holds(s, f, RemoveFront(b, Length(s, i)), Ends(s, i))
  BY <1>4, Cut
<1>6. Stands(s, i, Ends(s, i))
  BY <1>1, StandsAtEnd
<1>7. PICK a \in Seq(Byte), n \in Nat :
        /\ a = s.parts[i].bytes /\ n = Length(s, i) /\ n = Len(a)
        /\ s.parts[i].message =
             IF Len(a) = 5 \/ a[6] = Broken THEN <<>> ELSE SubSeq(a, 6, Len(a))
  <2>1. i \in 1..Len(s.parts) /\ s.reader = "client"
    BY DEF Parts, IsClient
  <2>2. Length(s, i) = Len(s.parts[i].bytes)
    BY DEF Length
  <2>3. PICK a : a = s.parts[i].bytes
    OBVIOUS
  <2>4. /\ a \in Seq(Byte)
        /\ s.parts[i].message =
             IF Len(a) = 5 \/ a[6] = Broken THEN <<>> ELSE SubSeq(a, 6, Len(a))
    BY <2>1, <2>3, PacketIs, SMTT(40)
  <2>5. Length(s, i) = Len(a)
    BY <2>2, <2>3
  <2> QED
    BY <1>2, <2>3, <2>4, <2>5
<1>7a. n \in Nat /\ n >= 5
  BY <1>2, <1>7
<1>8. \A x \in 1..n : b[x] = a[x]
  <2>1. \A x \in 1..n : PartByte(s, i, x) = a[x]
    BY <1>7 DEF PartByte
  <2>2. \A x \in 1..n : x \in 1..Length(s, i) /\ x \in 1..Len(b)
    BY <1>3, <1>4, <1>7
  <2>3. \A x \in 1..n : b[x] = ByteAt(s, Ends(s, i - 1) + x)
    BY <1>3, <2>2
  <2>4. \A x \in 1..n : ByteAt(s, Ends(s, i - 1) + x) = PartByte(s, i, x)
    BY <2>2, ByteOf
  <2> QED
    BY <2>1, <2>3, <2>4
<1>9. json = SubSeq(a, 6, n)
  <2>1. 0 \in Nat /\ 6 \in Nat \ {0} /\ n <= Len(a) /\ 0 + n <= Len(b) /\ 0 + 6 = 6 /\ 0 + n = n
    BY <1>3, <1>4, <1>7
  <2>2. \A x \in 6..n : b[0 + x] = a[x]
    <3>1. \A x \in 6..n : x \in 1..n /\ 0 + x = x
      OBVIOUS
    <3> QED
      BY <1>8, <3>1
  <2>3. SubSeq(b, 0 + 6, 0 + n) = SubSeq(a, 6, n)
    BY <1>3, <2>1, <2>2, SamePiece
  <2> QED
    BY <1>7, <2>1, <2>3 DEF Request
<1>10. CASE n = 5
  <2>1. s.parts[i].message = <<>>
    BY <1>7, <1>10
  <2>2. Says(s, i) = Says(s, i - 1)
    BY <2>1, MessagesGrow DEF Says, Parts
  <2> QED
    BY <1>5, <1>6, <1>7, <1>10, <2>2
<1>11. CASE n # 5
  <2>1. n > 5
    BY <1>7a, <1>11
  <2>2. /\ SubSeq(a, 6, n) \in Seq(Byte) /\ Len(SubSeq(a, 6, n)) > 0
        /\ SubSeq(a, 6, n)[1] = a[6]
    <3>1. /\ SubSeq(a, 6, n) \in Seq(Byte)
          /\ Len(SubSeq(a, 6, n)) = IF 6 <= n THEN n - 6 + 1 ELSE 0
          /\ \A x \in 1..(n - 6 + 1) : SubSeq(a, 6, n)[x] = a[6 + x - 1]
      BY <1>7, PieceIs
    <3>2. 6 <= n /\ n - 6 + 1 > 0 /\ 1 \in 1..(n - 6 + 1) /\ 6 + 1 - 1 = 6
      BY <2>1
    <3> QED
      BY <3>1, <3>2
  <2>3. json # <<>> /\ Head(json) = a[6]
    <3>1. json \in Seq(Byte) /\ Len(json) > 0 /\ json[1] = a[6]
      BY <1>9, <2>2
    <3>2. ASSUME NEW j \in Seq(Byte), Len(j) > 0
          PROVE  j # <<>> /\ Head(j) = j[1]
      BY <3>2
    <3> QED
      BY <3>1, <3>2
  <2>4. s.parts[i].message = IF Accepted(json) THEN json ELSE <<>>
    BY <1>7, <1>9, <1>11, <2>3 DEF Accepted
  <2>5. Says(s, i) = IF Accepted(json) THEN Append(Says(s, i - 1), json) ELSE Says(s, i - 1)
    BY <2>3, <2>4, MessagesGrow DEF Says, Parts
  <2> QED
    BY <1>5, <1>6, <1>7, <1>11, <2>5
<1> QED
  BY <1>10, <1>11

\* Only the first bytes of a packet have come.
OnPacket(s, k, c, f, len) ==
    /\ k + 1 \in 1..Parts(s) /\ IsMarked(s, k + 1) /\ Ends(s, k) = c
    /\ Ends(s, k + 1) = c + len + 5 /\ f < Ends(s, k + 1)

-----------------------------------------------------------------------------
(* Frames in the buffer *)

\* Between a and h, the last * is at g.
LastStarAt(b, a, g, h) ==
    /\ a <= g /\ g < h /\ h <= Len(b) /\ b[g] = STAR
    /\ \A x \in (g + 1)..(h - 1) : b[x] # STAR

LEMMA AfterLastStarIs ==
    ASSUME NEW b \in Seq(Byte), NEW a \in Nat \ {0}, NEW g \in Nat, NEW h \in Nat,
           LastStarAt(b, a, g, h)
    PROVE  AfterLastStar(SubSeq(b, a + 1, h - 1)) = SubSeq(b, g + 1, h - 1)
<1> SUFFICES ASSUME a <= g, g < h, h <= Len(b), b[g] = STAR,
                    \A x \in (g + 1)..(h - 1) : b[x] # STAR
             PROVE  AfterLastStar(SubSeq(b, a + 1, h - 1)) = SubSeq(b, g + 1, h - 1)
  BY DEF LastStarAt
<1> DEFINE u == SubSeq(b, a + 1, h - 1)
           hits == {i \in DOMAIN u : u[i] = STAR}
<1>1. /\ u \in Seq(Byte) /\ Len(u) = h - 1 - a /\ DOMAIN u = 1..(h - 1 - a)
      /\ \A i \in 1..(h - 1 - a) : u[i] = b[a + i]
  <2>1. a + 1 \in Nat \ {0} /\ h - 1 \in Int /\ h - 1 <= Len(b)
    OBVIOUS
  <2>2. /\ u \in Seq(Byte) /\ Len(u) = IF a + 1 <= h - 1 THEN h - 1 - (a + 1) + 1 ELSE 0
        /\ \A i \in 1..(h - 1 - (a + 1) + 1) : u[i] = b[a + 1 + i - 1]
    BY <2>1, PieceIs
  <2>3. /\ (IF a + 1 <= h - 1 THEN h - 1 - (a + 1) + 1 ELSE 0) = h - 1 - a
        /\ h - 1 - (a + 1) + 1 = h - 1 - a
        /\ \A i \in 1..(h - 1 - a) : a + 1 + i - 1 = a + i
    OBVIOUS
  <2> HIDE DEF u
  <2>4. DOMAIN u = 1..Len(u)
    BY <2>2
  <2> QED
    BY <2>2, <2>3, <2>4
<1>2. AfterLastStar(u) = IF hits = {} THEN u ELSE SubSeq(u, Max(hits) + 1, Len(u))
  BY DEF AfterLastStar
<1> HIDE DEF u
<1>3. \A i \in 1..(h - 1 - a) : i \in Nat /\ (a + i > g => a + i \in (g + 1)..(h - 1))
  OBVIOUS
<1>4. \A i \in hits : i \in 1..(h - 1 - a) /\ i \in Nat /\ a + i <= g
  <2>1. \A i \in hits : i \in 1..(h - 1 - a) /\ b[a + i] = STAR
    BY <1>1
  <2> QED
    BY <1>3, <2>1
<1>5. CASE a = g
  <2>1. hits = {}
    <3>1. \A i \in 1..(h - 1 - a) : ~(a + i <= g)
      BY <1>5
    <3> QED
      BY <1>4, <3>1
  <2>2. AfterLastStar(u) = u
    BY <1>2, <2>1
  <2> QED
    BY <1>5, <2>2 DEF u
<1>6. CASE a # g
  <2>1. PICK n \in Nat : n = g - a
    OBVIOUS
  <2>2. n \in 1..(h - 1 - a) /\ a + n = g
    BY <1>6, <2>1
  <2>3. n \in hits
    BY <1>1, <2>2
  <2>4. \A i \in hits : i <= n
    BY <1>4, <2>2
  <2>5. Max(hits) = n
    <3>1. \A x \in hits : (\A i \in hits : x >= i) => x = n
      BY <1>4, <2>3, <2>4
    <3>2. \A i \in hits : n >= i
      BY <1>4, <2>4
    <3> HIDE DEF hits
    <3> QED
      BY <2>3, <3>1, <3>2 DEF Max
  <2>6. AfterLastStar(u) = SubSeq(u, n + 1, Len(u))
    BY <1>2, <2>3, <2>5
  <2>7. PICK l \in Nat : l = Len(u)
    BY <1>1
  <2>8. l = h - 1 - a
    BY <1>1, <2>7
  <2>9. /\ n + 1 \in Nat \ {0} /\ l <= Len(u) /\ a + l <= Len(b)
        /\ a + (n + 1) = g + 1 /\ a + l = h - 1
    BY <2>2, <2>7, <2>8
  <2>10. \A x \in (n + 1)..l : b[a + x] = u[x]
    <3>1. \A x \in (n + 1)..l : x \in 1..(h - 1 - a)
      BY <2>2, <2>8
    <3> QED
      BY <1>1, <3>1
  <2>11. SubSeq(b, a + (n + 1), a + l) = SubSeq(u, n + 1, l)
    BY <1>1, <2>9, <2>10, SamePiece
  <2> QED
    BY <2>6, <2>7, <2>9, <2>11 DEF u
<1> QED
  BY <1>5, <1>6

\* The part is in the buffer, after the first e bytes, and d between its ends.
PartAfter(s, j, b, e, d) ==
    /\ e + Length(s, j) <= Len(b)
    /\ \A x \in 1..Length(s, j) : b[e + x] = PartByte(s, j, x)
    /\ d = SubSeq(b, e + 2, e + Length(s, j) - 1)

\* What has been said when this frame is added.
Added(s, k, d) ==
    IF MessageIn(d, s.reader) = <<>> THEN Says(s, k)
    ELSE Append(Says(s, k), MessageIn(d, s.reader))

\* The message that a frame in the buffer has.
LEMMA FrameSays ==
    ASSUME NEW s \in Stream, ~IsClient(s), NEW j \in 1..Parts(s), IsMarked(s, j),
           NEW b \in Seq(Byte), NEW e \in Nat, NEW d, PartAfter(s, j, b, e, d)
    PROVE  Says(s, j) = Added(s, j - 1, d)
<1> SUFFICES ASSUME e + Length(s, j) <= Len(b),
                    \A x \in 1..Length(s, j) : b[e + x] = PartByte(s, j, x),
                    d = SubSeq(b, e + 2, e + Length(s, j) - 1)
             PROVE  Says(s, j) = Added(s, j - 1, d)
  BY DEF PartAfter
<1>1. Length(s, j) \in Nat /\ Length(s, j) > 2
  BY FrameHas
<1>2. PICK a : a = s.parts[j].bytes
  OBVIOUS
<1>3. /\ a \in Seq(Byte) /\ s.parts[j].message = MessageIn(SubSeq(a, 2, Len(a) - 1), s.reader)
  BY <1>2, FrameIs DEF IsClient, Parts
<1>4. PICK n \in Nat : n = Length(s, j)
  BY <1>1
<1>5. n = Len(a) /\ n > 2 /\ n - 1 \in Nat
  BY <1>1, <1>2, <1>4 DEF Length
<1>6. \A x \in 1..n : b[e + x] = a[x]
  BY <1>2, <1>4 DEF PartByte
<1>7. SubSeq(b, e + 2, e + (n - 1)) = SubSeq(a, 2, n - 1)
  <2>1. 2 \in Nat \ {0} /\ n - 1 <= Len(a) /\ e + (n - 1) <= Len(b)
    BY <1>4, <1>5
  <2>2. \A x \in 2..(n - 1) : b[e + x] = a[x]
    <3>1. \A x \in 2..(n - 1) : x \in 1..n
      BY <1>5
    <3> QED
      BY <1>6, <3>1
  <2> QED
    BY <1>3, <1>5, <2>1, <2>2, SamePiece
<1>8. d = SubSeq(a, 2, Len(a) - 1)
  <2>1. e + n - 1 = e + (n - 1)
    BY <1>5
  <2> QED
    BY <1>4, <1>5, <1>7, <2>1
<1>9. s.parts[j].message = MessageIn(d, s.reader)
  BY <1>3, <1>8
<1> QED
  BY <1>9, MessagesGrow DEF Says, Parts, Added

\* The offsets of a frame in the buffer.
Offsets(c, a1, h1, l, d, n) ==
    h1 < l /\ c + a1 <= d /\ n = c + h1 + 1 - d /\ n > 2
OffsetIs(c, a1, h1, l, d, n, e) ==
    /\ c + e = d /\ a1 <= e /\ e + n = h1 + 1 /\ e + n - 1 = h1 /\ e + n <= l
    /\ a1 + 1 \in Nat \ {0} /\ a1 + 1 <= e + 1 /\ e + 1 < h1 + 1 /\ h1 + 1 <= l
    /\ h1 + 1 - 1 = h1 /\ a1 + 1 + 1 = a1 + 2 /\ e + 1 + 1 = e + 2
    /\ e + 1 \in Nat /\ h1 + 1 \in Nat
    /\ \A x \in 1..n : e + x \in 1..l /\ c + (e + x) = d + x
    /\ \A x \in (e + 1 + 1)..(h1 + 1 - 1) :
         x - e \in 2..(n - 1) /\ x - e \in 1..n /\ e + (x - e) = x

LEMMA FrameOffsets ==
    ASSUME NEW c \in Nat, NEW a1 \in Nat, NEW h1 \in Nat, NEW l \in Nat,
           NEW d \in Nat, NEW n \in Nat, Offsets(c, a1, h1, l, d, n)
    PROVE  \E e \in Nat : OffsetIs(c, a1, h1, l, d, n, e)
<1>1. h1 < l /\ c + a1 <= d /\ n = c + h1 + 1 - d /\ n > 2
  BY DEF Offsets
<1>2. PICK e \in Nat : e = d - c
  BY <1>1
<1> QED
  BY <1>1, <1>2 DEF OffsetIs

\* What is taken from the buffer is the next frame of the stream.
LEMMA FrameTaken ==
    ASSUME NEW s \in Stream, ~IsClient(s), NEW k, NEW f, NEW c,
           Holds(s, f, buffer, c), Stands(s, k, c),
           Find(STAR) >= 0, Find(HASH) > Find(STAR) + 1
    PROVE  \E j \in 1..Parts(s) :
             /\ k < j /\ IsMarked(s, j) /\ Ends(s, j) <= f
             /\ Holds(s, f, RemoveFront(buffer, Find(HASH) + 1), Ends(s, j))
             /\ Stands(s, j, Ends(s, j))
             /\ Says(s, j) = Added(s, k, FrameData) /\ FrameData \in Seq(Byte)
<1>1. PICK a1 \in Nat, h1 \in Nat : a1 = Find(STAR) /\ h1 = Find(HASH)
  <2>1. Find(STAR) \in Nat
    <3>1. Find(STAR) # -1
      OBVIOUS
    <3> QED
      BY <3>1, Found
  <2>2. Find(HASH) \in Nat
    <3>1. Find(HASH) # -1
      BY <2>1
    <3> QED
      BY <3>1, Found
  <2> QED
    BY <2>1, <2>2
<1>2. a1 # -1 /\ h1 # -1 /\ h1 > a1 + 1
  BY <1>1
<1>3. /\ a1 \in 0..Len(buffer) /\ c + a1 < f
      /\ ByteAt(s, c + a1 + 1) = STAR /\ Without(s, STAR, c, c + a1)
  BY <1>1, <1>2, Found
<1>4. /\ h1 \in 0..Len(buffer) /\ c + h1 < f
      /\ ByteAt(s, c + h1 + 1) = HASH /\ Without(s, HASH, c, c + h1)
  BY <1>1, <1>2, Found
<1>5. /\ buffer \in Seq(Byte) /\ Len(buffer) \in Nat /\ Size(s) \in Nat
      /\ f \in Nat /\ f <= Size(s) /\ c \in Nat /\ c + Len(buffer) = f
      /\ \A x \in 1..Len(buffer) : buffer[x] = ByteAt(s, c + x)
  <2>1. Size(s) \in Nat
    BY NumbersAre
  <2>2. /\ f \in 0..Size(s) /\ c \in Nat /\ c + Len(buffer) = f /\ buffer \in Seq(Byte)
        /\ \A x \in 1..Len(buffer) : buffer[x] = ByteAt(s, c + x)
    BY DEF Holds
  <2> QED
    BY <2>1, <2>2
<1>6. PICK a \in Nat, h \in Nat : a = c + a1 + 1 /\ h = c + h1 + 1
  BY <1>5
<1>7. /\ c < a /\ a < h /\ h <= f /\ h <= Size(s) /\ a - 1 = c + a1 /\ h - 1 = c + h1
      /\ h1 + 1 \in 0..Len(buffer) /\ c + (h1 + 1) = h
  BY <1>2, <1>3, <1>4, <1>5, <1>6
<1>8. FirstFrame(s, k, c, a, h)
  BY <1>3, <1>4, <1>6, <1>7 DEF FirstFrame
<1>9. PICK j \in 1..Parts(s) :
        /\ k < j /\ IsMarked(s, j) /\ Ends(s, j) = h /\ a <= Ends(s, j - 1) + 1
        /\ Says(s, j - 1) = Says(s, k)
  <2>1. c \in Nat
    BY <1>5
  <2> QED
    BY <1>6, <1>8, <2>1, FrameFound
<1>10. PICK d \in Nat, n \in Nat : d = Ends(s, j - 1) /\ n = Length(s, j) /\ n = h - d
  BY <1>9, NumbersAre
<1>10a. j \in 0..Parts(s) /\ n > 2 /\ a <= d + 1
  BY <1>9, <1>10, NumbersAre, FrameHas
<1>11. Holds(s, f, RemoveFront(buffer, h1 + 1), Ends(s, j))
  <2>1. Holds(s, f, RemoveFront(buffer, h1 + 1), c + (h1 + 1))
    BY <1>7, Cut
  <2> QED
    BY <1>7, <1>9, <2>1
<1>12. Stands(s, j, Ends(s, j))
  BY <1>10a, StandsAtEnd
<1>13. PICK l \in Nat : l = Len(buffer)
  BY <1>5
<1>14. PICK e \in Nat :
         /\ c + e = d /\ a1 <= e /\ e + n = h1 + 1 /\ e + n - 1 = h1 /\ e + n <= l
         /\ a1 + 1 \in Nat \ {0} /\ a1 + 1 <= e + 1 /\ e + 1 < h1 + 1 /\ h1 + 1 <= l
         /\ h1 + 1 - 1 = h1 /\ a1 + 1 + 1 = a1 + 2 /\ e + 1 + 1 = e + 2
         /\ e + 1 \in Nat /\ h1 + 1 \in Nat
         /\ \A x \in 1..n : e + x \in 1..l /\ c + (e + x) = d + x
         /\ \A x \in (e + 1 + 1)..(h1 + 1 - 1) :
              x - e \in 2..(n - 1) /\ x - e \in 1..n /\ e + (x - e) = x
  <2>1. c \in Nat /\ h1 < l
    BY <1>4, <1>5, <1>13
  <2>2. c + a1 <= d /\ n = c + h1 + 1 - d
    BY <1>6, <1>10, <1>10a, <2>1
  <2>3. Offsets(c, a1, h1, l, d, n)
    BY <1>10a, <2>1, <2>2 DEF Offsets
  <2>4. a1 \in Nat /\ h1 \in Nat /\ l \in Nat /\ d \in Nat /\ n \in Nat
    BY <1>10
  <2>5. PICK e \in Nat : OffsetIs(c, a1, h1, l, d, n, e)
    BY <2>1, <2>3, <2>4, FrameOffsets
  <2> QED
    BY <2>5, Zenon DEF OffsetIs
<1>15. \A x \in 1..n : buffer[e + x] = PartByte(s, j, x)
  <2>1. \A x \in 1..n : ByteAt(s, Ends(s, j - 1) + x) = PartByte(s, j, x)
    BY <1>10, ByteOf
  <2>2. \A x \in 1..n : buffer[e + x] = ByteAt(s, c + (e + x))
    BY <1>5, <1>13, <1>14
  <2>3. \A x \in 1..n : c + (e + x) = Ends(s, j - 1) + x
    BY <1>10, <1>14
  <2> QED
    BY <2>1, <2>2, <2>3
<1>16. SubSeq(buffer, e + 2, e + n - 1) = FrameData
  <2>1. buffer[e + 1] = STAR
    <3>1. 1 \in 1..n
      BY <1>10a
    <3> QED
      BY <1>9, <1>15, <3>1, FrameHas
  <2>2. \A x \in (e + 1 + 1)..(h1 + 1 - 1) : buffer[x] # STAR
    <3>1. \A x \in 2..(n - 1) : PartByte(s, j, x) # STAR
      BY <1>9, <1>10, FrameHas
    <3> QED
      BY <1>14, <1>15, <3>1
  <2>3. e + 1 \in Nat /\ h1 + 1 \in Nat /\ a1 + 1 \in Nat \ {0}
    BY <1>14
  <2>4. a1 + 1 <= e + 1 /\ e + 1 < h1 + 1 /\ h1 + 1 <= Len(buffer)
    BY <1>13, <1>14
  <2>5. AfterLastStar(SubSeq(buffer, a1 + 1 + 1, h1 + 1 - 1)) =
          SubSeq(buffer, e + 1 + 1, h1 + 1 - 1)
    <3>1. PICK y \in Nat \ {0}, g \in Nat, z \in Nat : y = a1 + 1 /\ g = e + 1 /\ z = h1 + 1
      BY <2>3
    <3>2. /\ buffer \in Seq(Byte) /\ y <= g /\ g < z /\ z <= Len(buffer) /\ buffer[g] = STAR
          /\ \A x \in (g + 1)..(z - 1) : buffer[x] # STAR
      BY <1>5, <2>1, <2>2, <2>4, <3>1
    <3>2a. /\ buffer \in Seq(Byte) /\ LastStarAt(buffer, y, g, z)
           /\ y \in Nat \ {0} /\ g \in Nat /\ z \in Nat
      BY <3>1, <3>2 DEF LastStarAt
    <3>3. AfterLastStar(SubSeq(buffer, y + 1, z - 1)) = SubSeq(buffer, g + 1, z - 1)
      BY <3>2a, AfterLastStarIs
    <3> QED
      BY <3>1, <3>3
  <2>6. FrameData = AfterLastStar(SubSeq(buffer, a1 + 2, h1))
    BY <1>1 DEF FrameData
  <2>7. /\ h1 + 1 - 1 = h1 /\ a1 + 1 + 1 = a1 + 2 /\ e + 1 + 1 = e + 2 /\ e + n - 1 = h1
    BY <1>14
  <2> QED
    BY <2>5, <2>6, <2>7
<1>17. Says(s, j) = Added(s, k, FrameData)
  <2>0. /\ buffer \in Seq(Byte) /\ e \in Nat
        /\ \A x \in 1..Length(s, j) : buffer[e + x] = PartByte(s, j, x)
    BY <1>5, <1>10, <1>14, <1>15
  <2>1. e + Length(s, j) <= Len(buffer)
    BY <1>10, <1>13, <1>14
  <2>2. PICK g : g = FrameData
    OBVIOUS
  <2>3. g = SubSeq(buffer, e + 2, e + Length(s, j) - 1)
    BY <1>10, <1>16, <2>2
  <2>3a. PartAfter(s, j, buffer, e, g)
    BY <2>0, <2>1, <2>3 DEF PartAfter
  <2>4. buffer \in Seq(Byte) /\ e \in Nat
    BY <2>0
  <2>5. Says(s, j) = Added(s, j - 1, g)
    BY <1>9, <2>3a, <2>4, FrameSays
  <2> QED
    BY <1>9, <2>2, <2>5 DEF Added
<1>18. FrameData \in Seq(Byte)
  <2>1. PICK y \in Nat \ {0}, z \in Nat : y = e + 2 /\ z = e + n - 1 /\ z = h1
    BY <1>14
  <2>2. z <= Len(buffer)
    BY <1>4, <1>5, <2>1
  <2>3. SubSeq(buffer, y, z) \in Seq(Byte)
    BY <1>5, <2>1, <2>2, PieceIs
  <2> QED
    BY <1>16, <2>1, <2>3
<1> QED
  BY <1>1, <1>7, <1>9, <1>11, <1>12, <1>17, <1>18

-----------------------------------------------------------------------------
(* What is left to read *)

\* After part k, no packet or frame has wholly come; no part with a #.
Quiet(s, k, f) == \A i \in 1..Parts(s) : k < i /\ Ends(s, i) <= f => ~IsMarked(s, i)
NoHash(s, k, f) == \A i \in 1..Parts(s) : k < i /\ Ends(s, i) <= f => ~HasHash(s, i)

LEMMA QuietAtEnd ==
    ASSUME NEW s \in Stream, NEW k, NEW f \in Nat, Stands(s, k, f)
    PROVE  Quiet(s, k, f) /\ NoHash(s, k, f)
<1>1. \A i \in 1..Parts(s) : k < i => Ends(s, i) \in Nat /\ f < Ends(s, i)
  BY NumbersAre DEF Stands
<1>2. \A i \in 1..Parts(s) : k < i => ~(Ends(s, i) <= f)
  BY <1>1
<1> QED
  BY <1>2 DEF Quiet, NoHash

LEMMA QuietWithoutHash ==
    ASSUME NEW s \in Stream, ~IsClient(s), NEW k, NEW c \in Nat, Stands(s, k, c),
           NEW f, Without(s, HASH, c, f), f \in Nat, NEW m \in Nat, k <= m
    PROVE  Quiet(s, m, f)
<1>1. k \in Nat /\ Parts(s) \in Nat
  BY NumbersAre DEF Stands
<1>2. ASSUME NEW i \in 1..Parts(s), m < i, Ends(s, i) <= f, IsMarked(s, i)
      PROVE  FALSE
  <2>1. k < i
    BY <1>1, <1>2
  <2>2. Ends(s, i) \in 1..Size(s) /\ c < Ends(s, i) /\ ByteAt(s, Ends(s, i)) = HASH
    BY <1>2, <2>1, EndsWithHash
  <2>3. Ends(s, i) \in (c + 1)..f
    <3>1. Size(s) \in Nat /\ Ends(s, i) \in Nat
      BY NumbersAre
    <3> QED
      BY <1>2, <2>2, <3>1
  <2> QED
    BY <2>2, <2>3 DEF Without
<1> QED
  BY <1>2 DEF Quiet

\* A frame of a forklift has more than 12 bytes.
LEMMA QuietWhenShort ==
    ASSUME NEW s \in Stream, ~IsClient(s), IsForklift(s), NEW k, NEW c \in Nat, Stands(s, k, c),
           NEW f \in Nat, f <= c + 12
    PROVE  Quiet(s, k, f)
<1>1. ASSUME NEW i \in 1..Parts(s), k < i, Ends(s, i) <= f, IsMarked(s, i)
      PROVE  FALSE
  <2>1. c <= Ends(s, i - 1)
    BY <1>1 DEF Stands
  <2>2. PICK d \in Nat, e \in Nat : d = Ends(s, i - 1) /\ e = Ends(s, i) /\ Length(s, i) = e - d
    BY NumbersAre
  <2>3. Length(s, i) > 12
    BY <1>1, FrameHas
  <2>4. c <= d /\ e <= f /\ e - d > 12
    BY <1>1, <2>1, <2>2, <2>3
  <2> QED
    BY <2>4
<1> QED
  BY <1>1 DEF Quiet

LEMMA NoHashIsQuiet ==
    ASSUME NEW s \in Stream, ~IsClient(s), NEW k, NEW f, NoHash(s, k, f)
    PROVE  Quiet(s, k, f)
BY MarkedHasHash DEF NoHash, Quiet

\* After the only part with a #, there is none.
LEMMA NoHashLeft ==
    ASSUME NEW s \in Stream, ~IsClient(s), NEW k, NEW f, OneHash(s, k, f),
           NEW j \in 1..Parts(s), k < j, Ends(s, j) <= f, IsMarked(s, j), k \in Nat
    PROVE  NoHash(s, j, f)
<1>1. HasHash(s, j)
  BY MarkedHasHash
<1>2. ASSUME NEW i \in 1..Parts(s), j < i, Ends(s, i) <= f, HasHash(s, i)
      PROVE  FALSE
  <2>1. k < i
    BY <1>2
  <2>2. i = j
    BY <1>1, <1>2, <2>1 DEF OneHash
  <2> QED
    BY <1>2, <2>2
<1> QED
  BY <1>2 DEF NoHash

\* At the end of a packet of which only the first bytes have come.
LEMMA QuietOnPacket ==
    ASSUME NEW s \in Stream, NEW k \in 0..Parts(s), NEW c, NEW f \in Nat, NEW len,
           OnPacket(s, k, c, f, len)
    PROVE  Quiet(s, k, f)
<1>1. k + 1 \in 1..Parts(s) /\ f < Ends(s, k + 1)
  BY DEF OnPacket
<1>2. ASSUME NEW i \in 1..Parts(s), k < i, Ends(s, i) <= f
      PROVE  FALSE
  <2>1. PICK n \in 1..Parts(s) : n = k + 1
    BY <1>1
  <2>2. n <= i /\ i \in 0..Parts(s) /\ n \in 0..Parts(s)
    BY <1>2, <2>1
  <2>3. Ends(s, n) <= Ends(s, i) /\ Ends(s, n) \in Nat /\ Ends(s, i) \in Nat
    BY <2>2, Ordered, NumbersAre
  <2> QED
    BY <1>1, <1>2, <2>1, <2>3
<1> QED
  BY <1>2 DEF Quiet

-----------------------------------------------------------------------------
(* The inductive invariant *)

\* A session of a client: a length is known only with a head before it; it
\* waits for the rest of the packet at the front of the buffer, or has nothing.
ClientWaits(s, k, c, f, b, len, p) ==
    /\ len # 0 => b # <<>> /\ b[1] = HEAD
    /\ p = "read" => IF len = 0 THEN b = <<>> ELSE len > 0 /\ OnPacket(s, k, c, f, len)
\* The connection to the WMS, while no read has brought two parts: none with a
\* # waits before a read, one at most after it.
Wms(s, k, f, p) ==
    /\ p = "read" => NoHash(s, k, f)
    /\ p = "loop" => OneHash(s, k, f)

\* The buffer holds what is left after c bytes and k parts, and what was handed
\* on are the messages of these parts.
At(s, k, c, f, cr, b, len, p, o) ==
    /\ Holds(s, f, b, c) /\ Stands(s, k, c) /\ o = Says(s, k)
    /\ IsClient(s) => ClientWaits(s, k, c, f, b, len, p)
    /\ IsForklift(s) /\ p = "read" => Quiet(s, k, f)
    /\ ~IsClient(s) /\ ~IsForklift(s) /\ ~cr => Wms(s, k, f, p)

FramingTypes ==
    /\ stream \in Stream /\ fed \in Nat /\ buffer \in Seq(Byte) /\ json_len \in Int
    /\ crowded \in BOOLEAN /\ pc \in {"read", "loop"} /\ out \in Seq(Seq(Byte))
FramingInv ==
    /\ stream \in Stream /\ json_len \in Int /\ crowded \in BOOLEAN /\ pc \in {"read", "loop"}
    /\ \E k, c : At(stream, k, c, fed, crowded, buffer, json_len, pc, out)

LEMMA TypesFollow == FramingInv => FramingTypes
<1> SUFFICES ASSUME FramingInv PROVE FramingTypes
  OBVIOUS
<1>1. PICK k, c : At(stream, k, c, fed, crowded, buffer, json_len, pc, out)
  BY DEF FramingInv
<1>2. /\ stream \in Stream /\ json_len \in Int /\ crowded \in BOOLEAN
      /\ pc \in {"read", "loop"}
  BY DEF FramingInv
<1>3. /\ fed \in 0..Size(stream) /\ buffer \in Seq(Byte)
      /\ k \in 0..Parts(stream) /\ out = Says(stream, k)
  BY <1>1 DEF At, Holds, Stands
<1>4. fed \in Nat
  BY <1>2, <1>3, NumbersAre
<1>5. out \in Seq(Seq(Byte))
  BY <1>2, <1>3, FirstsType DEF Says, Parts
<1> QED
  BY <1>2, <1>3, <1>4, <1>5 DEF FramingTypes

LEMMA FramesBegin == FramesInit => FramingInv
<1> SUFFICES ASSUME FramesInit PROVE FramingInv
  OBVIOUS
<1>1. /\ stream \in Stream /\ fed = 0 /\ crowded = FALSE /\ buffer = <<>> /\ json_len = 0
      /\ pc = "read" /\ out = <<>>
  BY DEF FramesInit
<1>2. PICK s \in Stream : s = stream
  BY <1>1
<1>3. Parts(s) \in Nat /\ Size(s) \in Nat /\ 0 \in 0..Parts(s) /\ 0 \in 0..Size(s)
  BY NumbersAre
<1>4. Ends(s, 0) = 0
  BY EndsAre DEF Ends
<1>5. Stands(s, 0, 0)
  BY <1>3, <1>4, StandsAtEnd
<1>6. Says(s, 0) = <<>>
  BY FirstsAre DEF Says
<1>7. Holds(s, fed, buffer, 0)
  BY <1>1, <1>3 DEF Holds
<1>8. Quiet(s, 0, fed) /\ NoHash(s, 0, fed)
  BY <1>1, <1>5, QuietAtEnd
<1>9. ClientWaits(s, 0, 0, fed, buffer, json_len, pc) /\ Wms(s, 0, fed, pc)
  BY <1>1, <1>8 DEF ClientWaits, Wms
<1>10. out = Says(s, 0)
  BY <1>1, <1>6
<1>11. At(s, 0, 0, fed, crowded, buffer, json_len, pc, out)
  BY <1>5, <1>7, <1>8, <1>9, <1>10 DEF At
<1>12. /\ stream \in Stream /\ json_len \in Int /\ crowded \in BOOLEAN
       /\ pc \in {"read", "loop"}
  <2>1. crowded \in BOOLEAN
    BY <1>1, Zenon
  <2>2. stream \in Stream /\ json_len \in Int /\ pc \in {"read", "loop"}
    BY <1>1
  <2> QED
    BY <2>1, <2>2
<1> QED
  BY <1>2, <1>11, <1>12, Zenon DEF FramingInv

\* The invariant is enough.
LEMMA FramesHandOn == FramingInv => HandsOnWhatCame
<1> SUFFICES ASSUME FramingInv, pc = "read"
             PROVE  IF TakesOne THEN IsPrefix(out, Came(stream, fed))
                    ELSE out = Came(stream, fed)
  BY DEF HandsOnWhatCame
<1>1. PICK k, c : At(stream, k, c, fed, crowded, buffer, json_len, pc, out)
  BY DEF FramingInv
<1>2. PICK s \in Stream : s = stream
  BY DEF FramingInv
<1>3. /\ Holds(s, fed, buffer, c) /\ Stands(s, k, c) /\ out = Says(s, k)
      /\ IsClient(s) => ClientWaits(s, k, c, fed, buffer, json_len, pc)
      /\ IsForklift(s) => Quiet(s, k, fed)
      /\ ~IsClient(s) /\ ~IsForklift(s) /\ ~crowded => Wms(s, k, fed, pc)
  BY <1>1, <1>2 DEF At
<1>4. /\ fed \in 0..Size(s) /\ c \in Nat /\ Len(buffer) \in Nat /\ c + Len(buffer) = fed
      /\ buffer \in Seq(Byte)
  BY <1>3 DEF Holds
<1>5. /\ Size(s) \in Nat /\ fed \in Nat /\ c <= fed
  BY <1>4, NumbersAre
<1>6. k \in 0..Parts(s) /\ Ends(s, k) \in Nat /\ Ends(s, k) <= fed
  <2>1. k \in 0..Parts(s) /\ Ends(s, k) <= c
    BY <1>3 DEF Stands
  <2> QED
    BY <1>4, <1>5, <2>1, NumbersAre
<1>7. /\ IsPrefix(Says(s, k), Came(s, fed))
      /\ Quiet(s, k, fed) => Says(s, k) = Came(s, fed)
  BY <1>5, <1>6, SaysAll DEF Quiet
<1>8. ASSUME ~TakesOne
      PROVE  Quiet(s, k, fed)
  <2>1. CASE IsClient(s)
    <3>1. IF json_len = 0 THEN buffer = <<>> ELSE OnPacket(s, k, c, fed, json_len)
      BY <1>3, <2>1 DEF ClientWaits
    <3>2. CASE json_len = 0
      <4>1. c = fed
        BY <1>4, <3>1, <3>2
      <4> QED
        BY <1>3, <1>5, <4>1, QuietAtEnd
    <3>3. CASE json_len # 0
      BY <1>5, <1>6, <3>1, <3>3, QuietOnPacket
    <3> QED
      BY <3>2, <3>3
  <2>2. CASE IsForklift(s)
    BY <1>3, <2>2
  <2>3. CASE ~IsClient(s) /\ ~IsForklift(s)
    <3>1. ~crowded
      <4>1. s.reader = "wms"
        BY <2>3, StreamAssumption DEF IsClient, IsForklift
      <4> QED
        BY <1>2, <1>8, <4>1 DEF TakesOne
    <3>2. NoHash(s, k, fed)
      BY <1>3, <2>3, <3>1 DEF Wms
    <3> QED
      BY <2>3, <3>2, NoHashIsQuiet
  <2> QED
    BY <2>1, <2>2, <2>3
<1> QED
  BY <1>2, <1>3, <1>7, <1>8

-----------------------------------------------------------------------------
(* The steps of a session of a client *)

\* To show that a step keeps the invariant.
LEMMA StepKeeps ==
    ASSUME NEW s \in Stream, stream' = s, json_len' \in Int, crowded' \in BOOLEAN,
           pc' \in {"read", "loop"}, NEW k, NEW c,
           At(s, k, c, fed', crowded', buffer', json_len', pc', out')
    PROVE  FramingInv'
BY Zenon DEF FramingInv

LEMMA NowIs ==
    ASSUME FramingInv
    PROVE  \E s \in Stream, k, c \in Nat, f \in Nat :
             /\ s = stream /\ f = fed /\ k \in 0..Parts(s)
             /\ Holds(s, f, buffer, c) /\ Stands(s, k, c) /\ out = Says(s, k)
             /\ c <= f /\ f <= Size(s) /\ buffer \in Seq(Byte)
             /\ At(s, k, c, f, crowded, buffer, json_len, pc, out)
<1>1. PICK k, c : At(stream, k, c, fed, crowded, buffer, json_len, pc, out)
  BY DEF FramingInv
<1>2. PICK s \in Stream : s = stream
  BY DEF FramingInv
<1>3. /\ Holds(s, fed, buffer, c) /\ Stands(s, k, c) /\ out = Says(s, k)
  BY <1>1, <1>2 DEF At
<1>4. /\ fed \in 0..Size(s) /\ c \in Nat /\ buffer \in Seq(Byte) /\ c + Len(buffer) = fed
      /\ k \in 0..Parts(s)
  BY <1>3 DEF Holds, Stands
<1>5. fed \in Nat /\ c <= fed /\ fed <= Size(s)
  <2>1. Size(s) \in Nat /\ Len(buffer) \in Nat
    BY <1>4, NumbersAre
  <2> QED
    BY <1>4, <2>1
<1> QED
  BY <1>1, <1>2, <1>3, <1>4, <1>5

\* What the invariant says of a client in the loop.
LEMMA ClientAt ==
    ASSUME NEW s \in Stream, IsClient(s), NEW k, NEW c, NEW f, NEW cr, NEW b, NEW len, NEW p,
           NEW o, Holds(s, f, b, c), Stands(s, k, c), o = Says(s, k),
           ClientWaits(s, k, c, f, b, len, p)
    PROVE  At(s, k, c, f, cr, b, len, p, o)
BY DEF At, IsClient, IsForklift

LEMMA NothingHeld ==
    ASSUME NEW s \in Stream, NEW f, NEW b, NEW c, Holds(s, f, b, c)
    PROVE  Holds(s, f, <<>>, f)
<1>1. Size(s) \in Nat /\ f \in 0..Size(s)
  BY NumbersAre DEF Holds
<1> QED
  BY <1>1 DEF Holds

\* No head: the buffer is thrown away, and no packet with it.
LEMMA NoHeadKeeps == FramingInv /\ NoHead => FramingInv'
<1> SUFFICES ASSUME FramingInv, NoHead PROVE FramingInv'
  OBVIOUS
<1>1. PICK s \in Stream, k, c \in Nat, f \in Nat :
        /\ s = stream /\ f = fed /\ k \in 0..Parts(s)
        /\ Holds(s, f, buffer, c) /\ Stands(s, k, c) /\ out = Says(s, k)
        /\ c <= f /\ f <= Size(s) /\ buffer \in Seq(Byte)
        /\ At(s, k, c, f, crowded, buffer, json_len, pc, out)
  BY NowIs
<1>2. /\ Find(HEAD) = -1 /\ buffer' = <<>> /\ pc' = "read" /\ json_len' = json_len /\ out' = out
      /\ stream' = s /\ fed' = f /\ crowded' = crowded /\ IsClient(s)
  BY <1>1 DEF NoHead, Package, IsClient
<1>3. Without(s, HEAD, c, f)
  <2>1. ~(Find(HEAD) \in Nat)
    BY <1>2
  <2> QED
    BY <1>1, <2>1, Found
<1>4. PICK m \in 0..Parts(s) : Stands(s, m, f) /\ Says(s, m) = Says(s, k)
  BY <1>1, <1>2, <1>3, Passing DEF Mark
<1>5. json_len = 0
  <2>1. json_len # 0 => buffer # <<>> /\ buffer[1] = HEAD
    BY <1>1, <1>2 DEF At, ClientWaits
  <2>2. buffer = <<>> \/ buffer[1] # HEAD
    <3>1. CASE buffer # <<>>
      <4>1. 1 \in 1..Len(buffer)
        BY <1>1, <3>1
      <4>2. \A x \in 1..Len(buffer) : buffer[x] # HEAD
        BY <1>1, <1>2, FindIs
      <4> QED
        BY <4>1, <4>2
    <3> QED
      BY <3>1
  <2> QED
    BY <2>1, <2>2
<1>6. At(s, m, f, fed', crowded', buffer', json_len', pc', out')
  <2>1. Holds(s, f, <<>>, f)
    BY <1>1, NothingHeld
  <2>2. ClientWaits(s, m, f, f, <<>>, 0, "read")
    BY DEF ClientWaits
  <2>3. At(s, m, f, f, crowded, <<>>, 0, "read", out)
    BY <1>1, <1>2, <1>4, <2>1, <2>2, ClientAt
  <2> QED
    BY <1>2, <1>5, <2>3
<1>7. json_len' \in Int /\ crowded' \in BOOLEAN /\ pc' \in {"read", "loop"}
  BY <1>2 DEF FramingInv
<1> QED
  BY <1>2, <1>6, <1>7, StepKeeps

\* The same for the other steps of packageProcess: a packet begins at the head.
LEMMA HeadIs ==
    ASSUME FramingInv, Package, Find(HEAD) >= 0
    PROVE  \E s \in Stream, f, m, i \in Nat :
             /\ m \in 0..Parts(s) /\ i \in 1..Parts(s)
             /\ s = stream /\ f = fed /\ IsClient(s) /\ i = m + 1 /\ i - 1 = m
             /\ IsMarked(s, i) /\ Stands(s, m, Ends(s, m)) /\ out = Says(s, m)
             /\ Holds(s, f, Trimmed, Ends(s, m)) /\ Trimmed # <<>> /\ Trimmed[1] = HEAD
             /\ GetInt32(Trimmed, 1) = IF Len(Trimmed) < 5 THEN -1 ELSE Length(s, i) - 5
<1>1. PICK s \in Stream, k, c \in Nat, f \in Nat :
        /\ s = stream /\ f = fed /\ k \in 0..Parts(s)
        /\ Holds(s, f, buffer, c) /\ Stands(s, k, c) /\ out = Says(s, k)
        /\ c <= f /\ f <= Size(s) /\ buffer \in Seq(Byte)
        /\ At(s, k, c, f, crowded, buffer, json_len, pc, out)
  BY NowIs
<1>2. IsClient(s)
  BY <1>1 DEF Package, IsClient
<1>3. PICK m \in 0..Parts(s) :
        /\ Says(s, m) = Says(s, k) /\ m + 1 \in 1..Parts(s) /\ IsMarked(s, m + 1)
        /\ Holds(s, f, Trimmed, Ends(s, m))
        /\ Trimmed # <<>> /\ Trimmed[1] = HEAD
        /\ GetInt32(Trimmed, 1) =
             IF Len(Trimmed) < 5 THEN -1 ELSE Length(s, m + 1) - 5
  BY <1>1, <1>2, PacketFound
<1>4. PICK i \in 1..Parts(s) : i = m + 1
  BY <1>3
<1>5. i - 1 = m
  BY <1>4
<1>6. Stands(s, m, Ends(s, m))
  BY StandsAtEnd
<1> QED
  BY <1>1, <1>2, <1>3, <1>4, <1>5, <1>6

\* A packet was taken, and the loop goes on.
LEMMA LoopKeeps ==
    ASSUME FramingInv, Package, NEW s \in Stream, NEW f, s = stream, f = fed, IsClient(s),
           NEW i, Stands(s, i, Ends(s, i)), out' = Says(s, i),
           Holds(s, f, buffer', Ends(s, i)), json_len' = 0, pc' = pc
    PROVE  FramingInv'
<1>1. /\ stream' = s /\ fed' = f /\ crowded' = crowded /\ pc = "loop"
  BY DEF Package
<1>2. ClientWaits(s, i, Ends(s, i), f, buffer', 0, "loop")
  BY DEF ClientWaits
<1>3. At(s, i, Ends(s, i), f, crowded, buffer', 0, "loop", out')
  BY <1>2, ClientAt
<1>4. At(s, i, Ends(s, i), fed', crowded', buffer', json_len', pc', out')
  BY <1>1, <1>3
<1>5. json_len' \in Int /\ crowded' \in BOOLEAN /\ pc' \in {"read", "loop"}
  BY <1>1 DEF FramingInv
<1> QED
  BY <1>1, <1>4, <1>5, StepKeeps

LEMMA EmptyPacketKeeps == FramingInv /\ EmptyPacket => FramingInv'
<1> SUFFICES ASSUME FramingInv, EmptyPacket PROVE FramingInv'
  OBVIOUS
<1>1. /\ Package /\ Find(HEAD) >= 0 /\ GetInt32(Trimmed, 1) = 0
      /\ json_len' = 0 /\ buffer' = RemoveFront(Trimmed, Prefix) /\ pc' = pc /\ out' = out
  BY DEF EmptyPacket
<1>2. PICK s \in Stream, f, m, i \in Nat :
        /\ m \in 0..Parts(s) /\ i \in 1..Parts(s)
        /\ s = stream /\ f = fed /\ IsClient(s) /\ i = m + 1 /\ i - 1 = m
        /\ IsMarked(s, i) /\ Stands(s, m, Ends(s, m)) /\ out = Says(s, m)
        /\ Holds(s, f, Trimmed, Ends(s, m)) /\ Trimmed # <<>> /\ Trimmed[1] = HEAD
        /\ GetInt32(Trimmed, 1) = IF Len(Trimmed) < 5 THEN -1 ELSE Length(s, i) - 5
  BY <1>1, HeadIs
<1>3. PICK t : t = Trimmed
  OBVIOUS
<1>4. t \in Seq(Byte) /\ Len(t) \in Nat /\ Holds(s, f, t, Ends(s, i - 1))
  BY <1>2, <1>3 DEF Holds
<1>5. Length(s, i) \in Nat
  BY <1>2, PacketHas
<1>6. Length(s, i) = 5 /\ 5 <= Len(t)
  <2>1. 0 = IF Len(t) < 5 THEN -1 ELSE Length(s, i) - 5
    BY <1>1, <1>2, <1>3
  <2> QED
    BY <1>4, <1>5, <2>1
<1>7. Length(s, i) <= Len(t)
  BY <1>6
<1>8. PICK json : json = SubSeq(t, 6, Length(s, i))
  OBVIOUS
<1>8a. Request(s, i, t, json)
  BY <1>8 DEF Request
<1>9. /\ Holds(s, f, RemoveFront(t, Length(s, i)), Ends(s, i))
      /\ Stands(s, i, Ends(s, i)) /\ Says(s, i) = Says(s, m)
  BY <1>2, <1>4, <1>6, <1>7, <1>8a, PacketTaken
<1>10. Holds(s, f, buffer', Ends(s, i)) /\ out' = Says(s, i)
  BY <1>1, <1>2, <1>3, <1>6, <1>9 DEF Prefix
<1> QED
  BY <1>1, <1>2, <1>9, <1>10, LoopKeeps

LEMMA WholePacketKeeps == FramingInv /\ WholePacket => FramingInv'
<1> SUFFICES ASSUME FramingInv, WholePacket PROVE FramingInv'
  OBVIOUS
<1>0. PICK t, len, json :
        /\ t = Trimmed /\ len = GetInt32(Trimmed, 1)
        /\ json = SubSeq(Trimmed, Prefix + 1, Prefix + len)
  OBVIOUS
<1>1. /\ Package /\ Find(HEAD) >= 0 /\ Whole(len)
      /\ out' = (IF Accepted(json) THEN Append(out, json) ELSE out)
      /\ json_len' = 0 /\ buffer' = RemoveFront(t, Prefix + len) /\ pc' = pc
  BY <1>0, Zenon DEF WholePacket
<1>2. PICK s \in Stream, f, m, i \in Nat :
        /\ m \in 0..Parts(s) /\ i \in 1..Parts(s)
        /\ s = stream /\ f = fed /\ IsClient(s) /\ i = m + 1 /\ i - 1 = m
        /\ IsMarked(s, i) /\ Stands(s, m, Ends(s, m)) /\ out = Says(s, m)
        /\ Holds(s, f, Trimmed, Ends(s, m)) /\ Trimmed # <<>> /\ Trimmed[1] = HEAD
        /\ GetInt32(Trimmed, 1) = IF Len(Trimmed) < 5 THEN -1 ELSE Length(s, i) - 5
  BY <1>1, HeadIs
<1>3. t \in Seq(Byte) /\ Len(t) \in Nat /\ Holds(s, f, t, Ends(s, i - 1))
  BY <1>0, <1>2 DEF Holds
<1>4. Length(s, i) \in Nat
  BY <1>2, PacketHas
<1>5. len = IF Len(t) < 5 THEN -1 ELSE Length(s, i) - 5
  BY <1>0, <1>2
<1>6. len > 0 /\ len <= Len(t) - 5
  BY <1>0, <1>1 DEF Whole, Prefix
<1>7. 5 + len = Length(s, i) /\ Length(s, i) <= Len(t) /\ Length(s, i) # 5
  BY <1>3, <1>4, <1>5, <1>6
<1>8. json = SubSeq(t, 6, Length(s, i)) /\ buffer' = RemoveFront(t, Length(s, i))
  <2>1. Prefix + 1 = 6 /\ Prefix + len = Length(s, i)
    BY <1>7 DEF Prefix
  <2> QED
    BY <1>0, <1>1, <2>1
<1>8a. Request(s, i, t, json)
  BY <1>8 DEF Request
<1>9. /\ Holds(s, f, RemoveFront(t, Length(s, i)), Ends(s, i))
      /\ Stands(s, i, Ends(s, i))
      /\ Says(s, i) = IF Length(s, i) = 5 \/ ~Accepted(json) THEN Says(s, i - 1)
                      ELSE Append(Says(s, i - 1), json)
  <2>1. /\ i \in 1..Parts(s) /\ IsMarked(s, i) /\ IsClient(s)
        /\ Holds(s, f, t, Ends(s, i - 1)) /\ Length(s, i) <= Len(t)
    BY <1>2, <1>3, <1>7
  <2> QED
    BY <1>8a, <2>1, PacketTaken
<1>10. out' = Says(s, i) /\ Holds(s, f, buffer', Ends(s, i))
  BY <1>1, <1>2, <1>7, <1>8, <1>9
<1> QED
  BY <1>1, <1>2, <1>9, <1>10, LoopKeeps

LEMMA PartOfPacketKeeps == FramingInv /\ PartOfPacket => FramingInv'
<1> SUFFICES ASSUME FramingInv, PartOfPacket PROVE FramingInv'
  OBVIOUS
<1>0. PICK t, len : t = Trimmed /\ len = GetInt32(Trimmed, 1)
  OBVIOUS
<1>1. /\ Package /\ Find(HEAD) >= 0 /\ len > 0 /\ len > Len(t) - 5
      /\ out' = out /\ json_len' = len /\ buffer' = t /\ pc' = "read"
  BY <1>0 DEF PartOfPacket, Prefix
<1>2. PICK s \in Stream, f, m, i \in Nat :
        /\ m \in 0..Parts(s) /\ i \in 1..Parts(s)
        /\ s = stream /\ f = fed /\ IsClient(s) /\ i = m + 1 /\ i - 1 = m
        /\ IsMarked(s, i) /\ Stands(s, m, Ends(s, m)) /\ out = Says(s, m)
        /\ Holds(s, f, Trimmed, Ends(s, m)) /\ Trimmed # <<>> /\ Trimmed[1] = HEAD
        /\ GetInt32(Trimmed, 1) = IF Len(Trimmed) < 5 THEN -1 ELSE Length(s, i) - 5
  BY <1>1, HeadIs
<1>3. /\ Len(t) \in Nat /\ Holds(s, f, t, Ends(s, m)) /\ Ends(s, m) + Len(t) = f
      /\ t # <<>> /\ t[1] = HEAD
  BY <1>0, <1>2 DEF Holds
<1>4. PICK e, n \in Nat :
        e = Ends(s, m) /\ n = Length(s, i) /\ Ends(s, i) = e + n
  <2>1. /\ Ends(s, i) \in Nat /\ Ends(s, m) \in Nat /\ Length(s, i) = Ends(s, i) - Ends(s, m)
    BY <1>2, NumbersAre
  <2>2. Length(s, i) \in Nat
    BY <1>2, PacketHas
  <2> QED
    BY <2>1, <2>2
<1>5. len = IF Len(t) < 5 THEN -1 ELSE n - 5
  BY <1>0, <1>2, <1>4
<1>6. len = n - 5 /\ len > 0 /\ len > Len(t) - 5 /\ len \in Int
  <2>1. len # -1
    <3>1. ~(-1 > 0)
      OBVIOUS
    <3> QED
      BY <1>1, <3>1
  <2>2. len = n - 5
    BY <1>5, <2>1
  <2> QED
    BY <1>1, <1>4, <2>2
<1>7. e + n = e + len + 5 /\ f < e + n
  <2>1. PICK l \in Nat : l = Len(t)
    BY <1>3
  <2>2. e + l = f /\ len > l - 5
    BY <1>3, <1>4, <1>6, <2>1
  <2>3. n - 5 > l - 5 /\ e + n = e + (n - 5) + 5
    BY <1>6, <2>2
  <2>4. e + l < e + n
    BY <2>3
  <2> QED
    BY <1>6, <2>2, <2>3, <2>4
<1>8. OnPacket(s, m, e, f, len)
  BY <1>2, <1>4, <1>7 DEF OnPacket
<1>9. ClientWaits(s, m, e, f, t, len, "read")
  BY <1>3, <1>6, <1>8 DEF ClientWaits
<1>10. At(s, m, e, f, crowded, t, len, "read", out)
  BY <1>2, <1>3, <1>4, <1>9, ClientAt
<1>11. /\ stream' = s /\ fed' = f /\ crowded' = crowded
  BY <1>1, <1>2 DEF Package
<1>12. At(s, m, e, fed', crowded', buffer', json_len', pc', out')
  BY <1>1, <1>10, <1>11
<1>13. json_len' \in Int /\ crowded' \in BOOLEAN /\ pc' \in {"read", "loop"}
  BY <1>1, <1>6, <1>11 DEF FramingInv
<1> QED
  BY <1>11, <1>12, <1>13, StepKeeps

LEMMA PartOfHeadKeeps == FramingInv /\ PartOfHead => FramingInv'
<1> SUFFICES ASSUME FramingInv, PartOfHead PROVE FramingInv'
  OBVIOUS
<1>0. PICK t : t = Trimmed
  OBVIOUS
<1>1. /\ Package /\ Find(HEAD) >= 0
      /\ out' = out /\ json_len' = -1 /\ buffer' = t /\ pc' = pc
  BY <1>0 DEF PartOfHead
<1>2. PICK s \in Stream, f, m, i \in Nat :
        /\ m \in 0..Parts(s) /\ i \in 1..Parts(s)
        /\ s = stream /\ f = fed /\ IsClient(s) /\ i = m + 1 /\ i - 1 = m
        /\ IsMarked(s, i) /\ Stands(s, m, Ends(s, m)) /\ out = Says(s, m)
        /\ Holds(s, f, Trimmed, Ends(s, m)) /\ Trimmed # <<>> /\ Trimmed[1] = HEAD
        /\ GetInt32(Trimmed, 1) = IF Len(Trimmed) < 5 THEN -1 ELSE Length(s, i) - 5
  BY <1>1, HeadIs
<1>3. PICK e, len : e = Ends(s, m) /\ len = json_len'
  OBVIOUS
<1>4. Holds(s, f, t, e) /\ t # <<>> /\ t[1] = HEAD
  BY <1>0, <1>2, <1>3
<1>5. ClientWaits(s, m, e, f, t, len, "loop")
  BY <1>4 DEF ClientWaits
<1>6. At(s, m, e, f, crowded, t, len, "loop", out)
  BY <1>2, <1>3, <1>4, <1>5, ClientAt
<1>7. stream' = s /\ fed' = f /\ crowded' = crowded /\ pc' = "loop"
  BY <1>1, <1>2 DEF Package
<1>8. At(s, m, e, fed', crowded', buffer', json_len', pc', out')
  BY <1>1, <1>3, <1>6, <1>7
<1>9. json_len' \in Int /\ crowded' \in BOOLEAN /\ pc' \in {"read", "loop"}
  BY <1>1, <1>7 DEF FramingInv
<1> QED
  BY <1>7, <1>8, <1>9, StepKeeps

-----------------------------------------------------------------------------
(* The steps of a session of a forklift *)

LEMMA ForkliftAt ==
    ASSUME NEW s \in Stream, ~IsClient(s), IsForklift(s), NEW k, NEW c, NEW f, NEW cr, NEW b,
           NEW len, NEW p, NEW o, Holds(s, f, b, c), Stands(s, k, c), o = Says(s, k),
           p = "read" => Quiet(s, k, f)
    PROVE  At(s, k, c, f, cr, b, len, p, o)
BY DEF At

\* What the two kinds of frames have in common.
FrameStep(s, k, c, f) ==
    /\ s = stream /\ f = fed /\ k \in 0..Parts(s) /\ k \in Nat
    /\ Holds(s, f, buffer, c) /\ Stands(s, k, c) /\ out = Says(s, k)
    /\ c <= f /\ f <= Size(s) /\ buffer \in Seq(Byte)
    /\ At(s, k, c, f, crowded, buffer, json_len, pc, out)
    /\ ~IsClient(s) /\ pc = "loop"
    /\ stream' = s /\ fed' = f /\ crowded' = crowded /\ json_len' = json_len
    /\ json_len' \in Int /\ crowded' \in BOOLEAN

LEMMA FrameStepIs ==
    ASSUME FramingInv, pc = "loop", stream.reader # "client",
           UNCHANGED <<stream, fed, crowded, json_len>>
    PROVE  \E s \in Stream, k, c, f \in Nat : FrameStep(s, k, c, f)
<1>1. PICK s \in Stream, k, c \in Nat, f \in Nat :
        /\ s = stream /\ f = fed /\ k \in 0..Parts(s)
        /\ Holds(s, f, buffer, c) /\ Stands(s, k, c) /\ out = Says(s, k)
        /\ c <= f /\ f <= Size(s) /\ buffer \in Seq(Byte)
        /\ At(s, k, c, f, crowded, buffer, json_len, pc, out)
  BY NowIs
<1>2. ~IsClient(s)
  BY <1>1 DEF IsClient
<1>3. /\ stream' = s /\ fed' = f /\ crowded' = crowded /\ json_len' = json_len
  BY <1>1
<1>4. json_len' \in Int /\ crowded' \in BOOLEAN
  BY <1>3 DEF FramingInv
<1>5. k \in Nat
  BY <1>1
<1>6. FrameStep(s, k, c, f)
  BY <1>1, <1>2, <1>3, <1>4, <1>5 DEF FrameStep
<1> QED
  BY <1>1, <1>5, <1>6

\* What a step finds in the buffer.
LEMMA NoStarFound ==
    ASSUME NEW s \in Stream, NEW k \in Nat, NEW c \in Nat, NEW f \in Nat,
           FrameStep(s, k, c, f), Find(STAR) = -1
    PROVE  \E m \in 0..Parts(s) : Stands(s, m, f) /\ Says(s, m) = Says(s, k)
<1>1. /\ Holds(s, f, buffer, c) /\ Stands(s, k, c) /\ c <= f /\ f <= Size(s) /\ ~IsClient(s)
  BY DEF FrameStep
<1>2. Without(s, STAR, c, f)
  <2>1. ~(Find(STAR) \in Nat)
    OBVIOUS
  <2> QED
    BY <1>1, <2>1, Found
<1>3. Mark(s) = STAR
  BY <1>1 DEF Mark
<1> QED
  BY <1>1, <1>2, <1>3, Passing

LEMMA StarFound ==
    ASSUME NEW s \in Stream, NEW k \in Nat, NEW c \in Nat, NEW f \in Nat,
           FrameStep(s, k, c, f), Find(STAR) >= 0
    PROVE  \E m, e \in Nat :
             /\ m \in 0..Parts(s) /\ k <= m /\ Stands(s, m, e) /\ Says(s, m) = Says(s, k)
             /\ e = c + Find(STAR) /\ Holds(s, f, RemoveFront(buffer, Find(STAR)), e)
             /\ e < f /\ c <= e /\ ByteAt(s, e + 1) = STAR /\ Without(s, STAR, c, e)
<1>1. /\ Holds(s, f, buffer, c) /\ Stands(s, k, c) /\ c <= f /\ f <= Size(s) /\ ~IsClient(s)
  BY DEF FrameStep
<1>2. Find(STAR) # -1
  OBVIOUS
<1>3. PICK r, e \in Nat : r = Find(STAR) /\ e = c + Find(STAR) /\ r \in 0..Len(buffer)
  BY <1>1, <1>2, Found
<1>4. /\ c <= e /\ e < f /\ ByteAt(s, e + 1) = STAR /\ Without(s, STAR, c, e)
  BY <1>1, <1>2, <1>3, Found
<1>5. Mark(s) = STAR
  BY <1>1 DEF Mark
<1>6. e <= Size(s)
  <2>1. Size(s) \in Nat
    BY NumbersAre
  <2>2. e \in Nat /\ e < f /\ f <= Size(s)
    BY <1>1, <1>3, <1>4
  <2> QED
    BY <2>1, <2>2
<1>7. PICK m \in 0..Parts(s) : k <= m /\ Stands(s, m, e) /\ Says(s, m) = Says(s, k)
  BY <1>1, <1>3, <1>4, <1>5, <1>6, Passing
<1>8. Holds(s, f, RemoveFront(buffer, r), c + r)
  BY <1>1, <1>3, Cut
<1>9. m \in Nat
  BY <1>7, NumbersAre
<1> QED
  BY <1>3, <1>4, <1>7, <1>8, <1>9

LEMMA FrameGone ==
    ASSUME NEW s \in Stream, NEW k \in Nat, NEW c \in Nat, NEW f \in Nat,
           FrameStep(s, k, c, f), Find(STAR) >= 0, Find(HASH) > Find(STAR) + 1
    PROVE  \E j, e \in Nat :
             /\ j \in 1..Parts(s) /\ IsMarked(s, j) /\ Ends(s, j) <= f
             /\ k < j /\ Stands(s, j, e) /\ Holds(s, f, RemoveFront(buffer, Find(HASH) + 1), e)
             /\ Says(s, j) = Added(s, k, FrameData) /\ FrameData \in Seq(Byte)
<1>1. /\ Holds(s, f, buffer, c) /\ Stands(s, k, c) /\ ~IsClient(s)
  BY DEF FrameStep
<1>2. PICK j \in 1..Parts(s) :
        /\ k < j /\ IsMarked(s, j) /\ Ends(s, j) <= f
        /\ Holds(s, f, RemoveFront(buffer, Find(HASH) + 1), Ends(s, j))
        /\ Stands(s, j, Ends(s, j))
        /\ Says(s, j) = Added(s, k, FrameData) /\ FrameData \in Seq(Byte)
  BY <1>1, FrameTaken
<1>3. Ends(s, j) \in Nat /\ j \in Nat
  BY <1>2, NumbersAre
<1> QED
  BY <1>2, <1>3

LEMMA NoStarKeeps == FramingInv /\ NoStar => FramingInv'
<1> SUFFICES ASSUME FramingInv, NoStar PROVE FramingInv'
  OBVIOUS
<1>1. /\ pc = "loop" /\ stream.reader = "forklift" /\ stream.reader # "client"
      /\ UNCHANGED <<stream, fed, crowded, json_len>>
      /\ Find(STAR) = -1 /\ buffer' = <<>> /\ pc' = "read" /\ out' = out
  BY DEF NoStar, Protocol
<1>2. PICK s \in Stream, k, c, f \in Nat : FrameStep(s, k, c, f)
  BY <1>1, FrameStepIs
<1>3. IsForklift(s)
  BY <1>1, <1>2 DEF FrameStep, IsForklift
<1>4. PICK m \in 0..Parts(s) : Stands(s, m, f) /\ Says(s, m) = Says(s, k)
  BY <1>1, <1>2, NoStarFound
<1>5. Quiet(s, m, f) /\ Holds(s, f, <<>>, f)
  BY <1>2, <1>4, QuietAtEnd, NothingHeld DEF FrameStep
<1>6. At(s, m, f, fed', crowded', buffer', json_len', pc', out')
  BY <1>1, <1>2, <1>3, <1>4, <1>5, ForkliftAt DEF FrameStep
<1> QED
  BY <1>1, <1>2, <1>6, StepKeeps DEF FrameStep

LEMMA PartOfFrameKeeps == FramingInv /\ PartOfFrame => FramingInv'
<1> SUFFICES ASSUME FramingInv, PartOfFrame PROVE FramingInv'
  OBVIOUS
<1>1. /\ pc = "loop" /\ stream.reader = "forklift" /\ stream.reader # "client"
      /\ UNCHANGED <<stream, fed, crowded, json_len>>
      /\ Find(STAR) >= 0 /\ Find(HASH) = -1
      /\ buffer' = RemoveFront(buffer, Find(STAR)) /\ pc' = "read" /\ out' = out
  BY DEF PartOfFrame, Protocol
<1>2. PICK s \in Stream, k, c, f \in Nat : FrameStep(s, k, c, f)
  BY <1>1, FrameStepIs
<1>3. IsForklift(s)
  BY <1>1, <1>2 DEF FrameStep, IsForklift
<1>4. PICK m, e \in Nat :
        /\ m \in 0..Parts(s) /\ k <= m /\ Stands(s, m, e) /\ Says(s, m) = Says(s, k)
        /\ e = c + Find(STAR) /\ Holds(s, f, RemoveFront(buffer, Find(STAR)), e)
  BY <1>1, <1>2, StarFound
<1>5. Without(s, HASH, c, f)
  <2>1. ~(Find(HASH) \in Nat)
    BY <1>1
  <2> QED
    BY <1>2, <2>1, Found DEF FrameStep
<1>6. Quiet(s, m, f)
  BY <1>2, <1>4, <1>5, QuietWithoutHash DEF FrameStep
<1>7. At(s, m, e, fed', crowded', buffer', json_len', pc', out')
  BY <1>1, <1>2, <1>3, <1>4, <1>6, ForkliftAt DEF FrameStep
<1> QED
  BY <1>1, <1>2, <1>7, StepKeeps DEF FrameStep

\* A session goes back to read with 12 bytes or less.
LEMMA GoesOrQuiet ==
    ASSUME NEW s \in Stream, ~IsClient(s), IsForklift(s), NEW m, NEW e \in Nat,
           Stands(s, m, e), NEW f, NEW b, Holds(s, f, b, e), ~Goes(b)
    PROVE  Quiet(s, m, f)
<1>1. /\ f \in 0..Size(s) /\ Size(s) \in Nat /\ Len(b) \in Nat /\ e + Len(b) = f
      /\ Len(b) <= 12
  BY NumbersAre DEF Holds, Goes
<1>2. f \in Nat /\ f <= e + 12
  BY <1>1
<1> QED
  BY <1>2, QuietWhenShort

LEMMA HashFirstKeeps == FramingInv /\ HashFirst => FramingInv'
<1> SUFFICES ASSUME FramingInv, HashFirst PROVE FramingInv'
  OBVIOUS
<1>1. /\ pc = "loop" /\ stream.reader = "forklift" /\ stream.reader # "client"
      /\ UNCHANGED <<stream, fed, crowded, json_len>>
      /\ Find(STAR) >= 0
      /\ buffer' = RemoveFront(buffer, Find(STAR)) /\ out' = out
      /\ pc' = IF Goes(buffer') THEN "loop" ELSE "read"
  BY DEF HashFirst, Protocol
<1>2. PICK s \in Stream, k, c, f \in Nat : FrameStep(s, k, c, f)
  BY <1>1, FrameStepIs
<1>3. IsForklift(s)
  BY <1>1, <1>2 DEF FrameStep, IsForklift
<1>4. PICK m, e \in Nat :
        /\ m \in 0..Parts(s) /\ k <= m /\ Stands(s, m, e) /\ Says(s, m) = Says(s, k)
        /\ e = c + Find(STAR) /\ Holds(s, f, RemoveFront(buffer, Find(STAR)), e)
  BY <1>1, <1>2, StarFound
<1>5. pc' = "read" => ~Goes(buffer')
  BY <1>1
<1>6. ~IsClient(s) /\ Holds(s, f, buffer', e)
  BY <1>1, <1>2, <1>4 DEF FrameStep
<1>7. pc' = "read" => Quiet(s, m, f)
  BY <1>3, <1>4, <1>5, <1>6, GoesOrQuiet
<1>8. At(s, m, e, fed', crowded', buffer', json_len', pc', out')
  BY <1>1, <1>2, <1>3, <1>4, <1>6, <1>7, ForkliftAt DEF FrameStep
<1> QED
  BY <1>1, <1>2, <1>8, StepKeeps DEF FrameStep

LEMMA TakeFrameKeeps == FramingInv /\ TakeFrame => FramingInv'
<1> SUFFICES ASSUME FramingInv, TakeFrame PROVE FramingInv'
  OBVIOUS
<1>1. /\ pc = "loop" /\ stream.reader = "forklift" /\ stream.reader # "client"
      /\ UNCHANGED <<stream, fed, crowded, json_len>>
      /\ Find(STAR) >= 0 /\ Find(HASH) > Find(STAR) + 1
      /\ buffer' = RemoveFront(buffer, Find(HASH) + 1)
      /\ out' = IF GoodFrame(FrameData) THEN Append(out, FrameData) ELSE out
      /\ pc' = IF Goes(buffer') THEN "loop" ELSE "read"
  BY DEF TakeFrame, Protocol
<1>2. PICK s \in Stream, k, c, f \in Nat : FrameStep(s, k, c, f)
  BY <1>1, FrameStepIs
<1>3. IsForklift(s) /\ s.reader = "forklift"
  BY <1>1, <1>2 DEF FrameStep, IsForklift
<1>4. PICK j, e \in Nat :
        /\ k < j /\ Stands(s, j, e) /\ Holds(s, f, RemoveFront(buffer, Find(HASH) + 1), e)
        /\ Says(s, j) = Added(s, k, FrameData)
  BY <1>1, <1>2, FrameGone
<1>5. out' = Says(s, j)
  <2>1. PICK d : d = FrameData
    OBVIOUS
  <2>2. GoodFrame(d) => d # <<>>
    BY DEF GoodFrame
  <2>3. MessageIn(d, s.reader) = IF GoodFrame(d) THEN d ELSE <<>>
    BY <1>3 DEF MessageIn
  <2>4. out = Says(s, k)
    BY <1>2 DEF FrameStep
  <2> QED
    BY <1>1, <1>4, <2>1, <2>2, <2>3, <2>4 DEF Added
<1>6. ~IsClient(s) /\ Holds(s, f, buffer', e)
  BY <1>1, <1>2, <1>4 DEF FrameStep
<1>7. pc' = "read" => Quiet(s, j, f)
  <2>1. pc' = "read" => ~Goes(buffer')
    BY <1>1
  <2> QED
    BY <1>3, <1>4, <1>6, <2>1, GoesOrQuiet
<1>8. At(s, j, e, fed', crowded', buffer', json_len', pc', out')
  BY <1>1, <1>2, <1>3, <1>4, <1>5, <1>6, <1>7, ForkliftAt DEF FrameStep
<1> QED
  BY <1>1, <1>2, <1>8, StepKeeps DEF FrameStep

-----------------------------------------------------------------------------
(* The steps of the connection to the WMS *)

LEMMA WmsAt ==
    ASSUME NEW s \in Stream, ~IsClient(s), ~IsForklift(s), NEW k, NEW c, NEW f, NEW cr, NEW b,
           NEW len, NEW o, Holds(s, f, b, c), Stands(s, k, c), o = Says(s, k),
           cr \/ NoHash(s, k, f)
    PROVE  At(s, k, c, f, cr, b, len, "read", o)
<1>1. ~cr => Wms(s, k, f, "read")
  BY DEF Wms
<1> QED
  BY <1>1 DEF At

\* What is behind a * that comes before any #, or with at most one # up to it.
LEMMA WmsLeft ==
    ASSUME NEW s \in Stream, ~IsClient(s), NEW k \in Nat, NEW c \in Nat, NEW f \in Nat,
           f <= Size(s), Holds(s, f, buffer, c), Stands(s, k, c), OneHash(s, k, f),
           NEW m \in Nat, NEW e \in Nat, k <= m, Stands(s, m, e), e = c + Find(STAR),
           c <= e, e < f, ByteAt(s, e + 1) = STAR, Without(s, STAR, c, e),
           ~(Find(HASH) > Find(STAR) + 1)
    PROVE  NoHash(s, m, f)
<1>1. PICK a \in Nat : a = e + 1
  OBVIOUS
<1>2. c < a /\ a <= f /\ a - 1 = e
  BY <1>1
<1>3. Without(s, HASH, c, f) \/ HashUpTo(s, c, a, f)
  <2>1. CASE Find(HASH) = -1 /\ Without(s, HASH, c, f)
    BY <2>1
  <2>2. CASE /\ Find(HASH) \in Nat /\ c + Find(HASH) < f
             /\ ByteAt(s, c + Find(HASH) + 1) = HASH
    <3>1. PICK r \in Nat, h \in Nat : r = Find(HASH) /\ h = c + r + 1
      BY <2>2
    <3>2. PICK z \in Int : z = Find(STAR)
      <4>1. Find(STAR) = -1 \/ Find(STAR) \in Nat
        BY Found
      <4> QED
        BY <4>1
    <3>3. ~(r > z + 1) /\ e = c + z /\ c + r < f
      BY <2>2, <3>1, <3>2
    <3>4. h \in (c + 1)..(a + 1) /\ h <= f
      BY <1>1, <3>1, <3>3
    <3>5. ByteAt(s, h) = HASH
      BY <2>2, <3>1
    <3> QED
      BY <3>4, <3>5 DEF HashUpTo
  <2> QED
    BY <2>1, <2>2, Found
<1>4. ASSUME NEW i \in 1..Parts(s), m < i, Ends(s, i) <= f, HasHash(s, i)
      PROVE  FALSE
  <2>1. ByteAt(s, a) = STAR /\ Without(s, STAR, c, a - 1) /\ Stands(s, m, a - 1)
    BY <1>1, <1>2
  <2> QED
    BY <1>2, <1>3, <1>4, <2>1, HashBeforeStar
<1> QED
  BY <1>4 DEF NoHash

LEMMA MsgProcessKeeps == FramingInv /\ MsgProcess => FramingInv'
<1> SUFFICES ASSUME FramingInv, MsgProcess PROVE FramingInv'
  OBVIOUS
<1>1. /\ pc = "loop" /\ stream.reader = "wms" /\ stream.reader # "client" /\ pc' = "read"
      /\ UNCHANGED <<stream, fed, crowded, json_len>>
      /\ \/ Find(STAR) = -1 /\ buffer' = <<>> /\ out' = out
         \/ Find(STAR) >= 0 /\ Find(HASH) > Find(STAR) + 1 /\ TakeTask
         \/ /\ Find(STAR) # -1 /\ ~(Find(STAR) >= 0 /\ Find(HASH) > Find(STAR) + 1)
            /\ buffer' = RemoveFront(buffer, Find(STAR)) /\ out' = out
  BY DEF MsgProcess
<1>2. PICK s \in Stream, k, c, f \in Nat : FrameStep(s, k, c, f)
  BY <1>1, FrameStepIs
<1>3. ~IsForklift(s) /\ s.reader = "wms" /\ ~IsClient(s) /\ s.reader # "forklift"
  BY <1>1, <1>2 DEF FrameStep, IsForklift
<1>4. crowded' \/ OneHash(s, k, f)
  <2>1. At(s, k, c, f, crowded, buffer, json_len, pc, out) /\ crowded' = crowded
    BY <1>2 DEF FrameStep
  <2> QED
    BY <1>1, <1>3, <2>1 DEF At, Wms
<1>5. ASSUME NEW m, NEW e, Holds(s, f, buffer', e), Stands(s, m, e), out' = Says(s, m),
             crowded' \/ NoHash(s, m, f)
      PROVE  FramingInv'
  <2>1. At(s, m, e, f, crowded', buffer', json_len', "read", out')
    BY <1>3, <1>5, WmsAt
  <2>2. At(s, m, e, fed', crowded', buffer', json_len', pc', out')
    BY <1>1, <1>2, <2>1 DEF FrameStep
  <2> QED
    BY <1>1, <1>2, <2>2, StepKeeps DEF FrameStep
<1>6. CASE Find(STAR) = -1 /\ buffer' = <<>> /\ out' = out
  <2>1. PICK m \in 0..Parts(s) : Stands(s, m, f) /\ Says(s, m) = Says(s, k)
    BY <1>2, <1>6, NoStarFound
  <2>2. NoHash(s, m, f) /\ Holds(s, f, <<>>, f)
    BY <1>2, <2>1, QuietAtEnd, NothingHeld DEF FrameStep
  <2>3. Holds(s, f, buffer', f) /\ out' = Says(s, m)
    BY <1>2, <1>6, <2>1, <2>2 DEF FrameStep
  <2> QED
    BY <1>5, <2>1, <2>2, <2>3
<1>7. CASE Find(STAR) >= 0 /\ Find(HASH) > Find(STAR) + 1 /\ TakeTask
  <2>1. PICK j, e \in Nat :
          /\ j \in 1..Parts(s) /\ IsMarked(s, j) /\ Ends(s, j) <= f
          /\ k < j /\ Stands(s, j, e) /\ Holds(s, f, RemoveFront(buffer, Find(HASH) + 1), e)
          /\ Says(s, j) = Added(s, k, FrameData) /\ FrameData \in Seq(Byte)
    BY <1>2, <1>7, FrameGone
  <2>2. PICK d : d = FrameData
    OBVIOUS
  <2>3. /\ out' = IF GoodTask(d) THEN Append(out, SubSeq(d, 5, Len(d))) ELSE out
        /\ buffer' = RemoveFront(buffer, Find(HASH) + 1)
    BY <1>7, <2>2 DEF TakeTask
  <2>4. out' = Says(s, j)
    <3>1. GoodTask(d) => SubSeq(d, 5, Len(d)) # <<>>
      <4>1. ASSUME NEW b \in Seq(Byte), Len(b) > 4
            PROVE  SubSeq(b, 5, Len(b)) # <<>>
        <5>1. 5 \in Nat \ {0} /\ Len(b) \in Int /\ Len(b) <= Len(b) /\ 5 <= Len(b)
          BY <4>1
        <5>2. /\ SubSeq(b, 5, Len(b)) \in Seq(Byte)
              /\ Len(SubSeq(b, 5, Len(b))) = Len(b) - 5 + 1
          BY <5>1, PieceIs
        <5>3. \A n \in Int : 5 <= n => n - 5 + 1 # 0
          OBVIOUS
        <5>4. Len(b) - 5 + 1 # 0
          BY <5>1, <5>3
        <5>5. <<>> \in Seq(Byte) /\ Len(<<>>) = 0
          OBVIOUS
        <5> QED
          BY <5>2, <5>4, <5>5
      <4> QED
        BY <2>1, <2>2, <4>1 DEF GoodTask
    <3>2. MessageIn(d, s.reader) = IF GoodTask(d) THEN SubSeq(d, 5, Len(d)) ELSE <<>>
      BY <1>3 DEF MessageIn
    <3>3. out = Says(s, k)
      BY <1>2 DEF FrameStep
    <3> QED
      BY <2>1, <2>2, <2>3, <3>1, <3>2, <3>3 DEF Added
  <2>5. crowded' \/ NoHash(s, j, f)
    BY <1>3, <1>4, <2>1, NoHashLeft
  <2>6. Holds(s, f, buffer', e)
    BY <2>1, <2>3
  <2> QED
    BY <1>5, <2>1, <2>4, <2>5, <2>6
<1>8. CASE /\ Find(STAR) # -1 /\ ~(Find(STAR) >= 0 /\ Find(HASH) > Find(STAR) + 1)
           /\ buffer' = RemoveFront(buffer, Find(STAR)) /\ out' = out
  <2>1. Find(STAR) >= 0 /\ ~(Find(HASH) > Find(STAR) + 1)
    <3>1. buffer \in Seq(Byte)
      BY <1>2 DEF FrameStep
    <3>2. Find(STAR) \in Nat
      BY <1>8, <3>1, FindIs
    <3> QED
      BY <1>8, <3>2
  <2>2. PICK m, e \in Nat :
          /\ m \in 0..Parts(s) /\ k <= m /\ Stands(s, m, e) /\ Says(s, m) = Says(s, k)
          /\ e = c + Find(STAR) /\ Holds(s, f, RemoveFront(buffer, Find(STAR)), e)
          /\ e < f /\ c <= e /\ ByteAt(s, e + 1) = STAR /\ Without(s, STAR, c, e)
    BY <1>2, <2>1, StarFound
  <2>3. crowded' \/ NoHash(s, m, f)
    BY <1>2, <1>3, <1>4, <2>1, <2>2, WmsLeft DEF FrameStep
  <2>4. Holds(s, f, buffer', e) /\ out' = Says(s, m)
    BY <1>2, <1>8, <2>2 DEF FrameStep
  <2> QED
    BY <1>5, <2>2, <2>3, <2>4
<1> QED
  BY <1>1, <1>6, <1>7, <1>8

-----------------------------------------------------------------------------
(* A read *)

\* The bytes that a read brings follow those in the buffer.
Brought(s, f, b, n, v) ==
    f + n <= Len(Bytes[s]) /\ v = b \o SubSeq(Bytes[s], f + 1, f + n)

LEMMA ReadHolds ==
    ASSUME NEW s \in Stream, NEW f \in Nat, NEW b, NEW c, Holds(s, f, b, c),
           NEW n \in Nat \ {0}, NEW v, Brought(s, f, b, n, v)
    PROVE  /\ Holds(s, f + n, v, c) /\ v # <<>>
           /\ b # <<>> => v[1] = b[1]
<1>1. PICK g \in Seq(Byte) : g = Bytes[s]
  BY EndsAre
<1>1a. f + n <= Len(g) /\ v = b \o SubSeq(g, f + 1, f + n)
  BY <1>1, Zenon DEF Brought
<1>2. /\ b \in Seq(Byte) /\ Len(b) \in Nat /\ c \in Nat /\ c + Len(b) = f
      /\ \A x \in 1..Len(b) : b[x] = ByteAt(s, c + x)
  BY DEF Holds
<1>3. PICK u : u = SubSeq(g, f + 1, f + n)
  OBVIOUS
<1>4. u \in Seq(Byte) /\ Len(u) = n /\ \A x \in 1..n : u[x] = g[f + x]
  <2>1. f + 1 \in Nat \ {0} /\ f + n \in Int /\ f + n <= Len(g) /\ f + 1 <= f + n
    BY <1>1, <1>1a
  <2>2. /\ u \in Seq(Byte)
        /\ Len(u) = IF f + 1 <= f + n THEN f + n - (f + 1) + 1 ELSE 0
        /\ \A x \in 1..(f + n - (f + 1) + 1) : u[x] = g[f + 1 + x - 1]
    BY <1>3, <2>1, PieceIs
  <2>3. f + n - (f + 1) + 1 = n /\ \A x \in 1..n : f + 1 + x - 1 = f + x
    OBVIOUS
  <2> QED
    BY <2>1, <2>2, <2>3
<1>5. v = b \o u
  BY <1>1a, <1>3
<1>6. /\ v \in Seq(Byte) /\ Len(v) = Len(b) + n
      /\ \A x \in 1..Len(b) : v[x] = b[x]
      /\ \A x \in 1..n : v[Len(b) + x] = u[x]
  <2>1. ASSUME NEW d \in Seq(Byte), NEW e \in Seq(Byte)
        PROVE  /\ d \o e \in Seq(Byte) /\ Len(d \o e) = Len(d) + Len(e)
               /\ \A x \in 1..Len(d) : (d \o e)[x] = d[x]
               /\ \A x \in 1..Len(e) : (d \o e)[Len(d) + x] = e[x]
    OBVIOUS
  <2> QED
    BY <1>2, <1>4, <1>5, <2>1
<1>7. PICK l \in Nat : l = Len(b)
  BY <1>2
<1>8. Size(s) \in Nat /\ f + n <= Size(s)
  BY <1>1, <1>1a, NumbersAre DEF Size
<1>9. /\ f + n \in 0..Size(s) /\ c + (l + n) = f + n /\ c + l = f
  <2>1. c \in Nat /\ c + l = f
    BY <1>2, <1>7
  <2> QED
    BY <1>8, <2>1
<1>10. ASSUME NEW x \in 1..(l + n)
       PROVE  v[x] = ByteAt(s, c + x)
  <2>1. CASE x <= l
    BY <1>2, <1>6, <1>7, <2>1
  <2>2. CASE ~(x <= l)
    <3>1. PICK y \in 1..n : y = x - l
      BY <2>2
    <3>2. x = l + y /\ f + y = c + x
      BY <1>2, <1>9, <3>1
    <3>3. v[x] = g[f + y]
      BY <1>4, <1>6, <1>7, <3>1, <3>2
    <3> QED
      BY <1>1, <3>2, <3>3 DEF ByteAt
  <2> QED
    BY <2>1, <2>2
<1>11. Holds(s, f + n, v, c)
  BY <1>2, <1>6, <1>7, <1>9, <1>10 DEF Holds
<1>12. v # <<>>
  <2>1. v \in Seq(Byte) /\ Len(v) = l + n /\ l + n # 0
    BY <1>6, <1>7
  <2>2. Len(<<>>) = 0
    OBVIOUS
  <2> QED
    BY <2>1, <2>2
<1>13. b # <<>> => v[1] = b[1]
  <2>1. b # <<>> => 1 \in 1..Len(b)
    BY <1>2
  <2> QED
    BY <1>6, <2>1
<1> QED
  BY <1>6, <1>11, <1>12, <1>13

\* A set that does not have two elements.
LEMMA AtMostOne ==
    ASSUME NEW n \in Nat, NEW S \in SUBSET (1..n), ~(Cardinality(S) > 1),
           NEW i \in S, NEW j \in S
    PROVE  i = j
<1>1. IsFiniteSet(1..n)
  BY FS_Interval
<1>2. IsFiniteSet(S)
  BY <1>1, FS_Subset
<1>3. SUFFICES ASSUME i # j PROVE FALSE
  OBVIOUS
<1>4. {i, j} \in SUBSET S /\ IsFiniteSet({i}) /\ j \notin {i} /\ {i, j} = {i} \cup {j}
  BY <1>3, FS_Singleton
<1>5. Cardinality({i}) = 1
  BY FS_Singleton
<1>6. Cardinality({i} \cup {j}) = Cardinality({i}) + 1
  BY <1>4, FS_AddElement
<1>7. Cardinality({i, j}) <= Cardinality(S)
  BY <1>2, <1>4, FS_Subset
<1>8. Cardinality(S) \in Nat
  BY <1>2, FS_CardinalityType
<1> QED
  BY <1>4, <1>5, <1>6, <1>7, <1>8

\* A read that ends one part leaves one with a # to be looked for.
LEMMA OneHashCame ==
    ASSUME NEW s \in Stream, s = stream, NEW k \in Nat, NEW f \in Nat, NEW g \in Nat,
           NoHash(s, k, f), ~(Cardinality(Ended(f, g)) > 1)
    PROVE  OneHash(s, k, g)
<1>1. PICK n \in Nat : n = Len(s.parts) /\ DOMAIN s.parts = 1..n /\ n = Parts(s)
  BY FirstsAre DEF Parts
<1>2. Ended(f, g) \in SUBSET (1..n)
  BY <1>1 DEF Ended
<1>3. ASSUME NEW i \in 1..Parts(s), k < i, Ends(s, i) <= g, HasHash(s, i)
      PROVE  i \in Ended(f, g)
  <2>1. Ends(s, i) \in Nat
    BY NumbersAre
  <2>2. ~(Ends(s, i) <= f)
    BY <1>3 DEF NoHash
  <2>3. Ends(s, i) \in (f + 1)..g
    BY <1>3, <2>1, <2>2
  <2> QED
    BY <1>1, <2>3 DEF Ended, Ends
<1>4. ASSUME NEW i \in 1..Parts(s), NEW j \in 1..Parts(s),
             k < i, Ends(s, i) <= g, HasHash(s, i), k < j, Ends(s, j) <= g, HasHash(s, j)
      PROVE  i = j
  <2>1. i \in Ended(f, g) /\ j \in Ended(f, g)
    BY <1>3, <1>4
  <2> QED
    BY <1>2, <2>1, AtMostOne
<1> QED
  BY <1>4 DEF OneHash

\* A packet of which not even the bytes of its request have come.
LEMMA StillOnPacket ==
    ASSUME NEW s \in Stream, NEW k, NEW c, NEW f, NEW len \in Int, OnPacket(s, k, c, f, len),
           NEW g, NEW v, Holds(s, g, v, c), Len(v) <= len
    PROVE  OnPacket(s, k, c, g, len)
<1>1. c \in Nat /\ Len(v) \in Nat /\ c + Len(v) = g
  BY DEF Holds
<1>2. Ends(s, k + 1) = c + len + 5
  BY DEF OnPacket
<1>3. g < c + len + 5
  BY <1>1
<1> QED
  BY <1>2, <1>3 DEF OnPacket

LEMMA ReadKeeps == FramingInv /\ Read => FramingInv'
<1> SUFFICES ASSUME FramingInv, Read PROVE FramingInv'
  OBVIOUS
<1>1. PICK s \in Stream, k, c \in Nat, f \in Nat :
        /\ s = stream /\ f = fed /\ k \in 0..Parts(s)
        /\ Holds(s, f, buffer, c) /\ Stands(s, k, c) /\ out = Says(s, k)
        /\ c <= f /\ f <= Size(s) /\ buffer \in Seq(Byte)
        /\ At(s, k, c, f, crowded, buffer, json_len, pc, out)
  BY NowIs
<1>2. PICK n \in 1..MSG_READ_BUFFER_LENGTH :
        /\ fed + n <= Len(Bytes[stream]) /\ fed' = fed + n
        /\ buffer' = buffer \o SubSeq(Bytes[stream], fed + 1, fed + n)
  BY Zenon DEF Read
<1>3. /\ pc = "read" /\ pc' = IF Incomplete(buffer') THEN "read" ELSE "loop"
      /\ crowded' = (crowded \/ Cardinality(Ended(fed, fed')) > 1)
      /\ stream' = stream /\ json_len' = json_len /\ out' = out
  BY DEF Read
<1>4. n \in Nat \ {0} /\ MSG_READ_BUFFER_LENGTH \in Nat
  BY StreamAssumption
<1>5. PICK g \in Nat : g = f + n
  BY <1>4
<1>6. PICK v : v = buffer'
  OBVIOUS
<1>7. Brought(s, f, buffer, n, v) /\ fed' = g
  BY <1>1, <1>2, <1>5, <1>6, Zenon DEF Brought
<1>8. Holds(s, g, v, c) /\ v # <<>> /\ (buffer # <<>> => v[1] = buffer[1])
  <2>1. s \in Stream /\ f \in Nat /\ Holds(s, f, buffer, c) /\ n \in Nat \ {0}
    BY <1>1, <1>4
  <2>2. /\ Holds(s, f + n, v, c) /\ v # <<>>
        /\ (buffer # <<>> => v[1] = buffer[1])
    BY <1>7, <2>1, ReadHolds
  <2> QED
    BY <1>5, <2>2
<1>9. json_len' \in Int /\ crowded' \in BOOLEAN /\ pc' \in {"read", "loop"} /\ json_len \in Int
  <2>1. crowded' \in BOOLEAN
    BY <1>3, Zenon
  <2>2. json_len \in Int
    BY DEF FramingInv
  <2> QED
    BY <1>3, <2>1, <2>2
<1>10. IsClient(s) => ClientWaits(s, k, c, g, v, json_len, pc')
  <2> SUFFICES ASSUME IsClient(s) PROVE ClientWaits(s, k, c, g, v, json_len, pc')
    OBVIOUS
  <2>1. ClientWaits(s, k, c, f, buffer, json_len, pc)
    BY <1>1 DEF At
  <2>2. json_len # 0 => v # <<>> /\ v[1] = HEAD
    BY <1>8, <2>1 DEF ClientWaits
  <2>3. ASSUME pc' = "read"
        PROVE  json_len > 0 /\ OnPacket(s, k, c, g, json_len)
    <3>1. Len(v) <= json_len
      BY <1>3, <1>6, <2>3 DEF Incomplete
    <3>2. Len(v) \in Nat /\ Len(v) # 0
      <4>1. v \in Seq(Byte)
        BY <1>8 DEF Holds
      <4> QED
        BY <1>8, <4>1
    <3>3. json_len > 0 /\ json_len # 0
      BY <1>9, <3>1, <3>2
    <3>4. OnPacket(s, k, c, f, json_len)
      BY <1>3, <2>1, <3>3 DEF ClientWaits
    <3> QED
      BY <1>8, <1>9, <3>1, <3>3, <3>4, StillOnPacket
  <2>4. pc' = "read" => json_len # 0
    BY <1>9, <2>3
  <2> QED
    BY <2>2, <2>3, <2>4 DEF ClientWaits
<1>11. ~IsClient(s) => pc' = "loop"
  BY <1>1, <1>3 DEF Incomplete, IsClient
<1>12. IsForklift(s) => ~IsClient(s)
  BY DEF IsForklift, IsClient
<1>13. ~IsClient(s) /\ ~IsForklift(s) /\ ~crowded' => Wms(s, k, g, pc')
  <2> SUFFICES ASSUME ~IsClient(s), ~IsForklift(s), ~crowded'
               PROVE  Wms(s, k, g, pc')
    OBVIOUS
  <2>1. ~crowded /\ ~(Cardinality(Ended(f, g)) > 1)
    BY <1>1, <1>3, <1>7, Zenon
  <2>2. Wms(s, k, f, pc)
    BY <1>1, <2>1 DEF At
  <2>3. NoHash(s, k, f)
    BY <1>3, <2>2 DEF Wms
  <2>4. OneHash(s, k, g)
    BY <1>1, <2>1, <2>3, OneHashCame
  <2> QED
    BY <1>11, <2>4 DEF Wms
<1>14. pc' = "loop" => pc' # "read"
  OBVIOUS
<1>15. Stands(s, k, c) /\ out' = Says(s, k)
  BY <1>1, <1>3
<1>16. At(s, k, c, g, crowded', v, json_len, pc', out')
  BY <1>8, <1>10, <1>11, <1>12, <1>13, <1>14, <1>15, Zenon DEF At
<1>17. At(s, k, c, fed', crowded', buffer', json_len', pc', out')
  BY <1>3, <1>6, <1>7, <1>16
<1> QED
  BY <1>1, <1>3, <1>9, <1>17, StepKeeps

LEMMA FramesKept == FramingInv /\ [FramesNext]_frameVars => FramingInv'
<1> SUFFICES ASSUME FramingInv, [FramesNext]_frameVars PROVE FramingInv'
  OBVIOUS
<1>1. CASE Read
  BY <1>1, ReadKeeps
<1>2. CASE NoHead
  BY <1>2, NoHeadKeeps
<1>3. CASE EmptyPacket
  BY <1>3, EmptyPacketKeeps
<1>4. CASE WholePacket
  BY <1>4, WholePacketKeeps
<1>5. CASE PartOfPacket
  BY <1>5, PartOfPacketKeeps
<1>6. CASE PartOfHead
  BY <1>6, PartOfHeadKeeps
<1>7. CASE NoStar
  BY <1>7, NoStarKeeps
<1>8. CASE PartOfFrame
  BY <1>8, PartOfFrameKeeps
<1>9. CASE HashFirst
  BY <1>9, HashFirstKeeps
<1>10. CASE TakeFrame
  BY <1>10, TakeFrameKeeps
<1>11. CASE MsgProcess
  BY <1>11, MsgProcessKeeps
<1>12. CASE UNCHANGED frameVars
  BY <1>12 DEF FramingInv, frameVars
<1> QED
  BY <1>1, <1>2, <1>3, <1>4, <1>5, <1>6, <1>7, <1>8, <1>9, <1>10, <1>11, <1>12
     DEF FramesNext, Process, AllRead

\* The buffer of a session holds the rest of the stream from where it has read,
\* and what was handed on are the messages up to there.
THEOREM FramingInvariant == FramesSpec => []FramingInv
<1>1. FramesInit => FramingInv
  BY FramesBegin
<1>2. FramingInv /\ [FramesNext]_frameVars => FramingInv'
  BY FramesKept
<1> QED
  BY <1>1, <1>2, PTL DEF FramesSpec

\* The stream, the buffer, the length that is waited for and what was handed on
\* have their types in every reachable state.
THEOREM FramingTypeCorrect == FramesSpec => []FramingTypes
BY FramingInvariant, TypesFollow, PTL

\* However TCP cuts a stream, of any packets or frames with any junk between
\* them: when a session goes back to read, exactly the messages that have wholly
\* come were handed on, once each and in order.
THEOREM HandsOnWhatCameAlways == FramesSpec => []HandsOnWhatCame
BY FramingInvariant, FramesHandOn, PTL
=============================================================================
