------------------------------- MODULE Clients -------------------------------
(***************************************************************************)
(* Clients and what they ask for: sessions (tcpsession.cpp,                *)
(* websocketsession.cpp, sessionmanager.cpp), requests (msgprocess.cpp),   *)
(* users (usermanager.cpp), vehicles (Registry) and the publishers of what *)
(* clients have subscribed.  A session has a reading thread, which hands   *)
(* each request to the pool: the requests of a client run at the same time *)
(* and in any order.  No lock is held anywhere, see common.h:37.           *)
(*                                                                         *)
(* A statement on the database, a walk over the sessions and one over a    *)
(* list of subscribers are single steps, and a job sets the fields of its  *)
(* session in one.  Passwords and the user log are left out.               *)
(***************************************************************************)
EXTENDS Integers, Registry, SequencesExt

CONSTANTS
    Client,         \* connections
    Web,            \* those by websocket
    Topic,          \* lists of subscribers
    Positions,      \* those that are sent where the vehicles are
    Name,           \* of users
    Agendas,        \* records [in, asks]: the users that are logged in when it
                    \* begins, or 0, and the requests that may come
    MaxAsks         \* bound: requests

ASSUME ClientsAssumption ==
    /\ IsFiniteSet(Client) /\ Web \subseteq Client /\ MaxAsks \in Nat
    /\ Positions \subseteq Topic
    /\ {"", "ann", "bob"} \subseteq Name

\* processOneMsg's table, and what the handlers read of a request, or what the
\* statement makes of it.
Kinds == {"login", "logout", "password", "remove", "add", "modify", "sub", "unsub",
          "newAgv", "deleteAgv"}
Rewriting == {"modify", "password"}
ASSUME AgendasAssumption ==
    \A a \in Agendas :
        /\ a.in \in [Client -> 0..2]
        /\ \A r \in a.asks :
             /\ r.todo \in Kinds
             /\ r.todo \in {"login", "add"} \cup Rewriting => r.name \in Name
             /\ r.todo \in {"add"} \cup Rewriting => r.role \in Int
             /\ r.todo \in {"sub", "unsub"} => r.topic \in Topic

Job == 1..MaxAsks
USER_ROLE_VISITOR == 0
USER_ROLE_ADMIN == 2
\* The users that there are when it begins.
Names == <<"ann", "bob">>
FirstUsers == {[id |-> 1, name |-> Names[1], role |-> USER_ROLE_ADMIN],
               [id |-> 2, name |-> Names[2], role |-> 1]}
Nobody == [id |-> 0, name |-> "", role |-> USER_ROLE_VISITOR]

VARIABLES
    agenda,
    users, lastUserId,  \* agv_user
    who,            \* of a session: user_id, username and user_role
    sock,           \* its socket, none, open or closed by the program
    peer,           \* the client at its other end: here or gone
    reader,         \* its reading thread: none, reading, ending, over
    registered,     \* _mapSessionPtr
    subers,         \* the lists of subscribers
    asks,           \* what has been asked for: <<[c, request], ...>>
    at, got,        \* where each request is, and what it has read
    publishing,     \* the lists whose publisher still runs
    heard,          \* history: whom the last round reached
    subscribed,     \* history: those that count on hearing what is published
    atOnce, late,   \* history: subscribed and cancelled at once; asked when they left
    removed, raced  \* history: users that are removed; that came in meanwhile

sessionVars == <<who, sock, peer, reader, registered>>
pubVars == <<publishing, heard>>
userVars == <<users, lastUserId>>
subVars == <<subers, subscribed, atOnce>>
outVars == <<removed, raced>>
vars == <<agenda, userVars, sessionVars, subVars, asks, at, got, pubVars, late,
          outVars, registryVars>>

Init ==
    /\ agenda \in Agendas
    /\ users = FirstUsers /\ lastUserId = 2
    /\ who = [c \in Client |->
                IF agenda.in[c] = 0 THEN Nobody
                ELSE CHOOSE u \in FirstUsers : u.id = agenda.in[c]]
    /\ sock = [c \in Client |-> IF agenda.in[c] = 0 THEN "none" ELSE "open"]
    /\ peer = [c \in Client |-> "here"]
    /\ reader = [c \in Client |-> IF agenda.in[c] = 0 THEN "none" ELSE "reading"]
    /\ registered = {c \in Client : agenda.in[c] # 0}
    /\ subers = [t \in Topic |-> <<>>] /\ subscribed = [t \in Topic |-> {}]
    /\ asks = <<>> /\ at = [j \in Job |-> "none"] /\ got = [j \in Job |-> Nobody]
    /\ publishing = Topic /\ heard = [t \in Topic |-> {}]
    /\ atOnce = {} /\ late = {} /\ removed = {} /\ raced = {}
    /\ RegistryInit

Asked(j) == asks[j].request
Under(j) == at[j] \notin {"none", "done"}
JobsOf(c) == {j \in Job : Under(j) /\ asks[j].c = c}

\* write throws on a socket that is closed, and may when the client is gone; a
\* websocket ignores every error.
Throws(c) == c \notin Web /\ (sock[c] = "closed" \/ peer[c] = "gone")
Sends(c) == c \in Web \/ sock[c] = "open"
Reaches(c) == sock[c] = "open" /\ peer[c] = "here"

-----------------------------------------------------------------------------
(* Sessions *)

Connect(c) ==
    /\ sock[c] = "none" /\ peer[c] = "here"
    /\ registered' = registered \cup {c}
    /\ sock' = [sock EXCEPT ![c] = "open"]
    /\ reader' = [reader EXCEPT ![c] = "reading"]
    /\ UNCHANGED <<agenda, userVars, who, peer, subVars, asks, at, got, pubVars,
                   late, outVars, registryVars>>

\* The thread does not see that another one has closed the socket until it has
\* something to read; that is still handed on.
Ask(c) ==
    /\ reader[c] = "reading" /\ peer[c] = "here" /\ Len(asks) < MaxAsks
    /\ \E request \in agenda.asks :
         /\ asks' = Append(asks, [c |-> c, request |-> request])
         /\ subscribed' = [t \in Topic |->
                IF request.todo = "unsub" /\ request.topic = t
                THEN subscribed[t] \ {c} ELSE subscribed[t]]
         /\ atOnce' = IF /\ request.todo \in {"sub", "unsub"}
                         /\ \E j \in JobsOf(c) : Asked(j).todo \in {"sub", "unsub"}
                      THEN atOnce \cup {c} ELSE atOnce
    /\ at' = [at EXCEPT ![Len(asks')] = "queued"]
    /\ reader' = IF sock[c] = "closed" THEN [reader EXCEPT ![c] = "ending"] ELSE reader
    /\ UNCHANGED <<agenda, userVars, who, sock, peer, registered, subers, got,
                   pubVars, late, outVars, registryVars>>

Leave(c) ==
    /\ sock[c] # "none" /\ peer[c] = "here"
    /\ peer' = [peer EXCEPT ![c] = "gone"]
    /\ subscribed' = [t \in Topic |-> subscribed[t] \ {c}]
    /\ UNCHANGED <<agenda, userVars, who, sock, reader, registered, subers, atOnce,
                   asks, at, got, pubVars, late, outVars, registryVars>>

\* close() of a websocket ends its read.
ReadEnds(c) ==
    /\ reader[c] = "reading"
    /\ peer[c] = "gone" \/ (c \in Web /\ sock[c] = "closed")
    /\ reader' = [reader EXCEPT ![c] = "ending"]
    /\ UNCHANGED <<agenda, userVars, who, sock, peer, registered, subVars, asks, at,
                   got, pubVars, late, outVars, registryVars>>

\* removeSession; onSessionClosed takes the first entry out of each list.
\* Broken variant: the one in front, whoever's it is.
EraseFront(s, c) == IF c \in Range(s) THEN RemoveAt(s, 1) ELSE s
First(s, c) == CHOOSE i \in DOMAIN s : s[i] = c /\ \A k \in 1..(i - 1) : s[k] # c
EraseFirst(s, c) == IF c \in Range(s) THEN RemoveAt(s, First(s, c)) ELSE s
RemoveSession(c) ==
    /\ reader[c] = "ending"
    /\ reader' = [reader EXCEPT ![c] = "over"]
    /\ registered' = registered \ {c}
    /\ subers' = [t \in Topic |-> EraseFirst(subers[t], c)]
    /\ subscribed' = [t \in Topic |-> subscribed[t] \ {c}]
    /\ late' = IF JobsOf(c) # {} THEN late \cup {c} ELSE late
    /\ UNCHANGED <<agenda, userVars, who, sock, peer, atOnce, asks, at, got, pubVars,
                   outVars, registryVars>>

-----------------------------------------------------------------------------
(* Requests: processOneMsg and the handlers *)

Goto(j, l) == at' = [at EXCEPT ![j] = l] /\ UNCHANGED <<agenda, asks>>
On(j, todo) == at[j] = todo
Me(j) == who[asks[j].c]

Start(j) ==
    /\ at[j] = "queued"
    /\ Goto(j, IF Asked(j).todo = "login"
                  \/ (Me(j).id > 0 /\ Me(j).role > USER_ROLE_VISITOR)
               THEN Asked(j).todo ELSE "answer")
    /\ UNCHANGED <<userVars, sessionVars, subVars, got, pubVars, late, outVars,
                   registryVars>>

\* The answer; if it throws the rest of the handler is not done.
Then == [answer |-> "done", answerSub |-> "done", answerAndKick |-> "kick",
         answerAndKickUser |-> "kickUser"]
Answer(j) ==
    /\ at[j] \in DOMAIN Then
    /\ LET c == asks[j].c
           r == Asked(j)
       IN  \/ /\ Sends(c) /\ Goto(j, Then[at[j]])
              /\ subscribed' = [t \in Topic |->
                   IF at[j] = "answerSub" /\ r.topic = t /\ Reaches(c) /\ c \notin atOnce
                   THEN subscribed[t] \cup {c} ELSE subscribed[t]]
           \/ Throws(c) /\ Goto(j, "done") /\ UNCHANGED subscribed
    /\ UNCHANGED <<userVars, sessionVars, subers, atOnce, got, pubVars, late, outVars,
                   registryVars>>

\* interLogin: one row with that name; the password may be wrong.
Select(j) ==
    /\ On(j, "login")
    /\ \/ Goto(j, "answer") /\ UNCHANGED got
       \/ \E u \in users :
            /\ {v \in users : v.name = Asked(j).name} = {u}
            /\ got' = [got EXCEPT ![j] = u] /\ Goto(j, "set")
    /\ UNCHANGED <<userVars, sessionVars, subVars, pubVars, late, outVars, registryVars>>
SetUser(j) ==
    /\ On(j, "set") /\ Goto(j, "answer")
    /\ who' = [who EXCEPT ![asks[j].c] = got[j]]
    /\ raced' = IF got[j].id \in removed THEN raced \cup {asks[j].c} ELSE raced
    /\ UNCHANGED <<userVars, sock, peer, reader, registered, subVars, got, pubVars,
                   late, removed, registryVars>>

Logout(j) ==
    /\ On(j, "logout") /\ Goto(j, "answerAndKick")
    /\ who' = [who EXCEPT ![asks[j].c].id = 0]
    /\ UNCHANGED <<userVars, sock, peer, reader, registered, subVars, got, pubVars,
                   late, outVars, registryVars>>

\* The row of a user with the name and the role that come with request r.
Rewritten(id, r) ==
    {IF u.id = id THEN [u EXCEPT !.name = r.name, !.role = r.role] ELSE u : u \in users}

\* interChangePassword puts the new password into its statement as it is,
\* without quotes: the statement may be refused, set the password, or set other
\* fields of the row too.
ChangePassword(j) ==
    /\ On(j, "password") /\ Goto(j, "answerAndKick")
    /\ \/ UNCHANGED <<who, users>>
       \/ /\ who' = [who EXCEPT ![asks[j].c].id = 0]
          /\ users' \in {users, Rewritten(Me(j).id, Asked(j))}
    /\ UNCHANGED <<lastUserId, sock, peer, reader, registered, subVars, got, pubVars,
                   late, outVars, registryVars>>

Close(S) ==
    /\ sock' = [c \in Client |-> IF c \in S THEN "closed" ELSE sock[c]]
    /\ subscribed' = [t \in Topic |-> subscribed[t] \ S]
    /\ UNCHANGED <<who, peer, reader, registered, subers, atOnce>>
KickSession(j) ==
    /\ On(j, "kick") /\ Goto(j, "done")
    /\ Close({asks[j].c} \cap registered)
    /\ UNCHANGED <<userVars, got, pubVars, late, outVars, registryVars>>

\* interRemove
MayActOn(j, r) == Me(j).role >= USER_ROLE_ADMIN /\ Me(j).role >= r
MayRemove(j) ==
    /\ On(j, "remove")
    /\ Goto(j, IF \E u \in users : u.id = Asked(j).id /\ MayActOn(j, u.role)
               THEN "delete" ELSE "answer")
    /\ UNCHANGED <<userVars, sessionVars, subVars, got, pubVars, late, outVars,
                   registryVars>>
\* The statement may throw; then nobody is kicked.
Delete(j) ==
    /\ On(j, "delete")
    /\ \/ Goto(j, "answerAndKickUser") /\ users' = {u \in users : u.id # Asked(j).id}
       \/ Goto(j, "answer") /\ UNCHANGED users
    /\ UNCHANGED <<lastUserId, sessionVars, subVars, got, pubVars, late, outVars,
                   registryVars>>
\* Broken variant: only one of the user's sessions is closed.
OneSessionOf(u) ==
    LET S == {c \in registered : who[c].id = u}
    IN  IF S = {} THEN {} ELSE {CHOOSE c \in S : TRUE}
SessionsOf(u) == {c \in registered : who[c].id = u}
KickSessionByUserId(j) ==
    /\ On(j, "kickUser") /\ Goto(j, "done")
    /\ Close(SessionsOf(Asked(j).id))
    /\ removed' = removed \cup {Asked(j).id}
    /\ UNCHANGED <<userVars, got, pubVars, late, raced, registryVars>>

\* interAdd and interModify of users; their statements may be refused.
AddUser(j) ==
    /\ On(j, "add") /\ Goto(j, "answer")
    /\ \/ /\ MayActOn(j, Asked(j).role)
          /\ lastUserId' = lastUserId + 1
          /\ users' = users \cup {[id |-> lastUserId', name |-> Asked(j).name,
                                   role |-> Asked(j).role]}
       \/ UNCHANGED userVars
    /\ UNCHANGED <<sessionVars, subVars, got, pubVars, late, outVars, registryVars>>
ModifyUser(j) ==
    /\ On(j, "modify") /\ Goto(j, "answer")
    /\ \/ MayActOn(j, Asked(j).role) /\ users' = Rewritten(Asked(j).id, Asked(j))
       \/ UNCHANGED users
    /\ UNCHANGED <<lastUserId, sessionVars, subVars, got, pubVars, late, outVars,
                   registryVars>>

\* addSub...: find, and push_back if there is none.  Broken variant: the list
\* is not searched.
NeverThere(j) == FALSE
There(j) == asks[j].c \in Range(subers[Asked(j).topic])
FindSub(j) ==
    /\ On(j, "sub") /\ Goto(j, IF There(j) THEN "answerSub" ELSE "push")
    /\ UNCHANGED <<userVars, sessionVars, subVars, got, pubVars, late, outVars,
                   registryVars>>
PushSub(j) ==
    /\ On(j, "push") /\ Goto(j, "answerSub")
    /\ subers' = [subers EXCEPT ![Asked(j).topic] = Append(@, asks[j].c)]
    /\ UNCHANGED <<userVars, sessionVars, subscribed, atOnce, got, pubVars, late,
                   outVars, registryVars>>
RemoveSub(j) ==
    /\ On(j, "unsub") /\ Goto(j, "answer")
    /\ subers' = [subers EXCEPT ![Asked(j).topic] = EraseFirst(@, asks[j].c)]
    /\ UNCHANGED <<userVars, sessionVars, subscribed, atOnce, got, pubVars, late,
                   outVars, registryVars>>

-----------------------------------------------------------------------------
(* interAdd and interDelete of vehicles; of an empty table there is no highest
   id, and execScalar throws *)

Adding == {got[j].id : j \in {k \in Job : at[k] = "addAgv"}}
AgvJob(j) ==
    /\ \/ /\ On(j, "newAgv") /\ Goto(j, "readId")
          /\ InsertAgv /\ got' = [got EXCEPT ![j].id = lastAgvId']
       \/ /\ On(j, "readId") /\ agvRows = {} /\ Goto(j, "answer")
          /\ UNCHANGED <<got, registryVars>>
       \/ /\ On(j, "readId") /\ agvRows # {} /\ Goto(j, "addAgv")
          /\ ReadAgvId(got[j].id) /\ got' = [got EXCEPT ![j].id = MaxAgvId]
       \/ On(j, "addAgv") /\ Goto(j, "answer") /\ AddAgv(got[j].id) /\ UNCHANGED got
       \/ On(j, "deleteAgv") /\ Goto(j, "removeAgv") /\ DeleteAgv(Asked(j).id) /\ UNCHANGED got
       \/ /\ On(j, "removeAgv") /\ Goto(j, "answer")
          /\ RemoveAgv(Asked(j).id, Adding) /\ UNCHANGED got
    /\ UNCHANGED <<userVars, sessionVars, subVars, pubVars, late, outVars>>

-----------------------------------------------------------------------------
(* publisher_agv_position, publisher_task *)

\* Those on the list that are sent to.  Broken variant: one that is no longer
\* registered ends the round.
UpToFirstGone(s) ==
    LET gone == {i \in DOMAIN s : s[i] \notin registered}
    IN  IF gone = {} THEN s ELSE SubSeq(s, 1, Min(gone) - 1)
Sessions(s) == SelectSeq(s, LAMBDA c : c \in registered)

\* A round of positions is left out while there are no vehicles.  A send that
\* throws ends the publisher: nothing catches it.
Publish(t) ==
    /\ t \in publishing /\ (t \in Positions => AnyAgv)
    /\ LET round == Range(Sessions(subers[t]))
       IN  \/ /\ \A c \in round : Sends(c)
              /\ heard' = [heard EXCEPT ![t] = {c \in round : Reaches(c)}]
              /\ UNCHANGED publishing
           \/ /\ \E c \in round : Throws(c)
              /\ publishing' = publishing \ {t} /\ UNCHANGED heard
    /\ UNCHANGED <<agenda, userVars, sessionVars, subVars, asks, at, got, late,
                   outVars, registryVars>>

Handler(j) ==
    \/ Start(j) \/ Answer(j) \/ Select(j) \/ SetUser(j) \/ Logout(j)
    \/ ChangePassword(j) \/ KickSession(j)
    \/ MayRemove(j) \/ Delete(j) \/ KickSessionByUserId(j) \/ AddUser(j) \/ ModifyUser(j)
    \/ FindSub(j) \/ PushSub(j) \/ RemoveSub(j) \/ AgvJob(j)

Next ==
    \/ \E c \in Client : Connect(c) \/ Ask(c) \/ Leave(c) \/ ReadEnds(c) \/ RemoveSession(c)
    \/ \E j \in Job : Handler(j)
    \/ \E t \in Topic : Publish(t)

\* The threads of the pool, of the sessions and of the publishers run.
Fairness ==
    /\ \A j \in Job : WF_vars(Handler(j))
    /\ \A c \in Client : WF_vars(ReadEnds(c)) /\ WF_vars(RemoveSession(c))
    /\ \A t \in Topic : WF_vars(Publish(t))

Spec == Init /\ [][Next]_vars /\ Fairness

-----------------------------------------------------------------------------
(* Properties *)

\* When a removal has come to its end no connection of that user is open,
\* "断开 被删除的用户的 连接" (close the connections of the user that was
\* deleted, usermanager.cpp:325), but for one that logged in meanwhile.
RemovedAreOut ==
    \A c \in registered :
        sock[c] = "open" /\ who[c].id \in removed => c \in raced

\* Nobody is on a list twice, and nobody who has left is on one, "取消该session的
\* 所有订阅" (all subscriptions of the session are cancelled, sessionmanager.cpp:
\* 103), unless two of its requests about lists ran at once, or it left before
\* what it had asked for was done.
ListsFit ==
    \A t \in Topic, c \in Client \ atOnce :
        /\ Cardinality({i \in DOMAIN subers[t] : subers[t][i] = c}) <= 1
        /\ reader[c] = "over" /\ c \in Range(subers[t]) => c \in late

\* Whoever was told that it has subscribed is on the list and registered, so
\* that the next round sends to it, until it leaves, cancels or is told to go:
\* no other session that subscribes, cancels or ends takes it off
\* (msgprocess.cpp:193, sessionmanager.cpp:103).
ToldAreListed ==
    \A t \in Topic : subscribed[t] \subseteq Range(subers[t]) \cap registered

\* Once all that was asked for is done the vehicles in memory are those of the
\* table, unless adds overlapped with other adds or with removals.
RegistryFits ==
    (\A j \in Job : ~Under(j)) /\ ~muddled => InTableAsInMemory

\* Whoever was told that it has subscribed hears what is published, again and
\* again, until it leaves or cancels, "100ms一次，发布AGV的位置" (msgprocess.cpp:
\* 168), unless its requests ran at once, or there are no vehicles, and as long
\* as no client is gone, or was told to go, while a publisher still sends to it.
KeepsPublishing ==
    \A t \in Topic : [](t \in publishing) =>
        \A c \in Client : c \in subscribed[t] ~>
            \/ c \in heard[t] \/ c \notin subscribed[t]
            \/ t \in Positions /\ ~AnyAgv
=============================================================================
