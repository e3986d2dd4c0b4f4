------------------------------ MODULE MCClients ------------------------------
(***************************************************************************)
(* Two clients, the first an administrator by TCP.  What may be asked for  *)
(* comes in groups that touch the same data.                               *)
(***************************************************************************)
EXTENDS Clients

CONSTANTS c1, c2, position

Both == (c1 :> 1) @@ (c2 :> 2)
One == (c1 :> 1) @@ (c2 :> 0)
Login(n) == [todo |-> "login", name |-> n]
Subs == [todo : {"sub", "unsub"}, topic : {position}]

Add(n, role) == [todo |-> "add", name |-> n, role |-> role]
Password == [todo |-> "password", name |-> "cy", role |-> 2]
Modify(role) == [todo |-> "modify", id |-> 1, name |-> "ann", role |-> role]
Agenda(in, may) == [in |-> in, asks |-> may]

MCAgendas == {
    Agenda(Both, Subs \cup {[todo |-> "logout"]}),
    Agenda(Both, {Login("bob"), [todo |-> "remove", id |-> 2], Password}),
    Agenda(One, {Login("bob"), Login("cy"), Add("bob", 3), Add("cy", 2), Modify(1), Modify(3)}),
    Agenda(One, {[todo |-> "newAgv"], [todo |-> "deleteAgv", id |-> 1],
                  [todo |-> "deleteAgv", id |-> 2]})}
=============================================================================
