------------------------------ MODULE Archive ------------------------------
(***************************************************************************)
(* What is promised of the database: a task that saveTask has saved can be *)
(* read back by its id, whole and alone, from then on, also after a crash; *)
(* and a map that was set with success is the one in use and the one that  *)
(* is loaded after a crash, until the next one is set.                     *)
(***************************************************************************)
CONSTANTS Task, Whole(_), Map

VARIABLES
    history,    \* what is read back by each id
    saved,      \* tasks that were saved
    stored,     \* the map in the database
    used,       \* the map in use
    told        \* the map that was set with success, if the last one was

vars == <<history, saved, stored, used, told>>

Init == DOMAIN history = {} /\ saved = {} /\ told \notin Map

Save(t) ==
    /\ t \notin saved /\ saved' = saved \cup {t}
    /\ \E i \in DOMAIN history' \ DOMAIN history :
         history' = [k \in DOMAIN history \cup {i} |->
                        IF k = i THEN Whole(t) ELSE history[k]]
    /\ told \in Map => UNCHANGED stored
    /\ UNCHANGED <<used, told>>

Ask == told' \notin Map /\ UNCHANGED <<history, saved>>

\* Until a map has been set, anything may be in use and in the database: the
\* commit of a task may even take part of a map with it.
Change == told \notin Map /\ told' \notin Map /\ UNCHANGED <<history, saved>>

Set(m) ==
    /\ told \notin Map /\ told' = m
    /\ stored' = m /\ used' = m
    /\ UNCHANGED <<history, saved>>

Next == Ask \/ Change \/ (\E t \in Task : Save(t)) \/ (\E m \in Map : Set(m))
Spec == Init /\ [][Next]_vars
=============================================================================
