---------------------------- MODULE ShortestRoute ----------------------------
(***************************************************************************)
(* What a search for a path promises: asked for the way from one station   *)
(* to another over a set of lines, it answers a shortest one with its      *)
(* length; an empty one of length 0 if the stations are the same, and an   *)
(* empty one of length Infinity if there is none.                          *)
(***************************************************************************)
EXTENDS Naturals, Sequences

CONSTANTS
    Station, Line,
    Ends,           \* line -> the stations it goes from and to
    Length,         \* line -> its length
    Infinity,       \* more than any path is long: DISTANCE_INFINITY
    MaxHops         \* no path without a cycle has more lines

VARIABLES
    question,       \* [from, to, lines, open: may its ends be used at all?]
    answer          \* NoAnswer, or [distance, lines]

NoAnswer == [distance |-> Infinity, lines |-> <<0>>]
NoWay == [distance |-> Infinity, lines |-> <<>>]

\* The length of a path of lines.
LengthOf(p) ==
    LET sum[i \in 0..Len(p)] ==
            IF i = 0 THEN 0 ELSE sum[i - 1] + Length[p[i]]
    IN  sum[Len(p)]

\* The stations a path has been to.
Been(p, from) == {from} \cup {Ends[p[i]][2] : i \in DOMAIN p}
Last(p, from) == IF p = <<>> THEN from ELSE Ends[p[Len(p)]][2]

\* The paths over some lines that visit no station twice: one of n lines goes
\* on from one of n - 1 lines to a new station.
PathsOver(lines, from, to) ==
    LET on(p) == {l \in lines : Ends[l][1] = Last(p, from)
                                /\ Ends[l][2] \notin Been(p, from)}
        paths[n \in 0..MaxHops] ==
            IF n = 0 THEN {<<>>}
            ELSE UNION {{Append(p, l) : l \in on(p)} : p \in paths[n - 1]}
    IN  {p \in UNION {paths[n] : n \in 1..MaxHops} : Last(p, from) = to}

Shortest(ps) == {p \in ps : \A o \in ps : LengthOf(p) <= LengthOf(o)}

Answers(q) ==
    LET ps == PathsOver(q.lines, q.from, q.to)
    IN  CASE ~q.open -> {NoWay}
          [] q.open /\ q.from = q.to -> {[distance |-> 0, lines |-> <<>>]}
          [] q.open /\ q.from # q.to /\ ps = {} -> {NoWay}
          [] OTHER -> {[distance |-> LengthOf(p), lines |-> p] :
                            p \in Shortest(ps)}

Question == [from : Station, to : Station, lines : SUBSET Line, open : BOOLEAN]

Init == question \in Question /\ answer \in {NoAnswer, NoWay}

Ask == answer # NoAnswer /\ answer' = NoAnswer /\ question' \in Question

Answer ==
    /\ answer = NoAnswer
    /\ \E q \in {question} : answer' \in Answers(q)
    /\ UNCHANGED question

vars == <<question, answer>>

Next == Ask \/ Answer
Safety == Init /\ [][Next]_vars

\* Every question is answered.
Spec == Safety /\ []<>(answer # NoAnswer)
=============================================================================
