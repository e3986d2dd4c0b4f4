------------------------------ MODULE LiftPath ------------------------------
(***************************************************************************)
(* How Dongyao/dyforklift.cpp cuts a path that takes a lift into the parts *)
(* before, into, in, out of and after the lift.  The points at which the   *)
(* map changes are those in the cabin, one on each floor.                  *)
(***************************************************************************)
EXTENDS Integers, Sequences, SequencesExt

CONSTANTS MapChange     \* points in the cabin

Start(line) == line[1]
End(line) == line[2]

\* Lines by where they begin and end.
Inside(line) == Start(line) \in MapChange /\ End(line) \in MapChange
Into(line) == Start(line) \notin MapChange /\ End(line) \in MapChange
OutOf(line) == Start(line) \in MapChange /\ End(line) \notin MapChange
EndsInside(line) == End(line) \in MapChange

\* The first line of that kind, as a path of its own or none.
FirstOf(lines, Is(_)) ==
    LET i == SelectInSeq(lines, Is)
    IN  IF i = 0 THEN <<>> ELSE <<lines[i]>>
Before(lines, Is(_)) ==
    LET i == SelectInSeq(lines, Is)
    IN  IF i = 0 THEN lines ELSE SubSeq(lines, 1, i - 1)
From(lines, Is(_)) == SubSeq(lines, Len(Before(lines, Is)) + 1, Len(lines))
NotInside(line) == ~Inside(line)

NeedsElevator(lines) == FirstOf(lines, EndsInside) # <<>>
ToElevator(lines) == Before(lines, EndsInside)
EnterElevator(lines) == FirstOf(lines, Into)
InElevator(lines) == Before(From(lines, Inside), NotInside)
OutElevator(lines) == FirstOf(lines, OutOf)

\* What follows the line that ends the ride; broken variant: one line less.
LeaveLate(lines) ==
    LET rest == From(From(lines, Inside), NotInside)
    IN  SubSeq(rest, 3, Len(rest))
LeaveElevator(lines) ==
    LET rest == From(From(lines, Inside), NotInside)
    IN  SubSeq(rest, 2, Len(rest))
=============================================================================
