---------------------------- MODULE BlockManager ----------------------------
(***************************************************************************)
(* The blocks of the map (mapmap/blockmanager.cpp): parts of it that two   *)
(* vehicles must not be in together.  A block lists, per vehicle, the      *)
(* stations and lines ("spirits") for which the vehicle occupies it.       *)
(*                                                                         *)
(* tryAddBlockOccu first asks blockPassable, block by block, and then adds *)
(* the vehicle, block by block.  "UNIQUE_LCK(blockMtx);" declares a new    *)
(* empty lock called blockMtx (UNIQUE_LCK is a type, common.h:37), so      *)
(* nothing keeps two vehicles from walking the blocks at the same time and *)
(* each block is a step of its own here.  What such a race may do to the   *)
(* containers themselves is left out: every block and vehicle is taken to  *)
(* have its entry already, and an entry to be read and written whole.      *)
(***************************************************************************)
EXTENDS Naturals, Sequences, FiniteSets

CONSTANTS
    Agv, Block,
    Spirit,     \* stations and lines
    BlocksOf    \* MapManager::getBlocks: spirit -> its blocks, in map order

ASSUME BlocksAssumption == BlocksOf \in [Spirit -> Seq(Block)]

VARIABLES
    occ,        \* the <<block, vehicle, spirit>> in the lists
    phase,      \* vehicle -> where its thread is in the calls below
    spirit,     \* vehicle -> the spirit it last asked for
    left,       \* vehicle -> the blocks its loop has not come to yet
    overlapped  \* history: pairs of vehicles that were in tryAddBlockOccu at
                \* the same time

blockVars == <<occ, phase, spirit, left, overlapped>>

Elements(s) == {s[i] : i \in DOMAIN s}
Occupies(v, b) == \E s \in Spirit : <<b, v, s>> \in occ
Holds(v, s) == \A b \in Elements(BlocksOf[s]) : <<b, v, s>> \in occ

\* In tryAddBlockOccu, in it or in blockPassable.
Asking(v) == phase[v] \in {"check", "add"}
Walking(v) == phase[v] \in {"look", "check", "add"}

BlockInit ==
    /\ occ = {}
    /\ phase = [v \in Agv |-> "out"]
    /\ spirit \in [Agv -> Spirit]
    /\ left = [v \in Agv |-> <<>>]
    /\ overlapped = {}

\* v's thread calls tryAddBlockOccu for the blocks of s.
TryAdd(v, s) ==
    /\ ~Walking(v)
    /\ phase' = [phase EXCEPT ![v] = "check"]
    /\ spirit' = [spirit EXCEPT ![v] = s]
    /\ left' = [left EXCEPT ![v] = BlocksOf[s]]
    /\ overlapped' = overlapped \cup
         UNION {{<<v, w>>, <<w, v>>} : w \in {u \in Agv \ {v} : Asking(u)}}
    /\ UNCHANGED occ

\* v's thread calls blockPassable for the blocks of s.
Look(v, s) ==
    /\ ~Walking(v)
    /\ phase' = [phase EXCEPT ![v] = "look"]
    /\ spirit' = [spirit EXCEPT ![v] = s]
    /\ left' = [left EXCEPT ![v] = BlocksOf[s]]
    /\ UNCHANGED <<occ, overlapped>>

\* BBlock::passable; broken variant: the vehicle is in its own way.
PassableToNobody(b, v) == \A w \in Agv : ~Occupies(w, b)
Passable(b, v) == \A w \in Agv \ {v} : ~Occupies(w, b)

\* The blocks after the one just checked; broken variant: none, the loop
\* returns true after the first.
FirstIsEnough(v) == <<>>
Rest(v) == Tail(left[v])

\* blockPassable's loop goes on to the next block, or returns false.
CheckBlock(v) ==
    /\ phase[v] \in {"look", "check"} /\ left[v] # <<>>
    /\ IF Passable(Head(left[v]), v)
         THEN left' = [left EXCEPT ![v] = Rest(v)] /\ UNCHANGED phase
         ELSE phase' = [phase EXCEPT ![v] = "no"] /\ UNCHANGED left
    /\ UNCHANGED <<occ, spirit, overlapped>>

\* blockPassable returns true: tryAddBlockOccu starts to add.
StartAdd(v) ==
    /\ phase[v] = "check" /\ left[v] = <<>>
    /\ phase' = [phase EXCEPT ![v] = "add"]
    /\ left' = [left EXCEPT ![v] = BlocksOf[spirit[v]]]
    /\ UNCHANGED <<occ, spirit, overlapped>>

\* BBlock::addOccu.
AddBlock(v) ==
    /\ phase[v] = "add" /\ left[v] # <<>>
    /\ occ' = occ \cup {<<Head(left[v]), v, spirit[v]>>}
    /\ left' = [left EXCEPT ![v] = Tail(@)]
    /\ UNCHANGED <<phase, spirit, overlapped>>

\* The call returns true.
Grant(v) ==
    /\ phase[v] \in {"look", "add"} /\ left[v] = <<>>
    /\ phase' = [phase EXCEPT ![v] = "yes"]
    /\ UNCHANGED <<occ, spirit, left, overlapped>>

Walk(v) == CheckBlock(v) \/ StartAdd(v) \/ AddBlock(v) \/ Grant(v)

\* freeBlockOccu for the spirits in S.  BBlock::removeOccu erases one vehicle's
\* entry only; broken variant: everybody's.
WithoutAny(v, S) == {o \in occ : o[3] \notin S}
Without(v, S) == {o \in occ : o[2] # v \/ o[3] \notin S}

Free(v, S) ==
    /\ ~Walking(v)
    /\ occ' = Without(v, S)
    /\ UNCHANGED <<phase, spirit, left, overlapped>>

\* MapManager::clear, when the map is replaced: interSetMap has asked before
\* whether tasks are executed, and some may have begun since.
Clear ==
    /\ occ' = {}
    /\ UNCHANGED <<phase, spirit, left, overlapped>>

\* What the vehicles may do with the blocks, whatever they do it for.
BlockNext ==
    \/ Clear
    \/ \E v \in Agv :
         \/ Walk(v)
         \/ \E s \in Spirit : TryAdd(v, s) \/ Look(v, s)
         \/ \E S \in SUBSET Spirit : Free(v, S)

BlockSpec == BlockInit /\ [][BlockNext]_blockVars

-----------------------------------------------------------------------------
(* Properties *)

BlockTypeOK ==
    /\ occ \subseteq Block \X Agv \X Spirit
    /\ phase \in [Agv -> {"out", "look", "check", "add", "yes", "no"}]
    /\ spirit \in [Agv -> Spirit]
    /\ left \in [Agv -> Seq(Block)]
    /\ overlapped \subseteq Agv \X Agv

\* Two vehicles share a block only if at some time both were between entering
\* and leaving tryAddBlockOccu: the missing mutual exclusion of that function
\* is the only way to break the blocks, and the lock its code declares
\* (blockmanager.cpp:131, 169) would be enough to mend them.
SharedOnlyByOverlap ==
    \A v, w \in Agv : \A b \in Block :
        v # w /\ Occupies(v, b) /\ Occupies(w, b) => <<v, w>> \in overlapped
=============================================================================
