----------------------------- MODULE LaneContract -----------------------------
(***************************************************************************)
(* What a lane promises to those who publish on it and to the handlers     *)
(* behind it, with no word of threads, mutex or policies: a bounded queue  *)
(* that is open and shut with its reactor.  An event is taken while the    *)
(* lane is open and only then, behind all that wait; it pushes out the     *)
(* oldest, and no other, and only if the lane may be full; it is handed    *)
(* over once, in its turn, while the lane is open or closing; what still   *)
(* waits when the lane has closed is never handed over.  EventReactorLoop  *)
(* implements it; OrderFlow and StrategyLanes take their lanes to be so.   *)
(***************************************************************************)
EXTENDS Integers, Sequences

CONSTANT Capacities   \* capacities the lane may be given

VARIABLES
  phase,     \* closed, open, closing
  waiting,   \* events taken and not handed over
  given      \* events handed over, oldest first

laneVars == <<phase, waiting, given>>

Elements(s) == {s[i] : i \in 1..Len(s)}

LaneInit == phase = "closed" /\ waiting = <<>> /\ given = <<>>

Goes(from, to) == phase = from /\ phase' = to /\ UNCHANGED given

Open  == Goes("closed", "open") /\ waiting = <<>> /\ waiting' = <<>>
Close == Goes("open", "closing") /\ UNCHANGED waiting
Clear == Goes("closing", "closed") /\ waiting' = <<>>

\* The new event is the last one of waiting'.
Accept ==
  /\ phase = "open"
  /\ waiting' # <<>>
  /\ waiting'[Len(waiting')] \notin Elements(waiting) \cup Elements(given)
  /\ LET kept == SubSeq(waiting', 1, Len(waiting') - 1)
     IN \/ kept = waiting
        \/ /\ \E c \in Capacities : c <= Len(waiting)
           /\ waiting # <<>> /\ kept = Tail(waiting)
  /\ \E c \in Capacities : Len(waiting') <= c
  /\ UNCHANGED <<phase, given>>

Give ==
  /\ phase # "closed" /\ waiting # <<>>
  /\ given' = Append(given, Head(waiting))
  /\ waiting' = Tail(waiting)
  /\ UNCHANGED phase

LaneNext == Open \/ Close \/ Clear \/ Accept \/ Give

LaneSpec == LaneInit /\ [][LaneNext]_laneVars
=============================================================================
