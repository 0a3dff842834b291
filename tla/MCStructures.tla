---------------------------- MODULE MCStructures ----------------------------
(* The circular buffer and the lists share nothing, so each is explored     *)
(* while the other is as it was at first.  Four cells and three items: head *)
(* and tail wrap around in every way.  Three heads and four nodes: a node   *)
(* has two neighbours in the longest list, so has NULL in readyqueue, and   *)
(* other lists hold nodes or are not initialised at that time.              *)
EXTENDS RingBuffer, Lists

(* As at first; the lists are explored once, not for every content of the   *)
(* buffer.                                                                  *)
RingAtRest ==
  done = <<"none">> /\ buffer = [i \in Indices |-> CHOOSE item \in Item : TRUE]

ListsAtRest == initialised = {} /\ ~bent /\ \A h \in Heads : content[h] = << >>

StructuresNext ==
  \/ ListsAtRest /\ RingNext /\ UNCHANGED listVars
  \/ RingAtRest /\ ListsNext /\ UNCHANGED ringVars

StructuresInit == RingInit /\ ListsInit

StructuresSpec == StructuresInit /\ [][StructuresNext]_<<ringVars, listVars>>
==============================================================================
