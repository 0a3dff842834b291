-------------------------------- MODULE Lists --------------------------------
(***************************************************************************)
(* The doubly linked lists of the kernel, pointer by pointer (list.c).     *)
(*                                                                         *)
(* Every other module takes a list to be a sequence.  Here `content' is    *)
(* that sequence, as a history variable, and LinksSpellLists says that the *)
(* pointers spell it.  The calls are the ones the kernel makes: it adds    *)
(* nodes that are in no list and deletes the first node of one.  It also   *)
(* does what the lists were not made for: it empties a list under its      *)
(* nodes (sem_init), deletes a node a second time (sem_destroy), adds to a *)
(* head that was never initialised (sem_wait), and deletes NULL and adds   *)
(* it to readyqueue (sem_signal).  These go through NULL, so they are      *)
(* modelled where page 0 is mapped and NULL is one more cell; elsewhere    *)
(* they fault (Semaphores).  NULL's fields first hold interrupt vectors,   *)
(* which are no cells: following them faults.                              *)
(***************************************************************************)
EXTENDS Integers, Sequences, Functions

CONSTANTS Heads, Nodes, NULL,
  Ready,      \* readyqueue
  Vectors     \* what is at address 0 when the machine starts

ASSUME ListAssumption ==
  /\ Heads \cap Nodes = {} /\ NULL \notin Heads \cup Nodes
  /\ Ready \in Heads /\ Vectors \notin Heads \cup Nodes \cup {NULL}

Cells == Heads \cup Nodes \cup {NULL}

VARIABLES
  next, prev,    \* the two fields of a struct list_head; zero is NULL
  content,       \* history: head -> the nodes added and not deleted
  initialised,   \* history: the heads INIT_LIST_HEAD has been called on
  stranded,      \* history: nodes whose list was emptied under them
  bent,          \* history: since NULL was added to readyqueue, a node was
                 \* deleted twice or added to a head nobody initialised
  torn           \* history: NULL was deleted along links that did not lead
                 \* to its neighbours; nothing is said of what follows

listVars == <<next, prev, content, initialised, stranded, bent, torn>>

Linked(n) == \E h \in Heads : n \in Range(content[h])
Free(n)   == ~Linked(n) /\ n \notin stranded

ListsInit ==
  /\ next = [c \in Cells |-> IF c = NULL THEN Vectors ELSE NULL] /\ prev = next
  /\ content = [h \in Heads |-> << >>]
  /\ initialised = {} /\ stranded = {}
  /\ bent = FALSE /\ torn = FALSE

-----------------------------------------------------------------------------
(* INIT_LIST_HEAD; readyqueue is initialised once, when the kernel starts. *)
InitListHead(h) ==
  /\ h = Ready => h \notin initialised
  /\ next' = [next EXCEPT ![h] = h] /\ prev' = [prev EXCEPT ![h] = h]
  /\ content' = [content EXCEPT ![h] = << >>]
  /\ initialised' = initialised \cup {h}
  /\ stranded' = stranded \cup Range(content[h])
  /\ UNCHANGED <<bent, torn>>

(* Mutant: the old neighbour's next is left alone. *)
AddBetween_Half(new, before, after) ==
  /\ prev' = [prev EXCEPT ![after] = new, ![new] = before]
  /\ next' = [next EXCEPT ![new] = after]

(* __list_add *)
AddBetween(new, before, after) ==
  /\ prev' = [prev EXCEPT ![after] = new, ![new] = before]
  /\ next' = [next EXCEPT ![new] = after, ![before] = new]

(* list_add: init_sched fills freequeue with it. *)
ListAdd(n, h) ==
  /\ Free(n) /\ h \in initialised
  /\ AddBetween(n, h, next[h])
  /\ content' = [content EXCEPT ![h] = <<n>> \o @]
  /\ UNCHANGED <<initialised, stranded, bent, torn>>

(* Mutant: list_add for list_add_tail. *)
ListAddTail_Front(n, h) ==
  /\ Free(n) /\ (h = Ready => h \in initialised)
  /\ AddBetween(n, h, next[h])
  /\ content' = [content EXCEPT ![h] = Append(@, n)]
  /\ bent' = (bent \/ (prev[h] = NULL /\ h \notin initialised))
  /\ UNCHANGED <<initialised, stranded, torn>>

(* list_add_tail; readyqueue is initialised before anything joins it.      *)
ListAddTail(n, h) ==
  /\ Free(n) /\ (h = Ready => h \in initialised)
  /\ AddBetween(n, prev[h], h)
  /\ content' = [content EXCEPT ![h] = Append(@, n)]
  /\ bent' = (bent \/ (prev[h] = NULL /\ h \notin initialised))
  /\ UNCHANGED <<initialised, stranded, torn>>

(* __list_del, and the NULLs list_del leaves in the node *)
Unlinked(n) ==
  /\ prev' = [prev EXCEPT ![next[n]] = prev[n], ![n] = NULL]
  /\ next' = [next EXCEPT ![prev[n]] = next[n], ![n] = NULL]

list_empty(h) == next[h] = h
list_first(h) == next[h]

(* list_del(list_first(h)): a head that was never initialised is not       *)
(* empty to list_empty, and what follows is no list.  Once NULL has become *)
(* the first of readyqueue, its dispatch stops the kernel.                 *)
ListDelFirst(h) ==
  /\ h \in initialised /\ ~list_empty(h) /\ list_first(h) # NULL
  /\ Unlinked(list_first(h))
  /\ content' = [content EXCEPT ![h] = Tail(@)]
  /\ UNCHANGED <<initialised, stranded, bent, torn>>

(* list_del of a node that is in no list. *)
ListDelAgain(n) ==
  /\ Free(n) /\ Unlinked(n)
  /\ bent' = TRUE
  /\ UNCHANGED <<content, initialised, stranded, torn>>

(* list_del(NULL), which also takes NULL out of readyqueue if it is there. *)
Before(s, i) == IF i = 1 THEN Ready ELSE s[i - 1]
After(s, i)  == IF i = Len(s) THEN Ready ELSE s[i + 1]

ListDelNull ==
  /\ next[NULL] # Vectors /\ prev[NULL] # Vectors
  /\ Unlinked(NULL)
  /\ \/ /\ ~Linked(NULL)
        /\ UNCHANGED <<content, torn>>
     \/ \E i \in DOMAIN content[Ready] :
          LET s == content[Ready]
          IN  /\ s[i] = NULL
              /\ content' = [content EXCEPT ![Ready] =
                               SubSeq(s, 1, i - 1) \o SubSeq(s, i + 1, Len(s))]
              /\ torn' = (prev[NULL] # Before(s, i) \/ next[NULL] # After(s, i))
  /\ UNCHANGED <<initialised, stranded, bent>>

(* list_add_tail(NULL, &readyqueue) follows it. *)
ListAddTailNull ==
  /\ next[NULL] = NULL /\ prev[NULL] = NULL
  /\ Ready \in initialised /\ ~Linked(NULL)
  /\ AddBetween(NULL, prev[Ready], Ready)
  /\ content' = [content EXCEPT ![Ready] = Append(@, NULL)]
  /\ bent' = FALSE
  /\ UNCHANGED <<initialised, stranded, torn>>

ListsNext ==
  /\ ~torn
  /\ \/ \E h \in Heads : InitListHead(h) \/ ListDelFirst(h)
     \/ \E n \in Nodes, h \in Heads : ListAdd(n, h) \/ ListAddTail(n, h)
     \/ \E n \in Nodes : ListDelAgain(n)
     \/ ListDelNull \/ ListAddTailNull

ListsSpec == ListsInit /\ [][ListsNext]_listVars

-----------------------------------------------------------------------------
(* The cells of a list in order, from its head round to its head; a head   *)
(* that was never initialised is reached from NULL.                        *)
Circle(h) == <<IF h \in initialised THEN h ELSE NULL>> \o content[h] \o <<h>>

(* Both chains of pointers spell the list: each cell's prev is the cell    *)
(* before it and that one's next leads back, whatever was emptied, deleted *)
(* twice or added before its head was initialised.  NULL's own fields hold *)
(* to this only where it is a node of the list, and not once bent.         *)
Spelled(h) ==
  /\ \A i \in 1 .. Len(content[h]) + 1 :
       LET cell == Circle(h)[i]
           succ == Circle(h)[i + 1]
       IN  /\ (succ = NULL => ~bent) => prev[succ] = cell
           /\ (cell = NULL => ~bent /\ i # 1) => next[cell] = succ
  /\ h \notin initialised => next[h] = NULL

LinksSpellLists ==
  ~torn =>
    /\ \A h \in Heads : Spelled(h) /\ IsInjective(content[h])
    /\ \A n \in Nodes : Free(n) => next[n] = NULL /\ prev[n] = NULL
    /\ \A g, h \in Heads : g # h => Range(content[g]) \cap Range(content[h]) = {}

(* readyqueue is torn only if NULL was in it while a node was deleted      *)
(* twice, or added to a head that nobody initialised: no other order of    *)
(* the calls misleads NULL's links, wherever NULL has moved to.            *)
TornOnlySo == torn => bent
==============================================================================
