--------------------------- MODULE FrameInfoList ----------------------------
(***************************************************************************)
(* The linked list of c_src/frame_info_queue.c, pointer by pointer: items  *)
(* are allocated and freed, get_frame_info walks the list and unlinks one  *)
(* item per step.  It implements FrameInfoStore.  Its names leave room for *)
(* a module that extends a codec's module as well.                         *)
(***************************************************************************)
EXTENDS FrameInfo, FiniteSets

CONSTANTS
  Pts, MaxInfos,  \* as in FrameInfoStore
  Items,          \* addresses malloc may return
  Null

ASSUME ListAssumption ==
  /\ Pts \subseteq Int
  /\ MaxInfos \in Nat
  /\ IsFiniteSet(Items)
  /\ Null \notin Items

VARIABLES
  head,     \* inbound_list_head
  tail,     \* inbound_list_tail
  item,     \* item[i]: pts, frame_info and next of the allocated items
  listPc,   \* "ready", "walk" inside get_frame_info, "exited"
  want,     \* the pts get_frame_info looks for
  dropOld,  \* its argument drop_old_pts
  prev,
  current,
  queued,   \* infos queued so far
  result,   \* the info returned last
  before    \* history: the list as it was when the walk began

queueVars == <<head, tail, item, listPc, want, dropOld, prev, current, queued, result, before>>
listVars == <<head, tail, item>>
walkVars == <<want, dropOld, prev, current>>

Allocated == DOMAIN item

\* The item reached from head by following next k times.
Reached ==
  LET at[k \in 0..Cardinality(Items)] ==
        IF k = 0 THEN head
        ELSE IF at[k - 1] \in Allocated THEN item[at[k - 1]].next ELSE Null
  IN  at

LinkedLength == Cardinality({k \in DOMAIN Reached : Reached[k] # Null})

Contents ==
  [k \in 1..LinkedLength |-> Entry(item[Reached[k - 1]].pts, item[Reached[k - 1]].info)]

\* init_frame_info_queue.
InitList ==
  /\ head = Null
  /\ tail = Null
  /\ item = <<>>
  /\ listPc = "ready"
  /\ want \in Pts
  /\ dropOld = FALSE
  /\ prev = Null
  /\ current = Null
  /\ queued = 0
  /\ result = 0
  /\ before = <<>>

-----------------------------------------------------------------------------
\* The items after one more is allocated, and after one is freed.
Allocate(items, i, value) == [j \in DOMAIN items \union {i} |-> IF j = i THEN value ELSE items[j]]
Free(items, i) == [j \in DOMAIN items \ {i} |-> items[j]]
Link(items, i, next) == [items EXCEPT ![i].next = next]

\* add_frame_info_to_queue: through the stale tail only if the list is empty.
Add(pts, i) ==
  LET new == [pts |-> pts, info |-> queued + 1, next |-> Null]
  IN
  /\ listPc = "ready"
  /\ queued < MaxInfos
  /\ i \notin Allocated
  /\ queued' = queued + 1
  /\ IF head # Null
     THEN item' = Allocate(Link(item, tail, i), i, new) /\ head' = head
     ELSE item' = Allocate(item, i, new) /\ head' = i
  /\ tail' = i
  /\ UNCHANGED <<listPc, walkVars, result, before>>

Get(pts, drop) ==
  /\ listPc = "ready"
  /\ listPc' = "walk"
  /\ want' = pts
  /\ dropOld' = drop
  /\ prev' = Null
  /\ current' = head
  /\ before' = Contents
  /\ UNCHANGED <<listVars, queued, result>>

\* Mutant of RemoveFromQueue: the tail is not moved back.
RemoveKeepingTail(i, p) ==
  /\ head' = IF head = i THEN item[i].next ELSE head
  /\ tail' = tail
  /\ item' = Free(IF head = i THEN item ELSE Link(item, p, item[i].next), i)

\* remove_from_queue: unlink i, whose predecessor is p, and free it.
RemoveFromQueue(i, p) ==
  /\ head' = IF head = i THEN item[i].next ELSE head
  /\ tail' = IF tail = i THEN p ELSE tail
  /\ item' = Free(IF head = i THEN item ELSE Link(item, p, item[i].next), i)

TooOld(i) == item[i].pts < want /\ dropOld

\* Mutant of DropOldItem: the walk takes the item it freed for the predecessor
\* of the next one.
DropAndAdvanceBoth ==
  /\ listPc = "walk"
  /\ current # Null
  /\ TooOld(current)
  /\ prev' = current
  /\ current' = item[current].next
  /\ RemoveFromQueue(current, prev)
  /\ UNCHANGED <<listPc, want, dropOld, queued, result, before>>

DropOldItem ==
  /\ listPc = "walk"
  /\ current # Null
  /\ TooOld(current)
  /\ current' = item[current].next
  /\ RemoveFromQueue(current, prev)
  /\ UNCHANGED <<listPc, want, dropOld, prev, queued, result, before>>

ReturnItem ==
  /\ listPc = "walk"
  /\ current # Null
  /\ ~TooOld(current)
  /\ item[current].pts = want
  /\ result' = item[current].info
  /\ RemoveFromQueue(current, prev)
  /\ listPc' = "ready"
  /\ UNCHANGED <<walkVars, queued, before>>

SkipItem ==
  /\ listPc = "walk"
  /\ current # Null
  /\ ~TooOld(current)
  /\ item[current].pts # want
  /\ prev' = current
  /\ current' = item[current].next
  /\ UNCHANGED <<listVars, listPc, want, dropOld, queued, result, before>>

\* exit(-2)
FailToFind ==
  /\ listPc = "walk"
  /\ current = Null
  /\ listPc' = "exited"
  /\ UNCHANGED <<listVars, walkVars, queued, result, before>>

NextList ==
  \/ \E pts \in Pts, drop \in BOOLEAN : Get(pts, drop)
  \/ \E pts \in Pts, i \in Items : Add(pts, i)
  \/ DropOldItem \/ ReturnItem \/ SkipItem \/ FailToFind

SpecList == InitList /\ [][NextList]_queueVars

-----------------------------------------------------------------------------
(* Properties.                                                             *)

\* Items hold infos that were queued, and the item a walk is about to read was
\* not freed.
ListTypeOK ==
  /\ {tail, prev, current} \subseteq Items \union {Null}
  /\ head \in Allocated \union {Null}
  /\ listPc = "walk" => current \in Allocated \union {Null}
  /\ Allocated \subseteq Items
  /\ \A i \in Allocated : /\ item[i].pts \in Pts
                          /\ item[i].info \in 1..queued
                          /\ item[i].next \in Items \union {Null}
  /\ listPc \in {"ready", "walk", "exited"}
  /\ want \in Pts
  /\ dropOld \in BOOLEAN
  /\ queued \in 0..MaxInfos
  /\ result \in 0..queued

\* The pointers are sound, in the middle of a walk too: nothing leaks and nothing
\* freed stays linked, as the items reachable from head are exactly the
\* allocated ones, without a cycle, with tail the last of them; and a walk stands
\* on the list, its current item following the one it would unlink it from.
WellLinked ==
  /\ ListTypeOK
  /\ {Reached[k] : k \in DOMAIN Reached} \ {Null} = Allocated
  /\ LinkedLength = Cardinality(Allocated)
  /\ head # Null => tail \in Allocated /\ item[tail].next = Null
  /\ listPc = "walk" /\ prev = Null => current = head
  /\ listPc = "walk" /\ prev # Null => prev \in Allocated /\ item[prev].next = current

\* A walk that ends has done in many steps what FrameInfoStore does in one:
\* returned the first entry of that pts, dropped the older ones it passed and
\* kept every other in its place.
Abstract == INSTANCE FrameInfoStore WITH
  store <- IF listPc = "ready" THEN Contents ELSE before,
  exited <- listPc = "exited"
ImplementsStore == Abstract!Spec
=============================================================================
