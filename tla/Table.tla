------------------------------- MODULE Table -------------------------------
(***************************************************************************)
(* modules/boids2d/Table.cpp and TableStateSynchronizer.cpp: the table of  *)
(* process names, the sub-table that shows the processes of the selected   *)
(* name, and the multicast by which taps and swipes on one screen of the   *)
(* wall reach the tables of all, this one's included.                      *)
(*                                                                         *)
(* A datagram may be lost, delayed, repeated and overtaken, so that it     *)
(* makes no difference whether it waits in the network or in the queue     *)
(* that OnLoop empties: net stands for both.  Indexes count from 1, and 0  *)
(* is none; positions in pixels are left out, see module TableGeometry.    *)
(***************************************************************************)
EXTENDS Integers, Sequences, FiniteSets, SequencesExt

CONSTANTS
  Items,        \* rows, one of each process instance
  KeyOf,        \* [Items -> process name]
  LowerCase,    \* [process names -> the name in lower case]
  Indexes,      \* rows that a tap may mean, some beyond the last one
  MaxSends,     \* bound: different taps and swipes
  MaxDeliveries \* bound: datagrams dealt with, the repeated ones included

ASSUME TableAssumption == Indexes \subseteq Nat \ {0}

VARIABLES
  items,         \* _items of the top table: a sequence of groups of rows
  selected,      \* its _selectedItemIndex
  addQueue,      \* its queues
  removeQueue,
  subItems,      \* _items of the sub-table
  subAdds,       \* its queues; the removals are all of NULL: their number
  subClears,
  isHighlighted, \* its flag
  highlighted,   \* rows whose boids are highlighted
  lowered,       \* rows whose key has been changed to lower case
  net,           \* datagrams sent
  deliveries,    \* datagrams dealt with so far
  sorted,        \* whether the top table has done its startup sort
  pc,            \* where the render thread is, see TablePc
  orphans,       \* history: rows whose removal came before their addition
  mixed,         \* history: the sub-table was last cleared twice at once
  shifted,       \* history: a group at or before the selected one has gone
  added,         \* history: rows added since the last tap that selected
  crashed        \* a sort has used a selection beyond the end

topVars == <<items, selected, lowered>>
topQueues == <<addQueue, removeQueue>>
subVars == <<subItems, isHighlighted, highlighted>>
subQueues == <<subAdds, subClears>>
netVars == <<net, deliveries>>
tableHistory == <<orphans, mixed, shifted, added, crashed>>
tableVars == <<topVars, topQueues, subVars, subQueues, netVars, sorted, pc,
               tableHistory>>

\* frame: before the tables' OnLoop; states, removes, adds: in the loops of
\* the top table's; subStates, subRest: in the sub-table's.
TablePc == {"frame", "states", "removes", "adds", "subStates", "subRest"}

TableInit ==
  /\ items = <<>> /\ selected = 0 /\ lowered = {}
  /\ addQueue = <<>> /\ removeQueue = <<>>
  /\ subItems = <<>> /\ isHighlighted = FALSE /\ highlighted = {}
  /\ subAdds = <<>> /\ subClears = 0
  /\ net = {} /\ deliveries = 0
  /\ sorted = FALSE /\ pc = "frame"
  /\ orphans = {} /\ mixed = FALSE /\ shifted = FALSE /\ added = {}
  /\ crashed = FALSE

-----------------------------------------------------------------------------
(* Additions and removals, by the handler's thread.                        *)

PushAdd(x) ==
  /\ addQueue' = Append(addQueue, x)
  /\ UNCHANGED <<topVars, removeQueue, subVars, subQueues, netVars, sorted, pc,
                 tableHistory>>

PushRemove(x) ==
  /\ removeQueue' = Append(removeQueue, x)
  /\ UNCHANGED <<topVars, addQueue, subVars, subQueues, netVars, sorted, pc,
                 tableHistory>>

-----------------------------------------------------------------------------
(* The user's gestures, which the render thread passes on between frames.  *)

Send(m) ==
  /\ pc = "frame" /\ Cardinality(net) < MaxSends
  /\ net' = net \cup {m}
  /\ UNCHANGED <<topVars, topQueues, subVars, subQueues, deliveries, sorted, pc,
                 tableHistory>>

\* A tap below the last row, or in a table without rows, has an index too.
Tap(istoptable, index) == Send([istoptable |-> istoptable, action |-> "tap", index |-> index])
Swipe(istoptable, way) == Send([istoptable |-> istoptable, action |-> way])

Gesture ==
  \E istoptable \in BOOLEAN :
    \/ \E index \in Indexes : Tap(istoptable, index)
    \/ \E way \in {"left", "right"} : Swipe(istoptable, way)

-----------------------------------------------------------------------------
(* OnLoop of the top table.                                                *)

\* A datagram of one of the tables is taken from its queue.
Receive(m, istoptable) ==
  /\ m.istoptable = istoptable
  /\ deliveries < MaxDeliveries /\ deliveries' = deliveries + 1

\* An index that no row has ends OnLoop for this frame, with its removals and
\* additions still to do.
TopTapBeyond(m) ==
  /\ pc = "states" /\ Receive(m, TRUE) /\ m.action = "tap"
  /\ m.index > Len(items)
  /\ pc' = "subStates"
  /\ UNCHANGED <<topVars, topQueues, subVars, subQueues, net, sorted, tableHistory>>

\* A second tap on the selected group takes the selection back.
Select(index) ==
  IF index = selected
    THEN selected' = 0 /\ UNCHANGED subAdds
    ELSE selected' = index /\ subAdds' = subAdds \o items[index]

TopTap(m) ==
  /\ pc = "states" /\ Receive(m, TRUE) /\ m.action = "tap"
  /\ m.index <= Len(items)
  /\ subClears' = subClears + 1
  /\ Select(m.index)
  /\ shifted' = FALSE /\ added' = {}
  /\ UNCHANGED <<items, lowered, topQueues, subVars, net, sorted, pc, orphans, mixed,
                 crashed>>

Orders(groups) ==
  {[k \in DOMAIN groups |-> groups[f[k]]] : f \in Bijection(DOMAIN groups, DOMAIN groups)}

\* _SortTableAlphabetically, _SortTableScore: the selection follows the first
\* row of its group.
Sort ==
  IF selected > Len(items)
    THEN crashed' = TRUE /\ UNCHANGED <<items, selected>>
    ELSE \E order \in Orders(items) :
           /\ items' = order
           /\ selected' = IF selected = 0 THEN 0
                          ELSE CHOOSE k \in DOMAIN order : order[k] = items[selected]
           /\ UNCHANGED crashed

\* The alphabetical order compares, and leaves behind, keys in lower case.
TopSwipe(m) ==
  /\ pc = "states" /\ Receive(m, TRUE) /\ m.action # "tap"
  /\ Sort
  /\ lowered' = IF m.action = "left" /\ Len(items) > 1
                  THEN lowered \cup {x \in {items[k][1] : k \in DOMAIN items} :
                                       LowerCase[KeyOf[x]] # KeyOf[x]}
                  ELSE lowered
  /\ UNCHANGED <<topQueues, subVars, subQueues, net, sorted, pc, orphans, mixed, shifted,
                 added>>

RowPlaces == UNION {{<<k, j>> : j \in DOMAIN items[k]} : k \in DOMAIN items}

\* Mutant: the search for a row ends after the first group.
FoundInFirst(x) == {p \in RowPlaces : p[1] = 1 /\ items[p[1]][p[2]] = x}

Found(x) == {p \in RowPlaces : items[p[1]][p[2]] = x}

\* A group goes with its last row.
EraseRow(k, j) ==
  IF Len(items[k]) = 1
    THEN items' = RemoveAt(items, k) /\ shifted' = (shifted \/ k <= selected)
    ELSE items' = [items EXCEPT ![k] = RemoveAt(@, j)] /\ UNCHANGED shifted

\* A row that is not there yet is not removed.
TopRemove ==
  LET x == Head(removeQueue) IN
  /\ pc = "removes" /\ removeQueue # <<>>
  /\ removeQueue' = Tail(removeQueue)
  /\ IF Found(x) = {} THEN UNCHANGED <<items, shifted>>
                      ELSE \E p \in Found(x) : EraseRow(p[1], p[2])
  /\ orphans' = IF x \in ToSet(addQueue) THEN orphans \cup {x} ELSE orphans
  /\ UNCHANGED <<selected, lowered, addQueue, subVars, subQueues, netVars,
                 sorted, pc, mixed, added, crashed>>

KeyNow(x) == IF x \in lowered THEN LowerCase[KeyOf[x]] ELSE KeyOf[x]
SameKey(x, y) == KeyNow(x) = KeyNow(y)

\* The group whose first row has x's key, or a new one.
Insert(groups, x) ==
  IF \E k \in DOMAIN groups : SameKey(groups[k][1], x)
    THEN LET k == CHOOSE k \in DOMAIN groups :
                    SameKey(groups[k][1], x) /\ \A j \in 1..(k - 1) : ~SameKey(groups[j][1], x)
         IN [groups EXCEPT ![k] = Append(@, x)]
    ELSE Append(groups, <<x>>)

TopAdd ==
  /\ pc = "adds" /\ addQueue # <<>>
  /\ addQueue' = Tail(addQueue)
  /\ items' = Insert(items, Head(addQueue))
  /\ added' = added \cup {Head(addQueue)}
  /\ UNCHANGED <<selected, lowered, removeQueue, subVars, subQueues, netVars,
                 sorted, pc, orphans, mixed, shifted, crashed>>

\* Each loop ends when it finds its queue empty.
TopGoesOn ==
  /\ \/ pc = "states" /\ pc' = "removes"
     \/ pc = "removes" /\ removeQueue = <<>> /\ pc' = "adds"
     \/ pc = "adds" /\ addQueue = <<>> /\ pc' = "subStates"
  /\ UNCHANGED <<topVars, topQueues, subVars, subQueues, netVars, sorted,
                 tableHistory>>

\* OnLoop's last act, once, two seconds after the start.
TopStartupSort ==
  /\ pc = "adds" /\ addQueue = <<>> /\ ~sorted
  /\ Sort
  /\ sorted' = TRUE /\ pc' = "subStates"
  /\ UNCHANGED <<lowered, topQueues, subVars, subQueues, netVars,
                 orphans, mixed, shifted, added>>

-----------------------------------------------------------------------------
(* OnLoop of the sub-table.                                                *)

HasRow(index) == subItems # <<>> /\ index <= Len(subItems[1])

\* A tap kills the process of the row that has the index now, whatever row had
\* it for the user.  The process is not the program's: its end is reported
\* later, as any other.
SubTap(m) ==
  /\ pc = "subStates" /\ Receive(m, FALSE) /\ m.action = "tap"
  /\ HasRow(m.index)
  /\ UNCHANGED <<topVars, topQueues, subVars, subQueues, net, sorted, pc, tableHistory>>

\* A gesture on rows that have gone ends OnLoop, as in the top table.
SubGestureBeyond(m) ==
  /\ pc = "subStates" /\ Receive(m, FALSE)
  /\ IF m.action = "tap" THEN ~HasRow(m.index) ELSE subItems = <<>>
  /\ pc' = "frame"
  /\ UNCHANGED <<topVars, topQueues, subVars, subQueues, net, sorted, tableHistory>>

\* A swipe, to either side, highlights the boids of the group shown, and the
\* next one takes it back.
SubSwipe(m) ==
  /\ pc = "subStates" /\ Receive(m, FALSE) /\ m.action # "tap"
  /\ subItems # <<>>
  /\ isHighlighted' = ~isHighlighted
  /\ highlighted' = IF isHighlighted THEN highlighted \ ToSet(subItems[1])
                                     ELSE highlighted \cup ToSet(subItems[1])
  /\ UNCHANGED <<topVars, topQueues, subItems, subQueues, net, sorted, pc, tableHistory>>

RowsIn(groups) == UNION {ToSet(groups[k]) : k \in DOMAIN groups}
SubRows == RowsIn(subItems)

\* Mutant: the boids stay highlighted.
ClearedNot == highlighted

\* Clear: the boids of all groups are unhighlighted; the flag stays.
Cleared == highlighted \ SubRows

\* Mutant: the rows are added before those of the last selection are cleared.
AddThenClear(grown) == IF subClears > 0 THEN <<>> ELSE grown

\* All removals, and then all additions.  Its own startup sort orders groups,
\* of which it seldom has two: their order is left open.
ClearThenAdd(grown) == grown

SubRest ==
  LET base == IF subClears > 0 THEN <<>> ELSE subItems
      grown == ClearThenAdd(FoldLeft(Insert, base, subAdds))
  IN
  /\ pc = "subStates"
  /\ pc' = "frame"
  /\ subItems' \in Orders(grown)
  /\ subClears' = 0 /\ subAdds' = <<>>
  /\ highlighted' = IF subClears > 0 THEN Cleared ELSE highlighted
  /\ mixed' = IF subClears = 0 THEN mixed ELSE subClears > 1
  /\ UNCHANGED <<topVars, topQueues, isHighlighted, netVars, sorted, orphans, shifted,
                 added, crashed>>

StartTables ==
  /\ pc = "frame" /\ pc' = "states"
  /\ UNCHANGED <<topVars, topQueues, subVars, subQueues, netVars, sorted,
                 tableHistory>>

OnLoop ==
  \/ \E m \in net :
       \/ TopTapBeyond(m) \/ TopTap(m) \/ TopSwipe(m)
       \/ SubTap(m) \/ SubGestureBeyond(m) \/ SubSwipe(m)
  \/ TopRemove \/ TopAdd \/ TopGoesOn \/ TopStartupSort \/ SubRest

-----------------------------------------------------------------------------
\* Once the last tap has been dealt with, the sub-table shows the group that
\* was selected, and nothing when none is: the rows that the top table has in
\* that group, but for those added since the tap, are those that it has of the
\* rows shown.  They make one group in the sub-table as well.  Excepted are two
\* taps dealt with at once, a group in front of the selected one that has gone,
\* and a sort that changed keys by which rows are grouped (OnLoop of the one
\* table against that of the other, through removals, additions and sorts).
SubTableShowsSelection ==
  subClears = 0 /\ ~mixed /\ ~shifted /\ lowered = {} =>
    IF selected = 0 THEN subItems = <<>>
    ELSE /\ Len(subItems) = 1
         /\ ToSet(items[selected]) \ added = (ToSet(subItems[1]) \cap RowsIn(items)) \ added

\* Boids are highlighted only while the sub-table shows their rows, so that a
\* later swipe can take it back (OnLoop: Clear against the swipes).
HighlightedIsShown == highlighted \subseteq SubRows
=============================================================================
