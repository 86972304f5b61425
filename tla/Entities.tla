------------------------------ MODULE Entities ------------------------------
(***************************************************************************)
(* The entities and component pools of star.rg (ecs.hpp, ecs.cpp).  The    *)
(* factories are kept as one record and every operation is an operator    *)
(* from a record to the next one, so that a caller can use several of      *)
(* them in one step of its own:                                            *)
(*   entity    one flag for each identifier handed out so far (id + 1)     *)
(*   released  identifiers waiting to be handed out again, first in first  *)
(*             out                                                         *)
(*   store     for each kind of component the deque of its factory: the    *)
(*             identifiers and the data, slot by slot.                     *)
(* They are two sequences because assigning a component copies its data    *)
(* and leaves its identifier: when std::sort or deque::erase assigns one   *)
(* slot to another, the data moves and the identifier stays.               *)
(***************************************************************************)
EXTENDS Naturals, Sequences, SequencesExt

NoStore == [ids |-> <<>>, data |-> <<>>]

NoEntities(Kinds) ==
    [entity |-> <<>>, released |-> <<>>, store |-> [k \in Kinds |-> NoStore]]

\* std::lower_bound halves the range whether the identifiers are sorted or not;
\* no more rounds than identifiers are needed until the range is empty.
Halved(range, ids, id) ==
    LET half == range.count \div 2
        mid == range.first + half
    IN  IF range.count = 0 THEN range
        ELSE IF ids[mid] < id THEN [first |-> mid + 1, count |-> range.count - half - 1]
                              ELSE [first |-> range.first, count |-> half]

LowerBound(ids, id) ==
    FoldLeft(LAMBDA range, i : Halved(range, ids, id),
             [first |-> 1, count |-> Len(ids)], ids).first

Found(s, id) == LET i == LowerBound(s.ids, id)
                IN  i <= Len(s.ids) /\ s.ids[i] = id

\* deque::erase moves the shorter side over the gap by assignment and then drops
\* the first or the last slot: that slot's identifier goes, whatever was erased.
EraseSlot(s, i) ==
    [ids  |-> IF i - 1 < Len(s.ids) \div 2 THEN Tail(s.ids) ELSE Front(s.ids),
     data |-> RemoveAt(s.data, i)]

\* The insertion sort of std::sort: the slot's data is inserted where its
\* identifier belongs among the slots before it.
SortSlot(s, i) ==
    LET smaller == {j \in 1 .. i - 1 : ~(s.ids[i] < s.ids[j])}
        place == IF s.ids[i] < s.ids[1] THEN 1
                 ELSE 1 + CHOOSE j \in smaller : \A h \in smaller : h <= j
    IN  [s EXCEPT !.data = InsertAt(RemoveAt(@, i), place, s.data[i])]

SortStore(s) == FoldLeft(SortSlot, s, [i \in 1 .. Len(s.ids) - 1 |-> i + 1])

----------------------------------------------------------------------------
Valid(f, id) == id < Len(f.entity) /\ f.entity[id + 1]

NewID(f) == IF f.released = <<>> THEN Len(f.entity) ELSE Head(f.released)

GetNew(f) ==
    IF f.released = <<>>
    THEN [f EXCEPT !.entity = Append(@, TRUE)]
    ELSE [f EXCEPT !.entity[Head(f.released) + 1] = TRUE, !.released = Tail(@)]

OnEntityDelete(s, id) ==
    IF Found(s, id) THEN EraseSlot(s, LowerBound(s.ids, id)) ELSE s

\* A released identifier that jumps the queue.
ReleaseFirst(f, id) ==
    [f EXCEPT !.entity[id + 1] = FALSE, !.released = <<id>> \o @,
              !.store = [k \in DOMAIN @ |-> OnEntityDelete(@[k], id)]]

ReleaseNoLock(f, id) ==
    [f EXCEPT !.entity[id + 1] = FALSE, !.released = Append(@, id),
              !.store = [k \in DOMAIN @ |-> OnEntityDelete(@[k], id)]]

ReleaseUsed(f, i) == IF f.entity[i] THEN ReleaseNoLock(f, i - 1) ELSE f

\* The loop starts one entity late.
ClearButFirst(f) ==
    LET cleared[i \in 0 .. Len(f.entity)] ==
            IF i <= 1 THEN f ELSE ReleaseUsed(cleared[i - 1], i)
    IN  cleared[Len(f.entity)]

Clear(f) ==
    LET cleared[i \in 0 .. Len(f.entity)] ==
            IF i = 0 THEN f ELSE ReleaseUsed(cleared[i - 1], i)
    IN  cleared[Len(f.entity)]

NewComponent(f, k, id, value) ==
    IF Found(f.store[k], id) THEN f
    ELSE [f EXCEPT !.store[k] = SortStore([ids  |-> Append(@.ids, id),
                                           data |-> Append(@.data, value)])]

\* Item throws "Item not found!" when the identifier is not Found.
Item(f, k, id) == f.store[k].data[LowerBound(f.store[k].ids, id)]

SetItem(f, k, id, value) ==
    [f EXCEPT !.store[k].data[LowerBound(f.store[k].ids, id)] = value]

NewUnit(f, id, components) ==
    FoldSet(LAMBDA k, g : NewComponent(g, k, id, components[k]),
            f, DOMAIN components)
=============================================================================
