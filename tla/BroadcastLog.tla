---------------------------- MODULE BroadcastLog ----------------------------
(***************************************************************************)
(* What the broadcast queue promises a program that uses it, with no       *)
(* slots, snapshots or half-done stores: a log that forgets.  The writer   *)
(* never waits; any item at least Capacity - StoreWindow behind the newest *)
(* may be lost; a reader walks the log in order, gets an item that is not  *)
(* lost exactly, may skip lost items, and gets for a lost item either a    *)
(* mixture or something newer, never anything older.                       *)
(***************************************************************************)
EXTENDS Integers

CONSTANTS
    Capacity,     \* slots behind the log
    StoreWindow,  \* how far stores may run ahead of publication
    Readers,
    Nothing,      \* no item has been handed over yet
    Mixture       \* bytes of several items

VARIABLES
    published,  \* number of items readers can see
    lost,       \* items the writer may have overwritten
    joined,     \* readers that walk the log
    cursor,     \* next position of each reader
    got         \* last thing handed to each reader: position and item

logVars == <<published, lost, joined, cursor, got>>

Init ==
    /\ published = 0
    /\ lost = {}
    /\ joined = {}
    /\ cursor = [r \in Readers |-> 0]
    /\ got = [r \in Readers |-> Nothing]

Publish ==
    /\ published' = published + 1
    /\ UNCHANGED <<lost, joined, cursor, got>>

\* Everything but the newest Capacity - StoreWindow published items.
Losable == 0..(published + StoreWindow - Capacity - 1)

\* The writer comes round to the slot of item i.
Lose(i) ==
    /\ lost' = lost \cup {i}
    /\ UNCHANGED <<published, joined, cursor, got>>

\* A reader joins at the end of the log, or one item before it.
Join(r) ==
    /\ r \notin joined
    /\ joined' = joined \cup {r}
    /\ \E p \in {published, published - 1} \cap Nat :
          cursor' = [cursor EXCEPT ![r] = p]
    /\ UNCHANGED <<published, lost, got>>

Leave(r) ==
    /\ r \in joined
    /\ joined' = joined \ {r}
    /\ got' = [got EXCEPT ![r] = Nothing]
    /\ UNCHANGED <<published, lost, cursor>>

Skip(r) ==
    /\ r \in joined
    /\ \E p \in (cursor[r] + 1)..published :
          /\ \A i \in cursor[r]..(p - 1) : i \in lost
          /\ cursor' = [cursor EXCEPT ![r] = p]
    /\ UNCHANGED <<published, lost, joined, got>>

\* What the memory may hold where the next item of a reader should be.
Readable(r) == cursor[r]..(published + StoreWindow - 1) \cup {Mixture}

\* Handed an item that is there, the reader gets that item and no other.
Deliver(r, item) ==
    /\ r \in joined
    /\ cursor[r] < published
    /\ cursor[r] \notin lost => item = cursor[r]
    /\ got' = [got EXCEPT ![r] = <<cursor[r], item>>]
    /\ cursor' = [cursor EXCEPT ![r] = cursor[r] + 1]
    /\ UNCHANGED <<published, lost, joined>>

Next ==
    \/ Publish
    \/ \E i \in Losable : Lose(i)
    \/ \E r \in Readers : Join(r) \/ Leave(r) \/ Skip(r)
    \/ \E r \in Readers : \E item \in Readable(r) : Deliver(r, item)

LogSpec == Init /\ [][Next]_logVars
=============================================================================
