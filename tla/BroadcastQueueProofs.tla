------------------------ MODULE BroadcastQueueProofs ------------------------
(***************************************************************************)
(* Proofs about BroadcastQueue for every Capacity, every StoreWindow, any  *)
(* sets of readers and any number of pushes.                               *)
(***************************************************************************)
EXTENDS BroadcastQueue, TLAPS

-----------------------------------------------------------------------------
(* Arithmetic of the slots: `idx & (Capacity - 1)` is idx % Capacity.      *)

(* The slot of an item is a slot of the buffer.                            *)
LEMMA AtType == \A i \in Nat : At(i) \in Slots
  BY QueueAssumption DEF At, Slots

(* Quotient and remainder.                                                 *)
LEMMA DivMod ==
  \A i \in Nat : /\ i = Capacity * (i \div Capacity) + (i % Capacity)
                 /\ i \div Capacity \in Nat
                 /\ i % Capacity \in 0..(Capacity - 1)
  BY QueueAssumption

(* Two items less than a lap apart have different slots.                   *)
LEMMA WithinALap ==
  ASSUME NEW i \in Nat, NEW j \in Nat, i < j, j < i + Capacity
  PROVE  At(i) # At(j)
<1> SUFFICES ASSUME i % Capacity = j % Capacity PROVE FALSE
  BY DEF At
<1> DEFINE qi == i \div Capacity
           qj == j \div Capacity
           r == i % Capacity
<1>1. /\ i = Capacity * qi + r
      /\ j = Capacity * qj + r
      /\ qi \in Nat
      /\ qj \in Nat
      /\ r \in 0..(Capacity - 1)
  BY DivMod
<1> HIDE DEF qi, qj, r
<1>2. Capacity * qj > Capacity * qi
  BY <1>1, QueueAssumption
<1>3. qj >= qi + 1
  BY <1>2, <1>1, QueueAssumption
<1>4. Capacity * qj >= Capacity * (qi + 1)
  BY <1>3, <1>1, QueueAssumption
<1>5. Capacity * (qi + 1) = Capacity * qi + Capacity
  BY <1>1, QueueAssumption
<1> QED BY <1>4, <1>5, <1>1, QueueAssumption

(* An item and the one a lap later share their slot.                       *)
LEMMA ALapApart == \A i \in Nat : At(i + Capacity) = At(i)
<1> SUFFICES ASSUME NEW i \in Nat
             PROVE  (i + Capacity) % Capacity = i % Capacity
  BY DEF At
<1> DEFINE q == i \div Capacity
           r == i % Capacity
           p == (i + Capacity) \div Capacity
           s == (i + Capacity) % Capacity
<1>1. /\ i = Capacity * q + r
      /\ q \in Nat
      /\ r \in 0..(Capacity - 1)
  BY DivMod
<1>2. /\ i + Capacity = Capacity * p + s
      /\ p \in Nat
      /\ s \in 0..(Capacity - 1)
  BY DivMod, QueueAssumption
<1> HIDE DEF p, q, r, s
<1>3. /\ Capacity * (q + 1) = Capacity * q + Capacity
      /\ Capacity * (q + 2) = Capacity * q + Capacity + Capacity
  BY <1>1, QueueAssumption
<1>4. ASSUME p > q + 1 PROVE FALSE
  <2>1. Capacity * p >= Capacity * (q + 2)
    BY <1>4, <1>1, <1>2, QueueAssumption
  <2> QED BY <2>1, <1>1, <1>2, <1>3, QueueAssumption
<1>5. ASSUME p < q + 1 PROVE FALSE
  <2>1. Capacity * p <= Capacity * q
    BY <1>5, <1>1, <1>2, QueueAssumption
  <2> QED BY <2>1, <1>1, <1>2, QueueAssumption
<1>6. p = q + 1
  BY <1>4, <1>5, <1>1, <1>2
<1>7. Capacity * p = Capacity * q + Capacity
  BY <1>6, <1>3
<1>8. s = r
  BY <1>7, <1>1, <1>2, QueueAssumption
<1> QED BY <1>8 DEF r, s

-----------------------------------------------------------------------------
(* Type correctness.                                                       *)

\* The two tests inside the actions, expanded wherever an action is.
USE DEF LoopTest, Publishable

(* What every step does to the numbers of items begun and to the window.   *)
LEMMA WriterStepTypeOK ==
  ASSUME TypeOK, Push PROVE TypeOK'
<1> USE QueueAssumption DEF TypeOK, writerVars, readerVars, Contents
<1>1. ASSUME NEW i \in writeIdx..(writeIdx + StoreWindow - 1), StoreBegin(i)
      PROVE  TypeOK'
  BY <1>1 DEF StoreBegin, Begun
<1>2. ASSUME NEW i \in writeIdx..(writeIdx + StoreWindow - 1), StoreEnd(i)
      PROVE  TypeOK'
  <2>1. i \in Nat /\ i \in Contents
    OBVIOUS
  <2>2. slot' \in [Slots -> Contents]
    BY <1>2, <2>1 DEF StoreEnd
  <2>3. /\ storing' \subseteq writeIdx..(writeIdx + StoreWindow - 1)
        /\ stored' \subseteq writeIdx..(writeIdx + StoreWindow - 1)
        /\ storing' \cap stored' = {}
    BY <1>2 DEF StoreEnd
  <2> QED BY <1>2, <2>2, <2>3 DEF StoreEnd
<1>3. CASE Publish
  BY <1>3 DEF Publish
<1> QED BY <1>1, <1>2, <1>3 DEF Push

(* A reader stays within its types, and behind the index.                  *)
LEMMA ReaderStepTypeOK ==
  ASSUME TypeOK, NEW r \in Readers, Reader(r) PROVE TypeOK'
<1> USE QueueAssumption DEF TypeOK, writerVars, readerVars
<1>1. ASSUME NEW p \in Nat, p <= writeIdx, JoinAt(r, p) PROVE TypeOK'
  BY <1>1 DEF JoinAt
<1>2. CASE Attach(r)
  BY <1>1, <1>2 DEF Attach
<1>3. CASE AttachOneBack(r)
  BY <1>1, <1>3 DEF AttachOneBack
<1>4. CASE Detach(r)
  BY <1>4 DEF Detach, Deliveries, NoDelivery, Contents, Zeroed
<1>5. CASE ConsumeBegin(r)
  <2>1. ClampedPos(r) \in Nat /\ ClampedPos(r) <= writeIdx
    BY DEF ClampedPos
  <2> QED BY <1>5, <2>1 DEF ConsumeBegin
<1>6. CASE ReadStart(r)
  <2>1. slot[At(pos[r])] \in Contents
    BY AtType
  <2> QED BY <1>6, <2>1 DEF ReadStart
<1>7. CASE ReadFinish(r)
  <2>1. WhatIsRead(r) \in Contents
    BY DEF WhatIsRead, Contents
  <2>2. Lapped(pos[r]) \in BOOLEAN
    BY DEF Lapped, Begun
  <2> DEFINE d == [pos |-> pos[r], item |-> WhatIsRead(r), lapped |-> Lapped(pos[r])]
  <2>3. d \in Deliveries
    BY <2>1, <2>2 DEF Deliveries
  <2> HIDE DEF d
  <2>4. delivery' = [delivery EXCEPT ![r] = d]
    BY <1>7 DEF ReadFinish, d
  <2> QED BY <1>7, <2>3, <2>4 DEF ReadFinish, Contents, Zeroed
<1> QED BY <1>2, <1>3, <1>4, <1>5, <1>6, <1>7 DEF Reader

(* The queue is empty and has no readers at first.                         *)
LEMMA InitTypeOK == Init => TypeOK
  BY QueueAssumption DEF Init, TypeOK, Contents, Deliveries, NoDelivery, Zeroed

(* Every step keeps the types.                                             *)
LEMMA StepTypeOK == TypeOK /\ [Next]_vars => TypeOK'
<1> SUFFICES ASSUME TypeOK, [Next]_vars PROVE TypeOK'
  OBVIOUS
<1>1. CASE UNCHANGED vars
  BY <1>1 DEF vars, TypeOK
<1>2. CASE Next
  BY <1>2, WriterStepTypeOK, ReaderStepTypeOK DEF Next
<1> QED BY <1>1, <1>2

(* The types hold, and no consumer is ever ahead of its snapshot nor its   *)
(* snapshot ahead of the writer.                                           *)
THEOREM TypeCorrect == Spec => []TypeOK
  BY InitTypeOK, StepTypeOK, PTL DEF Spec

-----------------------------------------------------------------------------
(* What the slots hold, and what a reader half-way through a read holds.   *)

Complete(i) == i < writeIdx \/ i \in stored
Held == 0..(writeIdx + StoreWindow - 1)

\* The slot of a stored item holds that item until a later one is begun
\* there, and from then on a mixture or a later item.
SlotInv ==
    \A i \in Held : Complete(i) =>
        /\ slot[At(i)] = Torn \/ slot[At(i)] >= i
        /\ ~Lapped(i) => slot[At(i)] = i

\* The same of what a reader has taken from the slot of its position.
HalfInv ==
    \A r \in Readers : phase[r] = "reading" =>
        /\ half[r] = Torn \/ half[r] >= pos[r]
        /\ ~Lapped(pos[r]) => half[r] = pos[r]

IInv ==
    /\ TypeOK
    /\ SlotInv
    /\ HalfInv
    /\ DeliveredUnlessLapped
    /\ NeverStale

(* A store once begun stays begun.                                         *)
LEMMA BegunStays ==
  ASSUME TypeOK, Push, NEW i \in Nat, Begun(i) PROVE Begun(i)'
  BY DEF Push, StoreBegin, StoreEnd, Publish, Begun, TypeOK

(* An item whose lap is over cannot be brought back by a store in the      *)
(* window: everything a lap before a begun item is published.              *)
LEMMA SameSlot ==
  ASSUME TypeOK, NEW i \in Held, NEW j \in writeIdx..(writeIdx + StoreWindow - 1),
         Complete(i), At(i) = At(j), ~Lapped(i)
  PROVE  j = i \/ j = i + Capacity
<1> USE QueueAssumption DEF TypeOK, Held, Complete, Lapped, Begun
<1>1. /\ i \in Nat
      /\ j \in Nat
      /\ i + Capacity \in Nat
      /\ i + Capacity >= writeIdx
  OBVIOUS
<1>2. ~(i < j /\ j < i + Capacity)
  BY <1>1, WithinALap
<1>3. ~(j < i /\ i < j + Capacity)
  BY <1>1, WithinALap
<1>4. i < j + Capacity
  OBVIOUS
<1>5. ~(i + Capacity < j)
  <2>1. j < i + Capacity + Capacity
    BY <1>1
  <2>2. At(i + Capacity) = At(j)
    BY <1>1, ALapApart
  <2> QED BY <1>1, <2>1, <2>2, WithinALap
<1> QED BY <1>1, <1>2, <1>3, <1>4, <1>5

(* A store in the window never ends in the slot of a complete later item.  *)
LEMMA NoLaterComplete ==
  ASSUME TypeOK, NEW i \in Held, NEW j \in writeIdx..(writeIdx + StoreWindow - 1),
         Complete(i), At(i) = At(j)
  PROVE  i <= j
<1> USE QueueAssumption DEF TypeOK, Held, Complete
<1>1. i \in Nat /\ j \in Nat /\ i < j + Capacity
  OBVIOUS
<1> QED BY <1>1, WithinALap

(* A store touches the slot of its own item, and of those it laps.         *)
LEMMA PushSlotInv ==
  ASSUME TypeOK, TypeOK', SlotInv, Push PROVE SlotInv'
<1> DEFINE Window == writeIdx..(writeIdx + StoreWindow - 1)
<1>0. \A i \in Held : i \in Nat /\ i + Capacity \in Nat /\ At(i) \in Slots
  BY AtType, QueueAssumption DEF Held, TypeOK
<1>1. \A i \in Held : ~Lapped(i)' => ~Lapped(i)
  BY <1>0, BegunStays DEF Lapped
<1>2. ASSUME NEW j \in Window, StoreBegin(j) PROVE SlotInv'
  <2> SUFFICES ASSUME NEW i \in Held, Complete(i)
               PROVE  /\ slot'[At(i)] = Torn \/ slot'[At(i)] >= i
                      /\ ~Lapped(i)' => slot'[At(i)] = i
    BY <1>2 DEF SlotInv, StoreBegin, Held, Complete, At
  <2>1. slot \in [Slots -> Contents] /\ At(i) \in Slots
    BY <1>0 DEF TypeOK
  <2>2. CASE At(i) = At(j)
    <3>1. slot'[At(i)] = Torn
      BY <1>2, <2>1, <2>2 DEF StoreBegin
    <3>2. j # i
      BY <1>2 DEF StoreBegin, Complete, Begun
    <3>3. j = i + Capacity => Lapped(i)'
      BY <1>2 DEF StoreBegin, Lapped, Begun
    <3> QED BY <3>1, <3>2, <3>3, <1>1, <2>2, SameSlot
  <2>3. CASE At(i) # At(j)
    <3>1. slot'[At(i)] = slot[At(i)]
      BY <1>2, <2>1, <2>3 DEF StoreBegin
    <3> QED BY <3>1, <1>1 DEF SlotInv
  <2> QED BY <2>2, <2>3
<1>3. ASSUME NEW j \in Window, StoreEnd(j) PROVE SlotInv'
  <2>0. j \in Nat /\ j \in Held
    BY DEF Held, TypeOK
  <2> SUFFICES ASSUME NEW i \in Held, Complete(i) \/ i = j
               PROVE  /\ slot'[At(i)] = Torn \/ slot'[At(i)] >= i
                      /\ ~Lapped(i)' => slot'[At(i)] = i
    BY <1>3 DEF SlotInv, StoreEnd, Held, Complete, At
  <2>1. slot \in [Slots -> Contents] /\ At(i) \in Slots /\ i \in Nat
    BY <1>0 DEF TypeOK
  <2>2. CASE i = j
    <3>1. slot'[At(i)] = i
      BY <1>3, <2>1, <2>2 DEF StoreEnd
    <3> QED BY <3>1, <2>1
  <2>3. CASE Complete(i) /\ At(i) = At(j)
    <3>1. slot'[At(i)] = j
      BY <1>3, <2>1, <2>3 DEF StoreEnd
    <3>2. i <= j
      BY <2>3, NoLaterComplete
    <3>3. j = i + Capacity => Lapped(i)
      BY <1>3 DEF StoreEnd, Lapped, Begun
    <3> QED BY <3>1, <3>2, <3>3, <2>0, <2>1, <1>1, <2>3, SameSlot
  <2>4. CASE Complete(i) /\ At(i) # At(j)
    <3>1. slot'[At(i)] = slot[At(i)]
      BY <1>3, <2>1, <2>4 DEF StoreEnd
    <3> QED BY <3>1, <2>4, <1>1 DEF SlotInv
  <2> QED BY <2>2, <2>3, <2>4
<1>4. CASE Publish
  <2>1. \A i \in Held' : Complete(i)' => i \in Held /\ Complete(i)
    BY <1>4, QueueAssumption DEF Publish, Held, Complete, TypeOK
  <2> QED BY <1>4, <2>1, <1>1 DEF SlotInv, Publish
<1> QED BY <1>2, <1>3, <1>4 DEF Push

(* A published position inside a reader's loop.                            *)
LEMMA PosHeld ==
  ASSUME TypeOK, NEW r \in Readers, phase[r] \in {"looping", "reading"}
  PROVE  pos[r] \in Held /\ Complete(pos[r])
  BY QueueAssumption DEF TypeOK, Held, Complete

(* The writer keeps the invariant.                                         *)
LEMMA PushIInv ==
  ASSUME IInv, Push PROVE IInv'
<1>1. TypeOK'
  BY WriterStepTypeOK DEF IInv
<1>2. SlotInv'
  BY <1>1, PushSlotInv DEF IInv
<1>3. UNCHANGED readerVars
  BY DEF Push, StoreBegin, StoreEnd, Publish
<1>4. HalfInv'
  <2>1. \A r \in Readers : Lapped(pos[r]) => Lapped(pos[r])'
    <3>1. \A r \in Readers : pos[r] + Capacity \in Nat
      BY QueueAssumption DEF IInv, TypeOK
    <3> QED BY <3>1, <1>3, BegunStays DEF IInv, Lapped, readerVars
  <2> QED BY <1>3, <2>1 DEF IInv, HalfInv, readerVars
<1>5. DeliveredUnlessLapped' /\ NeverStale'
  BY <1>3 DEF IInv, DeliveredUnlessLapped, NeverStale, readerVars
<1> QED BY <1>1, <1>2, <1>4, <1>5 DEF IInv

(* A step of a reader leaves the slots alone, and only its own loop moves. *)
LEMMA ReaderIInv ==
  ASSUME IInv, NEW r \in Readers, Reader(r) PROVE IInv'
<1> USE DEF readerVars, writerVars
<1>1. TypeOK /\ TypeOK'
  BY ReaderStepTypeOK DEF IInv
<1>2. UNCHANGED writerVars
  BY DEF Reader, Attach, AttachOneBack, JoinAt, Detach, ConsumeBegin,
         ReadStart, ReadFinish
<1>3. SlotInv'
  BY <1>2 DEF IInv, SlotInv, Held, Complete, Lapped, Begun, At
<1>4. ASSUME UNCHANGED <<half, delivery>>,
             \A q \in Readers : phase'[q] = "reading" =>
                                   phase[q] = "reading" /\ pos'[q] = pos[q]
      PROVE  IInv'
  <2>1. HalfInv'
    BY <1>2, <1>4 DEF IInv, HalfInv, Lapped, Begun
  <2>2. DeliveredUnlessLapped' /\ NeverStale'
    BY <1>4 DEF IInv, DeliveredUnlessLapped, NeverStale
  <2> QED BY <1>1, <1>3, <2>1, <2>2 DEF IInv
<1>5. CASE Attach(r) \/ AttachOneBack(r)
  <2>1. PICK p : JoinAt(r, p)
    BY <1>5 DEF Attach, AttachOneBack
  <2> QED BY <1>1, <1>4, <2>1 DEF JoinAt, TypeOK
<1>6. CASE Detach(r)
  <2>1. HalfInv'
    BY <1>1, <1>2, <1>6 DEF Detach, IInv, HalfInv, TypeOK, Lapped, Begun
  <2>2. DeliveredUnlessLapped' /\ NeverStale'
    BY <1>1, <1>6 DEF Detach, IInv, DeliveredUnlessLapped, NeverStale,
                      TypeOK, NoDelivery, Zeroed
  <2> QED BY <1>1, <1>3, <2>1, <2>2 DEF IInv
<1>7. CASE ConsumeBegin(r)
  BY <1>1, <1>4, <1>7 DEF ConsumeBegin, TypeOK
<1>8. CASE ReadStart(r)
  <2>1. pos[r] \in Held /\ Complete(pos[r])
    BY <1>1, <1>8, PosHeld DEF ReadStart
  <2>2. HalfInv'
    BY <1>1, <1>2, <1>8, <2>1
       DEF ReadStart, IInv, SlotInv, HalfInv, TypeOK, Lapped, Begun
  <2>3. DeliveredUnlessLapped' /\ NeverStale'
    BY <1>8 DEF ReadStart, IInv, DeliveredUnlessLapped, NeverStale
  <2> QED BY <1>1, <1>3, <2>2, <2>3 DEF IInv
<1>9. CASE ReadFinish(r)
  <2>1. pos[r] \in Held /\ Complete(pos[r])
    BY <1>1, <1>9, PosHeld DEF ReadFinish
  <2>2. /\ WhatIsRead(r) = Torn \/ WhatIsRead(r) >= pos[r]
        /\ ~Lapped(pos[r]) => WhatIsRead(r) = pos[r]
    BY <1>9, <2>1 DEF ReadFinish, WhatIsRead, IInv, SlotInv, HalfInv
  <2> DEFINE d == [pos |-> pos[r], item |-> WhatIsRead(r), lapped |-> Lapped(pos[r])]
  <2>3. /\ delivery' = [delivery EXCEPT ![r] = d]
        /\ delivery \in [Readers -> Deliveries]
    BY <1>1, <1>9 DEF ReadFinish, TypeOK
  <2>4. /\ ~d.lapped => d.item = d.pos
        /\ d.item = Torn \/ d.item >= d.pos
    BY <2>2
  <2> HIDE DEF d
  <2>5. DeliveredUnlessLapped' /\ NeverStale'
    BY <2>3, <2>4 DEF IInv, DeliveredUnlessLapped, NeverStale
  <2>6. HalfInv'
    BY <1>1, <1>2, <1>9 DEF ReadFinish, IInv, HalfInv, TypeOK, Lapped, Begun
  <2> QED BY <1>1, <1>3, <2>5, <2>6 DEF IInv
<1> QED BY <1>5, <1>6, <1>7, <1>8, <1>9 DEF Reader

(* Nothing is stored and nothing is read at first.                         *)
LEMMA InitIInv == Init => IInv
<1> SUFFICES ASSUME Init PROVE IInv
  OBVIOUS
<1>1. TypeOK
  BY InitTypeOK
<1>2. \A i \in Held : ~Complete(i)
  BY QueueAssumption DEF Init, Held, Complete
<1> QED BY <1>1, <1>2 DEF Init, IInv, SlotInv, HalfInv, DeliveredUnlessLapped,
                          NeverStale, NoDelivery, Zeroed

(* Every step keeps the invariant.                                         *)
LEMMA StepIInv == IInv /\ [Next]_vars => IInv'
<1> SUFFICES ASSUME IInv, [Next]_vars PROVE IInv'
  OBVIOUS
<1>1. CASE Next
  BY <1>1, PushIInv, ReaderIInv DEF Next
<1>2. CASE UNCHANGED vars
  <2>1. TypeOK'
    BY <1>2, StepTypeOK DEF IInv
  <2>2. SlotInv' /\ HalfInv'
    BY <1>2 DEF vars, IInv, SlotInv, HalfInv, Held, Complete, Lapped, Begun, At
  <2>3. DeliveredUnlessLapped' /\ NeverStale'
    BY <1>2 DEF vars, IInv, DeliveredUnlessLapped, NeverStale
  <2> QED BY <2>1, <2>2, <2>3 DEF IInv
<1> QED BY <1>1, <1>2

(* So it holds always.                                                     *)
LEMMA SpecIInv == Spec => []IInv
  BY InitIInv, StepIInv, PTL DEF Spec

(* A consumer that has not been lapped by the end of its read gets exactly *)
(* the item of its position, whole, for every capacity, store window and   *)
(* number of readers: push() and consume() need no lock for that.          *)
THEOREM DeliveryCorrect == Spec => []DeliveredUnlessLapped
<1>1. IInv => DeliveredUnlessLapped
  BY DEF IInv
<1> QED BY <1>1, SpecIInv, PTL

(* No callback ever gets the zeroes of a fresh segment or an item of an    *)
(* earlier lap: push() stores the item before it publishes the index.      *)
THEOREM NeverStaleCorrect == Spec => []NeverStale
<1>1. IInv => NeverStale
  BY DEF IInv
<1> QED BY <1>1, SpecIInv, PTL

-----------------------------------------------------------------------------
(* A position is passed with a callback or because its item is gone.       *)
LEMMA StepSkips ==
  ASSUME TypeOK, [Next]_vars, NEW r \in Readers,
         phase[r] # "detached", phase'[r] # "detached",
         NEW p \in pos[r]..(pos'[r] - 1)
  PROVE  Lapped(p) \/ (delivery'[r].pos = p /\ phase[r] = "reading")
<1> USE DEF TypeOK
<1>1. CASE pos'[r] = pos[r]
  BY <1>1
<1>2. ASSUME NEW q \in Readers, ConsumeBegin(q), pos'[r] # pos[r]
      PROVE  Lapped(p)
  <2>1. pos'[r] = writeIdx - Capacity
    BY <1>2 DEF ConsumeBegin, ClampedPos
  <2> QED BY <2>1, QueueAssumption DEF Lapped, Begun
<1>3. ASSUME NEW q \in Readers, ReadFinish(q), pos'[r] # pos[r]
      PROVE  delivery'[r].pos = p /\ phase[r] = "reading"
  BY <1>3 DEF ReadFinish
<1>4. ASSUME NEW q \in Readers, JoinAt(q, pos'[q]) \/ Detach(q) \/ ReadStart(q)
      PROVE  pos'[r] = pos[r]
  BY <1>4 DEF JoinAt, Detach, ReadStart
<1>5. ASSUME NEW q \in Readers, Attach(q) \/ AttachOneBack(q)
      PROVE  JoinAt(q, pos'[q])
  BY <1>5 DEF Attach, AttachOneBack, JoinAt
<1>6. CASE Push \/ UNCHANGED vars
  BY <1>1, <1>6 DEF Push, StoreBegin, StoreEnd, Publish, readerVars, vars
<1> QED BY <1>1, <1>2, <1>3, <1>4, <1>5, <1>6 DEF Next, Reader

(* No consumer loses an item that is still in the buffer: the clamp of     *)
(* shm_reader.py skips overwritten items only and consume() none.          *)
THEOREM SkipsCorrect == Spec => SkipsOnlyOverwritten
<1>1. TypeOK /\ [Next]_vars =>
        [\A r \in Readers :
          (phase[r] # "detached" /\ phase'[r] # "detached") =>
             \A p \in pos[r]..(pos'[r] - 1) :
                 Lapped(p) \/ (delivery'[r].pos = p /\ phase[r] = "reading")]_vars
  BY StepSkips
<1> QED BY <1>1, TypeCorrect, PTL DEF Spec, SkipsOnlyOverwritten

-----------------------------------------------------------------------------
(* The queue implements the log.                                           *)

\* Nothing beyond the store window is in memory or in a reader's hands.
BoundInv ==
    /\ \A s \in Slots : slot[s] < writeIdx + StoreWindow
    /\ \A r \in Readers : half[r] < writeIdx + StoreWindow

(* No store is under way at first.                                         *)
LEMMA InitBoundInv == Init => BoundInv
  BY QueueAssumption DEF Init, BoundInv, Zeroed

(* Stores run ahead of the index by the window at most.                    *)
LEMMA StepBoundInv == TypeOK /\ BoundInv /\ [Next]_vars => BoundInv'
<1> SUFFICES ASSUME TypeOK, BoundInv, [Next]_vars PROVE BoundInv'
  OBVIOUS
<1> USE QueueAssumption DEF TypeOK, BoundInv, writerVars, readerVars
<1>1. ASSUME NEW i \in writeIdx..(writeIdx + StoreWindow - 1), StoreBegin(i)
      PROVE  BoundInv'
  BY <1>1 DEF StoreBegin, Torn
<1>2. ASSUME NEW i \in writeIdx..(writeIdx + StoreWindow - 1), StoreEnd(i)
      PROVE  BoundInv'
  BY <1>2 DEF StoreEnd
<1>3. CASE Publish
  <2>1. \A s \in Slots : slot[s] \in Int
    BY DEF Contents, Zeroed, Torn
  <2>2. \A r \in Readers : half[r] \in Int
    BY DEF Contents, Zeroed, Torn
  <2> QED BY <1>3, <2>1, <2>2 DEF Publish
<1>4. ASSUME NEW r \in Readers, ReadStart(r) PROVE BoundInv'
  BY <1>4, AtType DEF ReadStart
<1>5. ASSUME NEW r \in Readers, Detach(r) \/ ReadFinish(r) PROVE BoundInv'
  BY <1>5 DEF Detach, ReadFinish, Zeroed
<1>6. ASSUME NEW r \in Readers, Attach(r) \/ AttachOneBack(r) \/ ConsumeBegin(r)
      PROVE  BoundInv'
  BY <1>6 DEF Attach, AttachOneBack, JoinAt, ConsumeBegin
<1>7. CASE UNCHANGED vars
  BY <1>7 DEF vars
<1> QED BY <1>1, <1>2, <1>3, <1>4, <1>5, <1>6, <1>7 DEF Next, Push, Reader

(* The steps that change nothing the writer owns leave LostItems alone.    *)
LEMMA SameLost ==
  ASSUME UNCHANGED writerVars PROVE LostItems' = LostItems
  BY DEF writerVars, LostItems, Lapped, Begun

(* An item whose slot is reused is one the abstract log may forget.        *)
LEMMA LapIsLosable ==
  ASSUME TypeOK, NEW i \in Nat, Lapped(i) PROVE i \in LostItems
  BY QueueAssumption DEF TypeOK, Lapped, Begun, LostItems

(* A step of the writer is a push of the abstract log, or a stutter.       *)
LEMMA PushImplements == ASSUME TypeOK, Push PROVE [Log!Next]_(Log!logVars)
<1> USE QueueAssumption DEF TypeOK, readerVars
<1>0. UNCHANGED <<phase, pos, delivery>>
  BY DEF Push, StoreBegin, StoreEnd, Publish
<1>1. ASSUME NEW j \in writeIdx..(writeIdx + StoreWindow - 1), StoreBegin(j)
      PROVE  [Log!Next]_(Log!logVars)
  <2>1. \A i \in Nat : Lapped(i)' <=> Lapped(i) \/ i + Capacity = j
    BY <1>1 DEF StoreBegin, Lapped, Begun
  <2>2. CASE j >= Capacity
    <3> DEFINE i == j - Capacity
    <3>1. i \in Log!Losable /\ i \in Nat
      BY <2>2 DEF Log!Losable
    <3>2. LostItems' = LostItems \cup {i}
      BY <1>1, <2>1, <3>1 DEF StoreBegin, LostItems
    <3>3. Log!Lose(i)
      BY <1>0, <1>1, <3>2 DEF Log!Lose, StoreBegin
    <3> QED BY <3>1, <3>3 DEF Log!Next
  <2>3. CASE j < Capacity
    <3>1. LostItems' = LostItems
      BY <1>1, <2>1, <2>3 DEF StoreBegin, LostItems
    <3> QED BY <1>0, <1>1, <3>1 DEF Log!logVars, StoreBegin
  <2> QED BY <2>2, <2>3
<1>2. ASSUME NEW j \in writeIdx..(writeIdx + StoreWindow - 1), StoreEnd(j)
      PROVE  [Log!Next]_(Log!logVars)
  <2>1. LostItems' = LostItems
    BY <1>2 DEF StoreEnd, LostItems, Lapped, Begun
  <2> QED BY <1>0, <1>2, <2>1 DEF Log!logVars, StoreEnd
<1>3. CASE Publish
  <2>1. \A i \in Nat : Lapped(i)' <=> Lapped(i)
    BY <1>3 DEF Publish, Lapped, Begun
  <2>2. \A i \in Nat : Lapped(i) => i < writeIdx + StoreWindow - Capacity
    BY DEF Lapped, Begun
  <2>3. LostItems' = LostItems
    BY <1>3, <2>1, <2>2 DEF Publish, LostItems
  <2>4. Log!Publish
    BY <1>0, <1>3, <2>3 DEF Log!Publish, Publish
  <2> QED BY <2>4 DEF Log!Next
<1> QED BY <1>1, <1>2, <1>3 DEF Push

Joined == {r \in Readers : phase[r] # "detached"}
Got == [r \in Readers |-> IF delivery[r] = NoDelivery THEN <<>>
                          ELSE <<delivery[r].pos, delivery[r].item>>]

\* IInv and BoundInv are all the implementation proof needs of a state.
LEMMA ReaderImplements ==
  ASSUME IInv, BoundInv, NEW r \in Readers, Reader(r)
  PROVE  [Log!Next]_(Log!logVars)
<1> USE DEF readerVars, writerVars, Joined, Got
<1>0. TypeOK
  BY DEF IInv
<1>1. UNCHANGED writerVars
  BY DEF Reader, Attach, AttachOneBack, JoinAt, Detach, ConsumeBegin,
         ReadStart, ReadFinish
<1>2. LostItems' = LostItems /\ writeIdx' = writeIdx
  BY <1>1, SameLost
<1>3. CASE Attach(r) \/ AttachOneBack(r)
  <2>1. PICK p \in {writeIdx, writeIdx - 1} \cap Nat : JoinAt(r, p)
    BY <1>0, <1>3 DEF Attach, AttachOneBack, TypeOK
  <2>2. Joined' = Joined \cup {r} /\ r \notin Joined /\ Got' = Got
    BY <1>0, <2>1 DEF JoinAt, TypeOK
  <2>3. Log!Join(r)
    BY <1>2, <2>1, <2>2 DEF Log!Join, JoinAt
  <2> QED BY <2>3 DEF Log!Next
<1>4. CASE Detach(r)
  <2>1. Joined' = Joined \ {r} /\ r \in Joined
    BY <1>0, <1>4 DEF Detach, TypeOK
  <2>2. Got' = [Got EXCEPT ![r] = <<>>]
    BY <1>0, <1>4 DEF Detach, TypeOK
  <2>3. Log!Leave(r)
    BY <1>2, <1>4, <2>1, <2>2 DEF Log!Leave, Detach
  <2> QED BY <2>3 DEF Log!Next
<1>5. CASE ConsumeBegin(r)
  <2>1. Joined' = Joined /\ r \in Joined /\ Got' = Got
    BY <1>0, <1>5 DEF ConsumeBegin, TypeOK
  <2>2. CASE ClampedPos(r) = pos[r]
    <3>1. pos' = pos
      BY <1>0, <1>5, <2>2 DEF ConsumeBegin, TypeOK
    <3> QED BY <1>2, <2>1, <3>1 DEF Log!logVars
  <2>3. CASE ClampedPos(r) # pos[r]
    <3> DEFINE p == writeIdx - Capacity
    <3>1. pos' = [pos EXCEPT ![r] = p] /\ p \in (pos[r] + 1)..writeIdx
      <4>1. ClampedPos(r) = p /\ writeIdx - pos[r] > Capacity
        BY <2>3 DEF ClampedPos
      <4>2. pos[r] \in Nat /\ writeIdx \in Nat
        BY <1>0 DEF TypeOK
      <4>3. pos' = [pos EXCEPT ![r] = ClampedPos(r)]
        BY <1>5 DEF ConsumeBegin
      <4> QED BY <4>1, <4>2, <4>3, QueueAssumption
    <3>2. \A i \in pos[r]..(p - 1) : i \in Nat /\ Lapped(i)
      BY <1>0, QueueAssumption DEF TypeOK, Lapped, Begun
    <3>3. \A i \in pos[r]..(p - 1) : i \in LostItems
      BY <1>0, <3>2, LapIsLosable
    <3>4. Log!Skip(r)
      BY <1>2, <2>1, <3>1, <3>3 DEF Log!Skip
    <3> QED BY <3>4 DEF Log!Next
  <2> QED BY <2>2, <2>3
<1>6. CASE ReadStart(r)
  <2>1. Joined' = Joined /\ Got' = Got /\ pos' = pos
    BY <1>0, <1>6 DEF ReadStart, TypeOK
  <2> QED BY <1>2, <2>1 DEF Log!logVars
<1>7. CASE ReadFinish(r)
  <2> PICK item : item = WhatIsRead(r)
    OBVIOUS
  <2> DEFINE d == [pos |-> pos[r], item |-> item, lapped |-> Lapped(pos[r])]
  <2>0. pos[r] \in Nat /\ pos[r] < writeIdx
    BY <1>0, <1>7 DEF ReadFinish, TypeOK
  <2>1. Joined' = Joined /\ r \in Joined
    BY <1>0, <1>7 DEF ReadFinish, TypeOK
  <2>2. delivery' = [delivery EXCEPT ![r] = d]
    BY <1>7 DEF ReadFinish
  <2>3. d # NoDelivery /\ d.pos = pos[r] /\ d.item = item
    BY <2>0 DEF NoDelivery
  <2> HIDE DEF d
  <2>4. Got' = [Got EXCEPT ![r] = <<pos[r], item>>]
    BY <1>0, <2>2, <2>3 DEF TypeOK
  <2>5. pos[r] \in Held /\ Complete(pos[r])
    BY <1>0, <1>7, PosHeld DEF ReadFinish
  <2>6. /\ item = Torn \/ item >= pos[r]
        /\ ~Lapped(pos[r]) => item = pos[r]
    BY <1>7, <2>5 DEF ReadFinish, WhatIsRead, IInv, SlotInv, HalfInv
  <2>7. item < writeIdx + StoreWindow /\ item \in Contents
    BY <1>0, QueueAssumption DEF WhatIsRead, BoundInv, Torn, TypeOK, Contents
  <2>8. item \in Log!Readable(r)
    BY <1>0, <2>0, <2>6, <2>7, QueueAssumption
       DEF Log!Readable, TypeOK, Contents, Zeroed, Torn
  <2>9. pos[r] \notin LostItems => item = pos[r]
    BY <1>0, <2>0, <2>6, LapIsLosable
  <2>10. Log!Deliver(r, item)
    BY <1>2, <1>7, <2>0, <2>1, <2>4, <2>9 DEF Log!Deliver, ReadFinish
  <2> QED BY <2>8, <2>10 DEF Log!Next
<1> QED BY <1>3, <1>4, <1>5, <1>6, <1>7 DEF Reader

(* The queue keeps every promise of BroadcastLog: whatever the writer and  *)
(* the readers interleave, the newest Capacity - StoreWindow published     *)
(* items are delivered exactly, in order, and never an older one instead.  *)
THEOREM QueueImplementsLog == Spec => ImplementsLog
<1>1. Init => Log!Init
  BY QueueAssumption DEF Init, Log!Init, LostItems, Lapped, Begun
<1>2. IInv /\ BoundInv /\ [Next]_vars => [Log!Next]_(Log!logVars)
  <2> SUFFICES ASSUME IInv, BoundInv, [Next]_vars
               PROVE  [Log!Next]_(Log!logVars)
    OBVIOUS
  <2>1. CASE Next
    BY <2>1, PushImplements, ReaderImplements DEF Next, IInv
  <2>2. CASE UNCHANGED vars
    BY <2>2 DEF vars, Log!logVars, LostItems, Lapped, Begun
  <2> QED BY <2>1, <2>2
<1>3. Spec => []BoundInv
  <2>1. TypeOK /\ BoundInv /\ [Next]_vars => BoundInv'
    BY StepBoundInv
  <2> QED BY <2>1, InitBoundInv, TypeCorrect, PTL DEF Spec
<1> QED BY <1>1, <1>2, <1>3, SpecIInv, PTL DEF Spec, ImplementsLog, Log!LogSpec
=============================================================================
