------------------------- MODULE LocklessQueueProofs -------------------------
(***************************************************************************)
(* Proofs about LocklessQueue for every number of writers, ring size and   *)
(* number of pushes.                                                       *)
(***************************************************************************)
EXTENDS LocklessQueue, FiniteSetTheorems, SequenceTheorems, TLAPS

\* head_idx_new++ followed by %= size stays inside the ring and wraps only at
\* its last slot.
LEMMA NextSlotValue ==
  ASSUME NEW i \in Slots
  PROVE  /\ NextSlot(i) = IF i = Size - 1 THEN 0 ELSE i + 1
         /\ NextSlot(i) \in Slots
<1>1. CASE i = Size - 1
  BY <1>1, SizeAssumption DEF NextSlot, Slots
<1>2. CASE i # Size - 1
  BY <1>2, SizeAssumption DEF NextSlot, Slots
<1> QED BY <1>1, <1>2

\* A writer inside lq_push has an event in its hands.
LEMMA CurrentEventType ==
  ASSUME TypeOK, NEW w \in Writers, wpc[w] # "idle"
  PROVE  CurrentEvent(w) \in Events
<1>1. pushes[w] \in 1..MaxPush
  BY MaxPushAssumption DEF TypeOK
<1> QED BY <1>1 DEF CurrentEvent, Events

\* Every step of lq_push and lq_pop keeps the fields in their types.
LEMMA TypeStep == TypeOK /\ [Next]_vars => TypeOK'
<1> SUFFICES ASSUME TypeOK, [Next]_vars
             PROVE  TypeOK'
  OBVIOUS
<1> USE SizeAssumption, MaxPushAssumption
<1> USE DEF TypeOK, WriterPCs, ReaderPCs, WGoto, bufVars, writerVars, readerVars
<1>1. ASSUME NEW w \in Writers, ReserveWrite(w) PROVE TypeOK'
  BY <1>1 DEF ReserveWrite
<1>2. ASSUME NEW w \in Writers, CancelReserveWrite(w) PROVE TypeOK'
  BY <1>2 DEF CancelReserveWrite
<1>3. ASSUME NEW w \in Writers, LoadTail(w) PROVE TypeOK'
  BY <1>3 DEF LoadTail
<1>4. ASSUME NEW w \in Writers, CasTail(w) PROVE TypeOK'
  <2>1. CurrentEvent(w) \in Events
    BY <1>4, CurrentEventType DEF CasTail
  <2>2. tail' \in Slots
    BY <1>4, NextSlotValue DEF CasTail
  <2> QED BY <1>4, <2>1, <2>2 DEF CasTail
<1>5. ASSUME NEW w \in Writers, CasTailFail(w) PROVE TypeOK'
  BY <1>5 DEF CasTailFail
<1>6. ASSUME NEW w \in Writers, CheckFree(w) PROVE TypeOK'
  BY <1>6 DEF CheckFree
<1>7. ASSUME NEW w \in Writers, CopyIn(w) PROVE TypeOK'
  <2>1. CurrentEvent(w) \in Events
    BY <1>7, CurrentEventType DEF CopyIn
  <2> QED BY <1>7, <2>1 DEF CopyIn
<1>8. ASSUME NEW w \in Writers, PublishState(w) PROVE TypeOK'
  BY <1>8 DEF PublishState, READY
<1>9. ASSUME NEW w \in Writers, PostWrite(w) PROVE TypeOK'
  BY <1>9 DEF PostWrite
<1>10. CASE ReserveRead
  BY <1>10 DEF ReserveRead
<1>11. CASE CancelReserveRead
  BY <1>11 DEF CancelReserveRead
<1>12. CASE LoadHead
  BY <1>12 DEF LoadHead
<1>13. CASE CasHead
  BY <1>13, NextSlotValue DEF CasHead
<1>14. CASE CasHeadFail
  BY <1>14 DEF CasHeadFail
<1>15. CASE CheckReady
  BY <1>15 DEF CheckReady
<1>16. CASE Rollback
  BY <1>16 DEF Rollback
<1>17. CASE CopyOut
  BY <1>17 DEF CopyOut
<1>18. CASE FreeState
  BY <1>18 DEF FreeState, FREE
<1>19. CASE PostRead
  BY <1>19 DEF PostRead
<1>20. CASE UNCHANGED vars
  BY <1>20 DEF vars
<1> QED
  BY <1>1, <1>2, <1>3, <1>4, <1>5, <1>6, <1>7, <1>8, <1>9, <1>10, <1>11, <1>12,
     <1>13, <1>14, <1>15, <1>16, <1>17, <1>18, <1>19, <1>20
  DEF Next, Pop, Push

\* The sets of writers behind the counters are finite.
LEMMA WriterSetsFinite ==
  ASSUME NEW S \in SUBSET Writers
  PROVE  IsFiniteSet(S) /\ Cardinality(S) \in Nat
BY WritersAssumption, FS_Subset, FS_CardinalityType

\* How a set's cardinality moves when one writer enters or leaves it.
LEMMA OneWriter ==
  ASSUME NEW S \in SUBSET Writers, NEW w \in Writers
  PROVE  /\ w \notin S => Cardinality(S \cup {w}) = Cardinality(S) + 1
         /\ w \in S => Cardinality(S \ {w}) = Cardinality(S) - 1
BY WriterSetsFinite, FS_AddElement, FS_RemoveElement

\* Every step keeps `used` exact; in particular a reservation that succeeds
\* leaves room for the entry it stands for.
LEMMA UsedStep == TypeOK /\ NoReadOutOfOrder /\ UsedAccounting /\ WriterSlots /\ [Next]_vars
                    => UsedAccounting'
<1> SUFFICES ASSUME TypeOK, NoReadOutOfOrder, UsedAccounting, WriterSlots, [Next]_vars
             PROVE  UsedAccounting'
  OBVIOUS
<1> USE SizeAssumption
<1> USE DEF WGoto, bufVars, writerVars, readerVars
<1> DEFINE R == Cardinality(Reserved)
           C == Cardinality(Cancelling)
<1>a. /\ R \in Nat /\ C \in Nat /\ R' \in Nat /\ C' \in Nat
      /\ Len(claimed) \in Nat /\ Len(delivered) \in Nat /\ Returned \in Int /\ used \in Int
  <2>0. Len(claimed) \in Nat /\ Len(delivered) \in Nat
    BY DEF TypeOK
  <2>1. Reserved \in SUBSET Writers /\ Cancelling \in SUBSET Writers
    BY DEF Reserved, Cancelling
  <2>2. (Reserved \in SUBSET Writers /\ Cancelling \in SUBSET Writers)'
    BY DEF Reserved, Cancelling
  <2> QED BY <2>0, <2>1, <2>2, WriterSetsFinite DEF TypeOK, Returned
<1>b. /\ used = C + R + Len(claimed) - Returned
       /\ R + Len(claimed) - Returned <= Size
  BY DEF UsedAccounting
<1>c. /\ used' = C' + R' + Len(claimed') - Returned'
        /\ R' + Len(claimed') - Returned' <= Size
        => UsedAccounting'
  BY DEF UsedAccounting
<1> HIDE DEF R, C
<1>1. ASSUME NEW w \in Writers, ReserveWrite(w) PROVE UsedAccounting'
  <2>1. CASE used < Size
    <3>1. /\ Reserved' = Reserved \cup {w} /\ w \notin Reserved /\ Cancelling' = Cancelling
      BY <1>1, <2>1 DEF ReserveWrite, Reserved, Cancelling, TypeOK
    <3>2. R' = R + 1 /\ C' = C
      BY <3>1, OneWriter DEF Reserved, R, C
    <3>3. Returned' = Returned /\ claimed' = claimed
      BY <1>1 DEF ReserveWrite, Returned
    <3> QED BY <1>a, <1>b, <1>c, <1>1, <2>1, <3>2, <3>3 DEF ReserveWrite
  <2>2. CASE ~(used < Size)
    <3>1. /\ Cancelling' = Cancelling \cup {w} /\ w \notin Cancelling /\ Reserved' = Reserved
      BY <1>1, <2>2 DEF ReserveWrite, Reserved, Cancelling, TypeOK
    <3>2. R' = R /\ C' = C + 1
      BY <3>1, OneWriter DEF Cancelling, R, C
    <3>3. Returned' = Returned /\ claimed' = claimed
      BY <1>1 DEF ReserveWrite, Returned
    <3> QED BY <1>a, <1>b, <1>c, <1>1, <2>2, <3>2, <3>3 DEF ReserveWrite
  <2> QED BY <2>1, <2>2
<1>2. ASSUME NEW w \in Writers, CancelReserveWrite(w) PROVE UsedAccounting'
  <2>1. /\ Cancelling' = Cancelling \ {w} /\ w \in Cancelling /\ Reserved' = Reserved
    BY <1>2 DEF CancelReserveWrite, Reserved, Cancelling, TypeOK
  <2>2. R' = R /\ C' = C - 1
    BY <2>1, OneWriter DEF Cancelling, R, C
  <2>3. Returned' = Returned /\ claimed' = claimed
    BY <1>2 DEF CancelReserveWrite, Returned
  <2> QED BY <1>a, <1>b, <1>c, <1>2, <2>2, <2>3 DEF CancelReserveWrite
<1>3. ASSUME NEW w \in Writers, CasTail(w) PROVE UsedAccounting'
  <2>1. /\ Reserved' = Reserved \ {w} /\ w \in Reserved /\ Cancelling' = Cancelling
    BY <1>3 DEF CasTail, Reserved, Cancelling, TypeOK
  <2>2. R' = R - 1 /\ C' = C
    BY <2>1, OneWriter DEF Reserved, R, C
  <2>3. Len(claimed') = Len(claimed) + 1
    BY <1>3, CurrentEventType DEF CasTail, TypeOK
  <2>4. Returned' = Returned
    BY <1>3 DEF CasTail, Returned
  <2> QED BY <1>a, <1>b, <1>c, <1>3, <2>2, <2>3, <2>4 DEF CasTail
<1>4. ASSUME UNCHANGED <<used, claimed>>, Returned' = Returned,
             Reserved' = Reserved, Cancelling' = Cancelling
      PROVE  UsedAccounting'
  BY <1>4 DEF UsedAccounting
<1>5. ASSUME NEW w \in Writers,
             LoadTail(w) \/ CasTailFail(w) \/ CopyIn(w) \/ PublishState(w) \/ PostWrite(w)
      PROVE  UsedAccounting'
  <2>1. Reserved' = Reserved /\ Cancelling' = Cancelling
    BY <1>5 DEF LoadTail, CasTailFail, CopyIn, PublishState, PostWrite, Reserved,
                Cancelling, TypeOK
  <2> QED BY <1>4, <1>5, <2>1
          DEF LoadTail, CasTailFail, CopyIn, PublishState, PostWrite, Returned
<1>6. ASSUME NEW w \in Writers, CheckFree(w) PROVE UsedAccounting'
  <2>1. w \in Writing
    BY <1>6 DEF CheckFree, Writing
  <2>2. state[wtail[w]] = FREE
    BY <2>1 DEF WriterSlots
  <2>3. Reserved' = Reserved /\ Cancelling' = Cancelling
    BY <1>6, <2>2 DEF CheckFree, Reserved, Cancelling, TypeOK
  <2> QED BY <1>4, <1>6, <2>2, <2>3 DEF CheckFree, Returned
<1>7. ASSUME ReserveRead \/ CancelReserveRead \/ LoadHead \/ CasHead \/ CasHeadFail
               \/ CheckReady \/ Rollback \/ FreeState \/ UNCHANGED vars
      PROVE  UsedAccounting'
  <2>1. wpc' = wpc /\ used' = used /\ claimed' = claimed /\ delivered' = delivered
    BY <1>7 DEF ReserveRead, CancelReserveRead, LoadHead, CasHead, CasHeadFail,
                CheckReady, Rollback, FreeState, vars
  <2>2. Returned' = Returned
    BY <1>7, <2>1 DEF ReserveRead, CancelReserveRead, LoadHead, CasHead, CasHeadFail,
                CheckReady, Rollback, FreeState, vars, Returned
  <2>3. Reserved' = Reserved /\ Cancelling' = Cancelling
    BY <2>1 DEF Reserved, Cancelling
  <2> QED BY <1>4, <2>1, <2>2, <2>3
<1>8. ASSUME CopyOut PROVE UsedAccounting'
  <2>1. Len(delivered') = Len(delivered) + 1
    BY <1>8 DEF CopyOut, TypeOK
  <2>2. Reserved' = Reserved /\ Cancelling' = Cancelling
    BY <1>8 DEF CopyOut, Reserved, Cancelling
  <2>3. Returned' = Returned
    BY <1>a, <1>8, <2>1 DEF CopyOut, Returned
  <2> QED BY <1>4, <1>8, <2>2, <2>3 DEF CopyOut
<1>9. ASSUME PostRead PROVE UsedAccounting'
  <2>1. Reserved' = Reserved /\ Cancelling' = Cancelling
    BY <1>9 DEF PostRead, Reserved, Cancelling
  <2>2. Returned' = Returned + 1
    BY <1>a, <1>9 DEF PostRead, Returned
  <2>3. R' = R /\ C' = C
    BY <2>1 DEF R, C
  <2> QED BY <1>a, <1>b, <1>c, <1>9, <2>2, <2>3 DEF PostRead
<1> QED
  BY <1>1, <1>2, <1>3, <1>5, <1>6, <1>7, <1>8, <1>9 DEF Next, Pop, Push

\* Basic arithmetic facts about positions.
LEMMA CountTypes ==
  ASSUME TypeOK
  PROVE  /\ Len(claimed) \in Nat /\ Len(delivered) \in Nat
         /\ Freed \in Int /\ Returned \in Int
         /\ Returned <= Freed /\ Freed <= Len(delivered)
         /\ ReadSlot \in Slots
<1>1. Len(claimed) \in Nat /\ Len(delivered) \in Nat
  BY DEF TypeOK
<1> QED BY <1>1 DEF Freed, Returned, ReadSlot, TypeOK

\* Two slots are never last claimed by the same position, and no slot has been
\* claimed by a position further than Size from the tail.
LEMMA LastTicketInjective ==
  ASSUME TypeOK
  PROVE  /\ \A i \in Slots : LastTicket(i) \in Len(claimed) + 1 - Size..Len(claimed)
         /\ \A i, j \in Slots : LastTicket(i) = LastTicket(j) => i = j
         /\ LastTicket(tail) = Len(claimed) + 1 - Size
<1> USE CountTypes, SizeAssumption DEF TypeOK, Slots, LastTicket
<1>1. \A i \in Slots : LastTicket(i) \in Len(claimed) + 1 - Size..Len(claimed)
  OBVIOUS
<1>2. \A i, j \in Slots : LastTicket(i) = LastTicket(j) => i = j
  OBVIOUS
<1>3. LastTicket(tail) = Len(claimed) + 1 - Size
  OBVIOUS
<1> QED BY <1>1, <1>2, <1>3

\* An entry the reader finds READY is the oldest unread one.
LEMMA ReadSlotTicket ==
  ASSUME TypeOK, RingSpan, SlotContents, state[ReadSlot] = READY, WriterSlots
  PROVE  /\ LastTicket(ReadSlot) = Freed + 1
         /\ Freed < Len(claimed)
         /\ data[ReadSlot] = claimed[Freed + 1]
         /\ \A w \in Writing : wtail[w] # ReadSlot /\ ticket[w] # Freed + 1
<1> USE CountTypes, SizeAssumption
<1>1. \A w \in Writing : wtail[w] # ReadSlot
  BY DEF WriterSlots, FREE, READY
<1>2. \A w \in Writing : ticket[w] # LastTicket(ReadSlot)
  BY <1>1, LastTicketInjective DEF WriterSlots, TypeOK, Writing
<1>3. LastTicket(ReadSlot) > Freed /\ data[ReadSlot] = claimed[LastTicket(ReadSlot)]
  BY <1>2 DEF SlotContents, FREE, READY
<1>4. LastTicket(ReadSlot) = Freed + 1
  <2>1. tail \in 0..Size - 1 /\ ReadSlot \in 0..Size - 1 /\ Size \in Nat
    BY DEF TypeOK, Slots
  <2>2. /\ Len(claimed) - Freed = tail - ReadSlot \/ Len(claimed) - Freed = tail - ReadSlot + Size
        /\ Len(claimed) - Freed <= Size
    BY DEF RingSpan
  <2>3. Len(claimed) \in Nat /\ Freed \in Int
    OBVIOUS
  <2> QED BY <1>3, <2>1, <2>2, <2>3 DEF LastTicket
<1>5. Freed < Len(claimed)
  BY <1>4, LastTicketInjective
<1> QED BY <1>1, <1>2, <1>3, <1>4, <1>5

RingParts == NoReadOutOfOrder /\ RingSpan /\ WriterSlots /\ SlotContents /\ DeliveredPrefix

\* Steps of a writer that neither claims nor publishes leave the ring as it is.
LEMMA RingFrame ==
  ASSUME TypeOK, RingParts, NEW w \in Writers,
         \/ ReserveWrite(w) \/ CancelReserveWrite(w) \/ LoadTail(w) \/ CasTailFail(w)
         \/ CheckFree(w) \/ CopyIn(w) \/ PostWrite(w)
  PROVE  RingParts'
<1> USE DEF WGoto, bufVars, readerVars
<1> USE DEF ReserveWrite, CancelReserveWrite, LoadTail, CasTailFail, CheckFree, CopyIn, PostWrite
<1>1. /\ UNCHANGED <<head, tail, state, ticket, rpc, rhead, claimed, delivered>>
      /\ \A v \in Writers : v # w => /\ wpc'[v] = wpc[v] /\ wtail'[v] = wtail[v]
                                     /\ pushes'[v] = pushes[v]
  BY DEF TypeOK
<1>2. Freed' = Freed /\ ReadSlot' = ReadSlot /\ \A i \in Slots : LastTicket(i)' = LastTicket(i)
  BY <1>1 DEF Freed, ReadSlot, LastTicket
<1>3. Writing' = Writing
  <2>1. w \in Writing => state[wtail[w]] = FREE
    BY DEF RingParts, WriterSlots
  <2> QED BY <1>1, <2>1 DEF Writing, TypeOK
<1>4. \A v \in Writing : wtail'[v] = wtail[v] /\ pushes'[v] = pushes[v]
  BY <1>1 DEF Writing, TypeOK
<1>5. \A v \in Writers : v # w /\ v \in Writing => data'[wtail[v]] = data[wtail[v]]
  <2>1. \A v \in Writers : v # w /\ v \in Writing /\ w \in Writing => wtail[v] # wtail[w]
    BY LastTicketInjective DEF RingParts, WriterSlots, TypeOK
  <2> QED BY <2>1 DEF Writing, TypeOK
<1>6. RingSpan'
  BY <1>1, <1>2 DEF RingParts, RingSpan
<1>7. WriterSlots'
  <2> SUFFICES ASSUME NEW v \in Writing
               PROVE  /\ ticket[v] = LastTicket(wtail[v])
                      /\ ticket[v] \in Freed + 1..Len(claimed)
                      /\ claimed[ticket[v]] = CurrentEvent(v)'
                      /\ state[wtail[v]] = FREE
                      /\ wpc'[v] = "publish" => data'[wtail[v]] = CurrentEvent(v)'
                      /\ \A u \in Writing : u # v => ticket[u] # ticket[v]
    BY <1>1, <1>2, <1>3, <1>4 DEF WriterSlots, Writing, TypeOK
  <2>1. CurrentEvent(v)' = CurrentEvent(v)
    BY <1>4 DEF CurrentEvent
  <2>2. wpc'[v] = "publish" => data'[wtail[v]] = CurrentEvent(v)
    <3>1. CASE v = w
      BY <3>1 DEF TypeOK, Writing
    <3>2. CASE v # w
      BY <3>2, <1>1, <1>5 DEF RingParts, WriterSlots, Writing
    <3> QED BY <3>1, <3>2
  <2> QED BY <2>1, <2>2 DEF RingParts, WriterSlots
<1>8. SlotContents'
  <2> SUFFICES ASSUME NEW i \in Slots
               PROVE  \/ LastTicket(i) <= Freed /\ state[i] = FREE
                      \/ LastTicket(i) > Freed /\ \E v \in Writing : ticket[v] = LastTicket(i)
                      \/ LastTicket(i) > Freed /\ state[i] = READY /\ data'[i] = claimed[LastTicket(i)]
    BY <1>1, <1>2, <1>3 DEF SlotContents
  <2>1. state[i] = READY => data'[i] = data[i]
    <3>1. w \in Writing => state[wtail[w]] = FREE
      BY DEF RingParts, WriterSlots
    <3> QED BY <3>1 DEF FREE, READY, Writing, TypeOK
  <2> QED BY <2>1 DEF RingParts, SlotContents
<1>9. DeliveredPrefix'
  BY <1>1 DEF RingParts, DeliveredPrefix, Reading
<1>10. NoReadOutOfOrder'
  <2>1. w \in Writing => state[wtail[w]] = FREE
    BY DEF RingParts, WriterSlots
  <2> QED BY <2>1, <1>1 DEF RingParts, NoReadOutOfOrder, TypeOK, Writing
<1> QED BY <1>6, <1>7, <1>8, <1>9, <1>10 DEF RingParts

\* A reserved writer has room: fewer than Size entries are unfreed.
LEMMA ClaimHasRoom ==
  ASSUME TypeOK, UsedAccounting, NEW w \in Reserved
  PROVE  Len(claimed) - Freed < Size
<1>1. Reserved \in SUBSET Writers
  BY DEF Reserved
<1>2. /\ Cardinality(Reserved) \in Nat /\ Cardinality(Reserved \ {w}) \in Nat
      /\ Cardinality(Reserved \ {w}) = Cardinality(Reserved) - 1
  BY <1>1, OneWriter, WriterSetsFinite
<1> QED BY <1>2, CountTypes, SizeAssumption DEF UsedAccounting

\* A writer that wins the tail obtains a slot nobody uses: its reservation is
\* the reason why the slot's previous event has been read and freed.
LEMMA RingClaim ==
  ASSUME TypeOK, RingParts, UsedAccounting, NEW w \in Writers, CasTail(w)
  PROVE  RingParts'
<1> USE CountTypes, SizeAssumption DEF WGoto, readerVars
<1> DEFINE T == Len(claimed)
<1>1. /\ wpc[w] = "cas_tail" /\ tail = wtail[w] /\ tail' = NextSlot(tail)
      /\ wpc' = [wpc EXCEPT ![w] = "check"]
      /\ claimed' = Append(claimed, CurrentEvent(w))
      /\ ticket' = [ticket EXCEPT ![w] = T + 1]
      /\ UNCHANGED <<head, state, data, wtail, pushes, rpc, rhead, delivered>>
  BY DEF CasTail
<1>2. CurrentEvent(w) \in Events
  BY <1>1, CurrentEventType
<1>3. /\ Len(claimed') = T + 1
      /\ \A k \in 1..T : claimed'[k] = claimed[k]
      /\ claimed'[T + 1] = CurrentEvent(w)
  BY <1>1, <1>2 DEF TypeOK
<1>4. Freed' = Freed /\ ReadSlot' = ReadSlot
  BY <1>1 DEF Freed, ReadSlot
<1>5. T - Freed < Size
  BY <1>1, ClaimHasRoom DEF Reserved
<1>6. tail \in Slots /\ tail' = (IF tail = Size - 1 THEN 0 ELSE tail + 1)
  BY <1>1, NextSlotValue DEF TypeOK
<1>7. \A i \in Slots : LastTicket(i)' = IF i = tail THEN T + 1 ELSE LastTicket(i)
  <2> SUFFICES ASSUME NEW i \in Slots
               PROVE  LastTicket(i)' = IF i = tail THEN T + 1 ELSE LastTicket(i)
    OBVIOUS
  <2>1. LastTicket(i)' = T + 2 + (i - tail') - (IF i >= tail' THEN Size ELSE 0)
    BY <1>3 DEF LastTicket
  <2>2. i \in 0..Size - 1 /\ tail \in 0..Size - 1 /\ T \in Nat /\ Size \in Nat
    BY <1>6 DEF Slots
  <2>3. CASE tail = Size - 1
    <3>1. LastTicket(i)' = T + 2 + i - Size
      BY <1>6, <2>1, <2>2, <2>3
    <3> QED BY <2>2, <2>3, <3>1 DEF LastTicket
  <2>4. CASE tail # Size - 1
    <3>1. LastTicket(i)' = T + 1 + (i - tail) - (IF i >= tail + 1 THEN Size ELSE 0)
      BY <1>6, <2>1, <2>2, <2>4
    <3> QED BY <2>2, <2>4, <3>1 DEF LastTicket
  <2> QED BY <2>3, <2>4
<1>8. LastTicket(tail) <= Freed /\ state[tail] = FREE
  <2>1. LastTicket(tail) <= Freed
    BY <1>5, LastTicketInjective
  <2>2. LastTicket(tail) \in Int
    BY LastTicketInjective
  <2> QED BY <1>6, <2>1, <2>2 DEF RingParts, SlotContents
<1>9. w \notin Writing /\ Writing' = Writing \cup {w}
  BY <1>1 DEF Writing, TypeOK
<1>10. \A v \in Writing : /\ wtail[v] \in Slots /\ wtail[v] # tail
                          /\ ticket[v] \in Freed + 1..T /\ ticket'[v] = ticket[v]
                          /\ ticket'[v] = LastTicket(wtail[v])'
  <2> SUFFICES ASSUME NEW v \in Writing
               PROVE  /\ wtail[v] \in Slots /\ wtail[v] # tail
                      /\ ticket[v] \in Freed + 1..T /\ ticket'[v] = ticket[v]
                      /\ ticket'[v] = LastTicket(wtail[v])'
    OBVIOUS
  <2>1. wtail[v] \in Slots /\ ticket[v] \in Freed + 1..T /\ ticket[v] = LastTicket(wtail[v])
    BY DEF RingParts, WriterSlots, TypeOK, Writing
  <2>2. wtail[v] # tail
    BY <1>8, <2>1
  <2>3. ticket'[v] = ticket[v]
    BY <1>1, <1>9 DEF TypeOK
  <2>4. LastTicket(wtail[v])' = LastTicket(wtail[v])
    <3>1. PICK i \in Slots : i = wtail[v]
      BY <2>1
    <3>2. LastTicket(i)' = LastTicket(i)
      BY <1>7, <2>2, <3>1
    <3>3. wtail'[v] = wtail[v]
      BY <1>1
    <3> QED BY <3>1, <3>2, <3>3 DEF LastTicket
  <2> QED BY <2>1, <2>2, <2>3, <2>4
<1>11. RingSpan'
  <2>1. T + 1 - Freed \in {tail' - ReadSlot, tail' - ReadSlot + Size} /\ T + 1 - Freed \in 0..Size
    <3>1. T - Freed \in {tail - ReadSlot, tail - ReadSlot + Size} /\ T - Freed \in 0..Size
      BY DEF RingParts, RingSpan
    <3>2. tail \in 0..Size - 1 /\ ReadSlot \in 0..Size - 1 /\ T \in Nat /\ Freed \in Int
      BY <1>6 DEF Slots
    <3> QED BY <1>5, <1>6, <3>1, <3>2
  <2> QED BY <1>1, <1>3, <1>4, <2>1 DEF RingParts, RingSpan, NextSlot
<1>12. WriterSlots'
  <2> SUFFICES ASSUME NEW v \in Writing'
               PROVE  /\ ticket'[v] = LastTicket(wtail[v])'
                      /\ ticket'[v] \in Freed + 1..T + 1
                      /\ claimed'[ticket'[v]] = CurrentEvent(v)
                      /\ state[wtail[v]] = FREE
                      /\ wpc'[v] = "publish" => data[wtail[v]] = CurrentEvent(v)
                      /\ \A u \in Writing' : u # v => ticket'[u] # ticket'[v]
    <3>1. \A v \in Writers : CurrentEvent(v)' = CurrentEvent(v)
      BY <1>1 DEF CurrentEvent
    <3> QED BY <1>1, <1>3, <1>4, <3>1 DEF WriterSlots, Writing
  <2>1. CASE v = w
    <3>1. ticket'[w] = T + 1 /\ wtail[w] = tail /\ wpc'[w] = "check"
      BY <1>1 DEF TypeOK
    <3>2. \A u \in Writing' : u # w => ticket'[u] # T + 1
      BY <1>9, <1>10
    <3>3. LastTicket(wtail[v])' = T + 1
      BY <1>1, <1>6, <1>7, <2>1
    <3>4. T >= Freed
      BY DEF RingParts, RingSpan
    <3> QED BY <1>3, <1>8, <2>1, <3>1, <3>2, <3>3, <3>4
  <2>2. CASE v # w
    <3>1. v \in Writing
      BY <1>9, <2>2
    <3>2. ticket[v] \in Freed + 1..T /\ Freed >= 0
      BY <3>1, <1>10 DEF Freed, RingParts, DeliveredPrefix
    <3>3. claimed'[ticket'[v]] = claimed[ticket[v]]
      BY <1>3, <1>10, <3>1, <3>2
    <3>4. wpc'[v] = wpc[v]
      BY <1>1, <2>2 DEF TypeOK
    <3>5. \A u \in Writing' : u # v => ticket'[u] # ticket'[v]
      <4> TAKE u \in Writing'
      <4>1. CASE u = w
        BY <1>1, <1>10, <3>1, <3>2, <4>1 DEF TypeOK
      <4>2. CASE u # w
        BY <1>9, <1>10, <3>1, <4>2 DEF RingParts, WriterSlots
      <4> QED BY <4>1, <4>2
    <3> QED BY <1>10, <3>1, <3>2, <3>3, <3>4, <3>5 DEF RingParts, WriterSlots
  <2> QED BY <2>1, <2>2
<1>13. SlotContents'
  <2> SUFFICES ASSUME NEW i \in Slots
               PROVE  \/ LastTicket(i)' <= Freed /\ state[i] = FREE
                      \/ LastTicket(i)' > Freed /\ \E v \in Writing' : ticket'[v] = LastTicket(i)'
                      \/ /\ LastTicket(i)' > Freed /\ state[i] = READY
                         /\ data[i] = claimed'[LastTicket(i)']
    BY <1>1, <1>4 DEF SlotContents
  <2>1. CASE i = tail
    <3>1. ticket'[w] = T + 1 /\ w \in Writing'
      BY <1>1, <1>9 DEF TypeOK
    <3>2. LastTicket(i)' = T + 1 /\ T + 1 > Freed
      BY <1>7, <2>1 DEF RingParts, RingSpan
    <3> QED BY <3>1, <3>2
  <2>2. CASE i # tail
    <3>1. LastTicket(i)' = LastTicket(i) /\ LastTicket(i) <= T /\ LastTicket(i) \in Int
      BY <1>7, <2>2, LastTicketInjective
    <3>2. Freed >= 0
      BY DEF Freed, RingParts, DeliveredPrefix
    <3>3. LastTicket(i) > Freed => claimed'[LastTicket(i)] = claimed[LastTicket(i)]
      BY <1>3, <3>1, <3>2
    <3> QED BY <1>9, <1>10, <3>1, <3>3 DEF RingParts, SlotContents
  <2> QED BY <2>1, <2>2
<1>14. DeliveredPrefix'
  BY <1>1, <1>3 DEF RingParts, DeliveredPrefix, Reading
<1>15. NoReadOutOfOrder'
  BY <1>1 DEF RingParts, NoReadOutOfOrder, TypeOK
<1> QED BY <1>11, <1>12, <1>13, <1>14, <1>15 DEF RingParts

\* Publishing turns the writer's slot into a READY one that holds its event.
LEMMA RingPublish ==
  ASSUME TypeOK, RingParts, NEW w \in Writers, PublishState(w)
  PROVE  RingParts'
<1> USE CountTypes, SizeAssumption DEF WGoto, readerVars
<1>1. /\ wpc[w] = "publish" /\ wpc' = [wpc EXCEPT ![w] = "post"]
      /\ state' = [state EXCEPT ![wtail[w]] = READY]
      /\ UNCHANGED <<head, tail, data, wtail, pushes, ticket, rpc, rhead, claimed, delivered>>
  BY DEF PublishState
<1>2. Freed' = Freed /\ ReadSlot' = ReadSlot /\ \A i \in Slots : LastTicket(i)' = LastTicket(i)
  BY <1>1 DEF Freed, ReadSlot, LastTicket
<1>3. w \in Writing /\ Writing' = Writing \ {w}
  BY <1>1 DEF Writing, TypeOK
<1>4. \A v \in Writing : LastTicket(wtail[v])' = LastTicket(wtail[v]) /\ CurrentEvent(v)' = CurrentEvent(v)
  BY <1>1 DEF LastTicket, CurrentEvent
<1>5. /\ wtail[w] \in Slots /\ ticket[w] = LastTicket(wtail[w])
      /\ data[wtail[w]] = claimed[ticket[w]] /\ ticket[w] > Freed
  BY <1>1, <1>3 DEF RingParts, WriterSlots, TypeOK
<1>6. \A v \in Writing \ {w} : wtail[v] # wtail[w]
  BY <1>3 DEF RingParts, WriterSlots
<1>7. RingSpan'
  BY <1>1, <1>2 DEF RingParts, RingSpan, NextSlot
<1>8. WriterSlots'
  BY <1>1, <1>2, <1>3, <1>4, <1>6 DEF RingParts, WriterSlots, TypeOK, Writing
<1>9. SlotContents'
  <2> SUFFICES ASSUME NEW i \in Slots
               PROVE  \/ LastTicket(i) <= Freed /\ state'[i] = FREE
                      \/ LastTicket(i) > Freed /\ \E v \in Writing \ {w} : ticket[v] = LastTicket(i)
                      \/ LastTicket(i) > Freed /\ state'[i] = READY /\ data[i] = claimed[LastTicket(i)]
    BY <1>1, <1>2, <1>3 DEF SlotContents
  <2>1. CASE i = wtail[w]
    BY <1>1, <1>5, <2>1 DEF TypeOK
  <2>2. CASE i # wtail[w]
    <3>1. state'[i] = state[i]
      BY <1>1, <2>2 DEF TypeOK
    <3>2. ticket[w] # LastTicket(i)
      BY <1>5, <2>2, LastTicketInjective
    <3> QED BY <3>1, <3>2 DEF RingParts, SlotContents
  <2> QED BY <2>1, <2>2
<1>10. DeliveredPrefix'
  <2>1. Reading => wtail[w] # rhead
    BY <1>3 DEF RingParts, DeliveredPrefix, WriterSlots, FREE, READY
  <2> QED BY <1>1, <2>1 DEF RingParts, DeliveredPrefix, Reading, TypeOK
<1>11. NoReadOutOfOrder'
  BY <1>1 DEF RingParts, NoReadOutOfOrder, TypeOK
<1> QED BY <1>7, <1>8, <1>9, <1>10, <1>11 DEF RingParts

\* Steps of the reader that do not touch an entry.
LEMMA ReaderFrame ==
  ASSUME TypeOK, RingParts,
         \/ ReserveRead \/ CancelReserveRead \/ LoadHead \/ CasHead \/ CasHeadFail
         \/ CheckReady \/ Rollback \/ PostRead \/ UNCHANGED vars
  PROVE  RingParts'
<1> USE CountTypes, SizeAssumption DEF bufVars, writerVars
<1> USE DEF ReserveRead, CancelReserveRead, LoadHead, CasHead, CasHeadFail, CheckReady,
            Rollback, PostRead, vars
<1>1. UNCHANGED <<tail, state, data, wpc, wtail, pushes, ticket, claimed, delivered>>
  OBVIOUS
<1>2. Freed' = Freed /\ \A i \in Slots : LastTicket(i)' = LastTicket(i)
  BY <1>1 DEF Freed, LastTicket
<1>3. ReadSlot' = ReadSlot
  BY DEF ReadSlot, RingParts, RingSpan
<1>4. RingSpan'
  BY <1>1, <1>2, <1>3 DEF RingParts, RingSpan, NextSlot
<1>5. WriterSlots'
  <2>1. Writing' = Writing
    BY <1>1 DEF Writing
  <2>2. \A v \in Writing : LastTicket(wtail[v])' = LastTicket(wtail[v]) /\ CurrentEvent(v)' = CurrentEvent(v)
    BY <1>1 DEF LastTicket, CurrentEvent
  <2> QED BY <1>1, <1>2, <2>1, <2>2 DEF RingParts, WriterSlots
<1>6. SlotContents'
  BY <1>1, <1>2 DEF RingParts, SlotContents, Writing
<1>7. DeliveredPrefix'
  BY <1>1 DEF RingParts, DeliveredPrefix, Reading
<1>8. NoReadOutOfOrder'
  BY <1>1 DEF RingParts, NoReadOutOfOrder
<1> QED BY <1>4, <1>5, <1>6, <1>7, <1>8 DEF RingParts

\* The reader copies out the event of the position it has reached.
LEMMA RingCopyOut ==
  ASSUME TypeOK, RingParts, CopyOut
  PROVE  RingParts'
<1> USE CountTypes, SizeAssumption DEF bufVars, writerVars
<1>1. /\ rpc = "copy" /\ rpc' = "free" /\ delivered' = Append(delivered, data[rhead])
      /\ UNCHANGED <<head, tail, state, data, wpc, wtail, pushes, ticket, rhead, claimed>>
  BY DEF CopyOut
<1>2. /\ Len(delivered') = Len(delivered) + 1
      /\ \A k \in 1..Len(delivered) : delivered'[k] = delivered[k]
      /\ delivered'[Len(delivered) + 1] = data[rhead]
  BY <1>1 DEF TypeOK
<1>3. Freed = Len(delivered) /\ Freed' = Freed /\ ReadSlot = rhead /\ ReadSlot' = ReadSlot
  BY <1>1, <1>2 DEF Freed, ReadSlot
<1>4. state[ReadSlot] = READY
  BY <1>1, <1>3 DEF RingParts, DeliveredPrefix, Reading
<1>5. data[rhead] = claimed[Freed + 1] /\ Freed < Len(claimed)
  BY <1>3, <1>4, ReadSlotTicket DEF RingParts
<1>6. Writing' = Writing /\ \A i \in Slots : LastTicket(i)' = LastTicket(i)
  BY <1>1 DEF Writing, LastTicket
<1>7. \A v \in Writing : LastTicket(wtail[v])' = LastTicket(wtail[v]) /\ CurrentEvent(v)' = CurrentEvent(v)
  BY <1>1 DEF LastTicket, CurrentEvent
<1>8. RingSpan' /\ SlotContents' /\ NoReadOutOfOrder'
  BY <1>1, <1>3, <1>6 DEF RingParts, RingSpan, SlotContents, NoReadOutOfOrder, NextSlot
<1>9. WriterSlots'
  BY <1>1, <1>3, <1>6, <1>7 DEF RingParts, WriterSlots
<1>10. DeliveredPrefix'
  BY <1>1, <1>2, <1>3, <1>5 DEF RingParts, DeliveredPrefix, Reading
<1> QED BY <1>8, <1>9, <1>10 DEF RingParts

\* Freeing the entry moves the reader's end of the ring by one position.
LEMMA RingFree ==
  ASSUME TypeOK, RingParts, FreeState
  PROVE  RingParts'
<1> USE CountTypes, SizeAssumption DEF writerVars
<1>1. /\ rpc = "free" /\ rpc' = "post" /\ state' = [state EXCEPT ![rhead] = FREE]
      /\ UNCHANGED <<head, tail, data, wpc, wtail, pushes, ticket, rhead, claimed, delivered>>
  BY DEF FreeState
<1>2. Freed' = Freed + 1 /\ ReadSlot = rhead /\ ReadSlot' = head
  BY <1>1 DEF Freed, ReadSlot
<1>3. state[ReadSlot] = READY
  BY <1>1, <1>2 DEF RingParts, DeliveredPrefix, Reading
<1>4. /\ LastTicket(rhead) = Freed + 1 /\ Freed < Len(claimed)
      /\ \A w \in Writing : wtail[w] # rhead /\ ticket[w] # Freed + 1
  BY <1>2, <1>3, ReadSlotTicket DEF RingParts
<1>5. Writing' = Writing /\ \A i \in Slots : LastTicket(i)' = LastTicket(i)
  BY <1>1 DEF Writing, LastTicket
<1>6. \A v \in Writing : LastTicket(wtail[v])' = LastTicket(wtail[v]) /\ CurrentEvent(v)' = CurrentEvent(v)
  BY <1>1 DEF LastTicket, CurrentEvent
<1>7. RingSpan'
  <2>1. head = (IF rhead = Size - 1 THEN 0 ELSE rhead + 1) /\ rhead \in 0..Size - 1
    BY <1>1, NextSlotValue DEF RingParts, RingSpan, TypeOK, Slots
  <2>2. /\ Len(claimed) - Freed \in {tail - rhead, tail - rhead + Size}
        /\ Len(claimed) - Freed \in 0..Size /\ tail \in 0..Size - 1
    BY <1>2 DEF RingParts, RingSpan, TypeOK, Slots
  <2>3. /\ Len(claimed) - (Freed + 1) \in {tail - head, tail - head + Size}
        /\ Len(claimed) - (Freed + 1) \in 0..Size
    BY <1>4, <2>1, <2>2
  <2> QED BY <1>1, <1>2, <2>3 DEF RingSpan
<1>8. WriterSlots'
  <2> SUFFICES ASSUME NEW v \in Writing
               PROVE  ticket[v] \in Freed + 2..Len(claimed) /\ state'[wtail[v]] = FREE
    BY <1>1, <1>2, <1>5, <1>6 DEF RingParts, WriterSlots
  <2>1. ticket[v] \in Freed + 1..Len(claimed) /\ state[wtail[v]] = FREE
    BY DEF RingParts, WriterSlots
  <2> QED BY <1>1, <1>4, <2>1 DEF TypeOK, Writing
<1>9. SlotContents'
  <2> SUFFICES ASSUME NEW i \in Slots
               PROVE  \/ LastTicket(i) <= Freed + 1 /\ state'[i] = FREE
                      \/ LastTicket(i) > Freed + 1 /\ \E v \in Writing : ticket[v] = LastTicket(i)
                      \/ /\ LastTicket(i) > Freed + 1 /\ state'[i] = READY
                         /\ data[i] = claimed[LastTicket(i)]
    BY <1>1, <1>2, <1>5 DEF SlotContents
  <2>1. CASE i = rhead
    BY <1>1, <1>4, <2>1 DEF TypeOK
  <2>2. CASE i # rhead
    <3>1. LastTicket(i) # Freed + 1 /\ LastTicket(i) \in Int
      BY <1>4, <2>2, LastTicketInjective DEF TypeOK
    <3>2. state'[i] = state[i]
      BY <1>1, <2>2 DEF TypeOK
    <3> QED BY <3>1, <3>2 DEF RingParts, SlotContents
  <2> QED BY <2>1, <2>2
<1>10. DeliveredPrefix' /\ NoReadOutOfOrder'
  BY <1>1 DEF RingParts, DeliveredPrefix, NoReadOutOfOrder, Reading
<1> QED BY <1>7, <1>8, <1>9, <1>10 DEF RingParts

\* Claims keep each writer's program order.
LEMMA ClaimOrderStep == TypeOK /\ NoReadOutOfOrder /\ ClaimOrder /\ [Next]_vars => ClaimOrder'
<1> SUFFICES ASSUME TypeOK, NoReadOutOfOrder, ClaimOrder, [Next]_vars
             PROVE  ClaimOrder'
  OBVIOUS
<1> USE MaxPushAssumption DEF WGoto, bufVars, writerVars, readerVars
<1>0. /\ Len(claimed) \in Nat
      /\ \A j \in 1..Len(claimed) : claimed[j][1] \in Writers /\ claimed[j][2] \in Nat
  BY DEF TypeOK, Events
<1>1. ASSUME NEW w \in Writers, ReserveWrite(w) PROVE ClaimOrder'
  <2>1. /\ claimed' = claimed
        /\ \A v \in Writers : v # w => pushes'[v] = pushes[v] /\ wpc'[v] = wpc[v]
        /\ pushes'[w] = pushes[w] + 1 /\ pushes[w] \in Nat
    BY <1>1 DEF ReserveWrite, TypeOK
  <2> QED BY <1>0, <2>1 DEF ClaimOrder
<1>2. ASSUME NEW w \in Writers, CasTail(w) PROVE ClaimOrder'
  <2>1. CurrentEvent(w) \in Events
    BY <1>2, CurrentEventType DEF CasTail
  <2>2. /\ Len(claimed') = Len(claimed) + 1
        /\ \A k \in 1..Len(claimed) : claimed'[k] = claimed[k]
        /\ claimed'[Len(claimed) + 1] = <<w, pushes[w]>>
    BY <1>2, <2>1 DEF CasTail, TypeOK, CurrentEvent
  <2>3. /\ pushes' = pushes /\ wpc'[w] = "check" /\ wpc[w] = "cas_tail" /\ pushes[w] \in Nat
        /\ \A v \in Writers : v # w => wpc'[v] = wpc[v]
    BY <1>2 DEF CasTail, TypeOK
  <2> SUFFICES ASSUME NEW j \in 1..Len(claimed) + 1
               PROVE  /\ claimed'[j][2] <= pushes[claimed'[j][1]]
                      /\ wpc'[claimed'[j][1]] \in {"cancel", "load_tail", "cas_tail"}
                            => claimed'[j][2] < pushes[claimed'[j][1]]
                      /\ \A i \in 1..j - 1 :
                            claimed'[i][1] = claimed'[j][1] => claimed'[i][2] < claimed'[j][2]
    BY <2>2, <2>3 DEF ClaimOrder
  <2>4. CASE j = Len(claimed) + 1
    <3>1. claimed'[j][1] = w /\ claimed'[j][2] = pushes[w]
      BY <2>2, <2>4
    <3>2. \A i \in 1..j - 1 : claimed'[i] = claimed[i] /\ i \in 1..Len(claimed)
      BY <1>0, <2>2, <2>4
    <3>3. \A i \in 1..j - 1 : claimed[i][1] = w => claimed[i][2] < pushes[w]
      BY <2>3, <3>2 DEF ClaimOrder
    <3> QED BY <2>3, <3>1, <3>2, <3>3
  <2>5. CASE j \in 1..Len(claimed)
    <3>1. claimed'[j] = claimed[j] /\ \A i \in 1..j - 1 : claimed'[i] = claimed[i]
      BY <1>0, <2>2, <2>5
    <3> QED BY <1>0, <2>3, <2>5, <3>1 DEF ClaimOrder
  <2> QED BY <1>0, <2>4, <2>5
<1>3. ASSUME NEW w \in Writers,
             \/ CancelReserveWrite(w) \/ LoadTail(w) \/ CasTailFail(w) \/ CheckFree(w)
             \/ CopyIn(w) \/ PublishState(w) \/ PostWrite(w)
      PROVE  ClaimOrder'
  <2>1. /\ claimed' = claimed /\ pushes' = pushes
        /\ \A v \in Writers : wpc'[v] \in {"cancel", "load_tail", "cas_tail"}
                                => wpc[v] \in {"cancel", "load_tail", "cas_tail"}
    BY <1>3 DEF CancelReserveWrite, LoadTail, CasTailFail, CheckFree, CopyIn,
                PublishState, PostWrite, TypeOK
  <2> QED BY <1>0, <2>1 DEF ClaimOrder
<1>4. ASSUME Pop \/ UNCHANGED vars PROVE ClaimOrder'
  <2>1. UNCHANGED <<claimed, pushes, wpc>>
    BY <1>4 DEF Pop, ReserveRead, CancelReserveRead, LoadHead, CasHead, CasHeadFail,
                CheckReady, Rollback, CopyOut, FreeState, PostRead, vars
  <2> QED BY <2>1 DEF ClaimOrder
<1> QED BY <1>1, <1>2, <1>3, <1>4 DEF Next, Push

\* RingInv is inductive.
LEMMA RingInvStep == RingInv /\ [Next]_vars => RingInv'
<1> SUFFICES ASSUME RingInv, [Next]_vars
             PROVE  RingInv'
  OBVIOUS
<1>1. TypeOK /\ RingParts /\ UsedAccounting /\ ClaimOrder
  BY DEF RingInv, RingParts
<1>2. RingParts'
  <2>1. CASE Pop \/ UNCHANGED vars
    BY <1>1, <2>1, ReaderFrame, RingCopyOut, RingFree DEF Pop
  <2>2. ASSUME NEW w \in Writers, Push(w) PROVE RingParts'
    BY <1>1, <2>2, RingFrame, RingClaim, RingPublish DEF Push
  <2> QED BY <2>1, <2>2 DEF Next
<1>3. TypeOK' /\ UsedAccounting' /\ ClaimOrder'
  BY <1>1, TypeStep, UsedStep, ClaimOrderStep DEF RingParts
<1> QED BY <1>2, <1>3 DEF RingInv, RingParts

\* The ring invariant holds of every execution of lq_push and lq_pop.
THEOREM RingInvariance == Spec => []RingInv
<1>1. Init => RingInv
  <2> SUFFICES ASSUME Init PROVE RingInv
    OBVIOUS
  <2> USE SizeAssumption, MaxPushAssumption DEF Init
  <2>1. TypeOK
    BY DEF TypeOK, Slots, WriterPCs, ReaderPCs
  <2>2. Writing = {} /\ Reserved = {} /\ Cancelling = {}
    BY DEF Writing, Reserved, Cancelling
  <2>3. UsedAccounting
    BY <2>2, FS_EmptySet DEF UsedAccounting, Returned
  <2>4. Freed = 0 /\ ReadSlot = 0 /\ Len(claimed) = 0
    BY DEF Freed, ReadSlot
  <2>5. RingSpan
    BY <2>4 DEF RingSpan
  <2>6. SlotContents
    BY <2>4 DEF SlotContents, LastTicket, Slots
  <2>7. NoReadOutOfOrder /\ WriterSlots /\ DeliveredPrefix /\ ClaimOrder
    BY <2>2 DEF NoReadOutOfOrder, WriterSlots, DeliveredPrefix, ClaimOrder, Reading
  <2> QED BY <2>1, <2>3, <2>5, <2>6, <2>7 DEF RingInv
<1> QED BY <1>1, RingInvStep, PTL DEF Spec

\* The fields keep their types.
THEOREM TypeCorrect == Spec => []TypeOK
<1>1. RingInv => TypeOK
  BY DEF RingInv
<1> QED BY <1>1, RingInvariance, PTL

\* The assertion in lq_request_entry_write never fails.
THEOREM AssertionHolds == Spec => []NoReadOutOfOrder
<1>1. RingInv => NoReadOutOfOrder
  BY DEF RingInv
<1> QED BY <1>1, RingInvariance, PTL

\* No entry is copied by two threads at the same time.
THEOREM MutualExclusion == Spec => []SlotExclusive
<1>1. RingInv => SlotExclusive
  <2> SUFFICES ASSUME RingInv PROVE SlotExclusive
    OBVIOUS
  <2>1. \A w \in Writing : Reading => wtail[w] # rhead
    BY DEF RingInv, WriterSlots, DeliveredPrefix, FREE, READY
  <2>2. \A v, w \in Writing : v # w => wtail[v] # wtail[w]
    BY DEF RingInv, WriterSlots
  <2> QED BY <2>1, <2>2 DEF SlotExclusive
<1> QED BY <1>1, RingInvariance, PTL

\* Each writer's events arrive in program order and at most once.
THEOREM ProgramOrder == Spec => []PerWriterFifo
<1>1. RingInv => PerWriterFifo
  <2> SUFFICES ASSUME RingInv, NEW j \in 1..Len(delivered)
               PROVE  /\ delivered[j] \in Events
                      /\ \A i \in 1..j - 1 : delivered[i][1] = delivered[j][1]
                                                 => delivered[i][2] < delivered[j][2]
    BY DEF PerWriterFifo
  <2>1. Len(claimed) \in Nat /\ Len(delivered) \in Nat /\ Len(delivered) <= Len(claimed)
    BY CountTypes DEF RingInv, DeliveredPrefix
  <2>2. \A k \in 1..j : k \in 1..Len(claimed) /\ delivered[k] = claimed[k]
    BY <2>1 DEF RingInv, DeliveredPrefix
  <2>3. j \in 1..j /\ \A i \in 1..j - 1 : i \in 1..j
    BY <2>1
  <2>4. delivered[j] \in Events
    BY <2>1, <2>2, <2>3 DEF RingInv, TypeOK
  <2> QED BY <2>2, <2>3, <2>4 DEF RingInv, ClaimOrder
<1> QED BY <1>1, RingInvariance, PTL

\* unavailableRead stays exact and never wraps below zero.
THEOREM UnavailableReadExact == Spec => []UnavailableReadAccounting
<1> DEFINE U == Cardinality(Unposted)
           Exact == unavailableRead = Size - (Len(claimed) - U) + ReadReserved
<1>1. TypeOK => U \in Nat
  <2>1. Unposted \in SUBSET Writers
    BY DEF Unposted
  <2> QED BY <2>1, WriterSetsFinite
<1>2. TypeOK => ReadReserved \in Int /\ ReadReserved >= Freed
  BY CountTypes DEF ReadReserved
<1>3. RingInv /\ Exact => UnavailableReadAccounting
  <2> SUFFICES ASSUME RingInv, Exact PROVE UnavailableReadAccounting
    OBVIOUS
  <2>1. TypeOK /\ Len(claimed) - Freed <= Size
    BY CountTypes, SizeAssumption DEF RingInv, RingSpan
  <2> HIDE DEF U
  <2>2. unavailableRead >= 0
    BY <1>1, <1>2, <2>1, CountTypes, SizeAssumption
  <2> QED BY <2>2 DEF UnavailableReadAccounting, U
<1>4. Init => Exact
  <2> SUFFICES ASSUME Init PROVE Exact
    OBVIOUS
  <2>1. Unposted = {} /\ Len(claimed) = 0 /\ ReadReserved = 0
    BY DEF Init, Unposted, ReadReserved, Freed
  <2> QED BY <2>1, FS_EmptySet, SizeAssumption DEF Init
<1>5. RingInv /\ RingInv' /\ Exact /\ [Next]_vars => Exact'
  <2> SUFFICES ASSUME RingInv, RingInv', Exact, [Next]_vars PROVE Exact'
    OBVIOUS
  <2>t. TypeOK /\ TypeOK'
    BY DEF RingInv
  <2>u. /\ U \in Nat /\ Len(claimed) \in Nat /\ Size \in Nat /\ ReadReserved \in Int
        /\ unavailableRead \in Int
    BY <1>1, <1>2, <2>t, CountTypes, SizeAssumption DEF TypeOK
  <2>s. Unposted \in SUBSET Writers
    BY DEF Unposted
  <2>x. unavailableRead = Size - (Len(claimed) - U) + ReadReserved
    OBVIOUS
  <2> USE DEF WGoto, bufVars, writerVars, readerVars
  <2> HIDE DEF U
  <2>1. ASSUME NEW w \in Writers, CasTail(w) PROVE Exact'
    <3>1. Unposted' = Unposted \cup {w} /\ w \notin Unposted
      BY <2>1, <2>t DEF CasTail, Unposted, TypeOK
    <3>2. U' = U + 1
      BY <2>s, <3>1, OneWriter DEF U
    <3>3. Len(claimed') = Len(claimed) + 1 /\ ReadReserved' = ReadReserved
      BY <2>1, <2>t, CurrentEventType DEF CasTail, TypeOK, ReadReserved, Freed
    <3>4. unavailableRead' = unavailableRead
      BY <2>1 DEF CasTail
    <3> QED BY <2>u, <2>x, <3>2, <3>3, <3>4
  <2>2. ASSUME NEW w \in Writers, PostWrite(w) PROVE Exact'
    <3>1. Unposted' = Unposted \ {w} /\ w \in Unposted
      BY <2>2, <2>t DEF PostWrite, Unposted, TypeOK
    <3>2. U' = U - 1
      BY <2>s, <3>1, OneWriter DEF U
    <3>3. claimed' = claimed /\ ReadReserved' = ReadReserved /\ unavailableRead' = unavailableRead - 1
      BY <2>2 DEF PostWrite, ReadReserved, Freed
    <3> QED BY <2>u, <2>x, <3>2, <3>3
  <2>3. ASSUME NEW w \in Writers,
               \/ ReserveWrite(w) \/ CancelReserveWrite(w) \/ LoadTail(w) \/ CasTailFail(w)
               \/ CheckFree(w) \/ CopyIn(w) \/ PublishState(w)
        PROVE Exact'
    <3>1. NoReadOutOfOrder'
      BY DEF RingInv
    <3>2. Unposted' = Unposted
      BY <2>3, <2>t, <3>1
      DEF ReserveWrite, CancelReserveWrite, LoadTail, CasTailFail, CheckFree, CopyIn,
          PublishState, Unposted, TypeOK, NoReadOutOfOrder
    <3>3. UNCHANGED <<claimed, delivered, rpc, unavailableRead>>
      BY <2>3 DEF ReserveWrite, CancelReserveWrite, LoadTail, CasTailFail, CheckFree, CopyIn,
                  PublishState
    <3> QED BY <2>x, <3>2, <3>3 DEF ReadReserved, Freed, U
  <2>4. CASE Pop \/ UNCHANGED vars
    <3>1. claimed' = claimed /\ Unposted' = Unposted
      BY <2>4 DEF Pop, ReserveRead, CancelReserveRead, LoadHead, CasHead, CasHeadFail,
                  CheckReady, Rollback, CopyOut, FreeState, PostRead, vars, Unposted
    <3>2. Len(delivered) \in Nat /\ (CopyOut => Len(delivered') = Len(delivered) + 1)
      BY <2>t DEF CopyOut, TypeOK
    <3>3. unavailableRead' - unavailableRead = ReadReserved' - ReadReserved
      <4>1. CASE ReserveRead
        BY <2>u, <3>2, <4>1 DEF ReserveRead, ReadReserved, Freed
      <4>2. CASE CancelReserveRead
        BY <2>u, <3>2, <4>2 DEF CancelReserveRead, ReadReserved, Freed
      <4>3. CASE CopyOut
        BY <2>u, <3>2, <4>3 DEF CopyOut, ReadReserved, Freed
      <4>4. CASE FreeState
        BY <2>u, <3>2, <4>4 DEF FreeState, ReadReserved, Freed
      <4>5. CASE \/ LoadHead \/ CasHead \/ CasHeadFail \/ CheckReady \/ Rollback
                 \/ PostRead \/ UNCHANGED vars
        <5>1. unavailableRead' = unavailableRead /\ ReadReserved' = ReadReserved
          BY <4>5 DEF LoadHead, CasHead, CasHeadFail, CheckReady, Rollback, PostRead,
                      vars, ReadReserved, Freed
        <5> QED BY <5>1, <2>u
      <4> QED BY <2>4, <4>1, <4>2, <4>3, <4>4, <4>5 DEF Pop
    <3>4. ReadReserved' \in Int /\ unavailableRead' \in Int
      BY <1>2, <2>t, CountTypes DEF TypeOK, ReadReserved, Freed
    <3>5. U' = U
      BY <3>1 DEF U
    <3> QED BY <2>u, <2>x, <3>1, <3>3, <3>4, <3>5
  <2> QED BY <2>1, <2>2, <2>3, <2>4 DEF Next, Push
<1> HIDE DEF Exact
<1> QED BY <1>3, <1>4, <1>5, RingInvariance, PTL DEF Spec

\* The lockless queue implements the bounded FIFO channel.
THEOREM Refinement == Spec => ChannelSpec
<1> DEFINE Posted == 1..Len(claimed) \ {ticket[w] : w \in Writing}
<1>1. Init => Channel!Init
  <2> SUFFICES ASSUME Init PROVE Channel!Init
    OBVIOUS
  <2>1. claimed = <<>> /\ delivered = <<>> /\ Posted = {}
    BY DEF Init
  <2> QED BY <2>1 DEF Channel!Init
<1>2. RingInv /\ [Next]_vars => [Channel!Next]_(Channel!chanVars)
  <2> SUFFICES ASSUME RingInv, [Next]_vars
               PROVE  Channel!Next \/ UNCHANGED <<claimed, Posted, delivered>>
    BY DEF Channel!chanVars
  <2>t. TypeOK /\ RingParts /\ UsedAccounting
    BY DEF RingInv, RingParts
  <2> USE DEF WGoto, bufVars, writerVars, readerVars
  <2>1. ASSUME NEW w \in Writers, CasTail(w) PROVE Channel!Next
    <3>1. CurrentEvent(w) \in Events
      BY <2>1, <2>t, CurrentEventType DEF CasTail
    <3>2. Len(claimed) - Len(delivered) < Size
      <4>1. w \in Reserved
        BY <2>1 DEF CasTail, Reserved
      <4> QED BY <2>t, <4>1, ClaimHasRoom, CountTypes, SizeAssumption
    <3>3. claimed' = Append(claimed, CurrentEvent(w)) /\ delivered' = delivered
      BY <2>1 DEF CasTail
    <3>4. Posted' = Posted
      <4>1. Len(claimed') = Len(claimed) + 1 /\ Len(claimed) \in Nat
        BY <2>t, <3>1, <3>3 DEF TypeOK
      <4>2. /\ Writing' = Writing \cup {w} /\ w \notin Writing /\ ticket'[w] = Len(claimed) + 1
            /\ \A v \in Writing : ticket'[v] = ticket[v]
        BY <2>1, <2>t DEF CasTail, Writing, TypeOK
      <4>3. {ticket'[v] : v \in Writing'} = {ticket[v] : v \in Writing} \cup {Len(claimed) + 1}
        BY <4>2
      <4>4. 1..Len(claimed') = 1..Len(claimed) \cup {Len(claimed) + 1}
        BY <4>1
      <4>5. Len(claimed) + 1 \notin 1..Len(claimed)
        BY <4>1
      <4> QED BY <4>3, <4>4, <4>5
    <3>5. Channel!Claim(CurrentEvent(w))
      BY <3>2, <3>3, <3>4 DEF Channel!Claim
    <3> QED BY <3>1, <3>5 DEF Channel!Next
  <2>2. ASSUME NEW w \in Writers, PublishState(w) PROVE Channel!Next
    <3>1. w \in Writing /\ Writing' = Writing \ {w} /\ UNCHANGED <<claimed, delivered, ticket>>
      BY <2>2, <2>t DEF PublishState, Writing, TypeOK
    <3>2. /\ ticket[w] \in 1..Len(claimed)
          /\ \A v \in Writing : v # w => ticket[v] # ticket[w]
      <4>1. Freed >= 0 /\ ticket[w] \in Freed + 1..Len(claimed)
        BY <2>t, <3>1, CountTypes DEF RingParts, WriterSlots, DeliveredPrefix, Freed
      <4> QED BY <2>t, <3>1, <4>1, CountTypes DEF RingParts, WriterSlots
    <3>3. Posted' = Posted \cup {ticket[w]} /\ ticket[w] \notin Posted
      BY <3>1, <3>2
    <3>4. PICK k \in 1..Len(claimed) : k = ticket[w]
      BY <3>2
    <3>5. Channel!Post(k)
      BY <3>1, <3>2, <3>3, <3>4 DEF Channel!Post
    <3> QED BY <3>4, <3>5 DEF Channel!Next
  <2>3. ASSUME CopyOut PROVE Channel!Next
    <3>1. ReadSlot = rhead /\ state[ReadSlot] = READY /\ Freed = Len(delivered)
      BY <2>3, <2>t DEF CopyOut, ReadSlot, RingParts, DeliveredPrefix, Reading, Freed, TypeOK
    <3>2. /\ data[rhead] = claimed[Len(delivered) + 1] /\ Len(delivered) < Len(claimed)
          /\ \A w \in Writing : ticket[w] # Len(delivered) + 1
      BY <2>t, <3>1, ReadSlotTicket DEF RingParts
    <3>3. Len(delivered) + 1 \in Posted
      BY <2>t, <3>2, CountTypes
    <3>4. /\ delivered' = Append(delivered, claimed[Len(delivered) + 1])
          /\ claimed' = claimed /\ Posted' = Posted
      BY <2>3, <3>2 DEF CopyOut, Writing
    <3> QED BY <3>3, <3>4 DEF Channel!Next, Channel!Receive
  <2>4. ASSUME NEW w \in Writers,
               \/ ReserveWrite(w) \/ CancelReserveWrite(w) \/ LoadTail(w) \/ CasTailFail(w)
               \/ CheckFree(w) \/ CopyIn(w) \/ PostWrite(w)
        PROVE UNCHANGED <<claimed, Posted, delivered>>
    <3>1. w \in Writing => state[wtail[w]] = FREE
      BY <2>t DEF RingParts, WriterSlots
    <3>2. UNCHANGED <<claimed, delivered, ticket>>
      BY <2>4 DEF ReserveWrite, CancelReserveWrite, LoadTail, CasTailFail, CheckFree,
                  CopyIn, PostWrite
    <3>3. Writing' = Writing
      BY <2>4, <2>t, <3>1 DEF ReserveWrite, CancelReserveWrite, LoadTail, CasTailFail,
                  CheckFree, CopyIn, PostWrite, Writing, TypeOK
    <3> QED BY <3>2, <3>3
  <2>5. CASE \/ ReserveRead \/ CancelReserveRead \/ LoadHead \/ CasHead \/ CasHeadFail
             \/ CheckReady \/ Rollback \/ FreeState \/ PostRead \/ UNCHANGED vars
    <3>1. UNCHANGED <<claimed, delivered, ticket, wpc>>
      BY <2>5 DEF ReserveRead, CancelReserveRead, LoadHead, CasHead, CasHeadFail,
                  CheckReady, Rollback, FreeState, PostRead, vars
    <3> QED BY <3>1 DEF Writing
  <2> QED BY <2>1, <2>2, <2>3, <2>4, <2>5 DEF Next, Push, Pop
<1> QED BY <1>1, <1>2, RingInvariance, PTL DEF Spec, ChannelSpec, Channel!Spec
=============================================================================
