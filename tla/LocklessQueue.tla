---------------------------- MODULE LocklessQueue ----------------------------
(***************************************************************************)
(* The ring buffer of lockless_srmw_queue.c: any number of writers         *)
(* (threads inside memtier_malloc/free/realloc) call lq_push, one reader   *)
(* (the PEBS thread) calls lq_pop.  Every atomic access of the C code is   *)
(* one action.  metadata_state, head, tail, used and unavailableRead are   *)
(* C11 atomics whose accesses are at least acquire/release ordered around  *)
(* the plain memcpy of the entry, so interleaving the atomic accesses is   *)
(* the semantics the build has.                                            *)
(*                                                                         *)
(* claimed and delivered are history variables; ticket[w] is the position  *)
(* in claimed of the push w is executing.                                  *)
(***************************************************************************)
EXTENDS Integers, Sequences, FiniteSets

CONSTANTS Writers,   \* the threads that push
          Size,      \* lq_init's entries
          MaxPush    \* bound on the lq_push calls of one writer

ASSUME WritersAssumption == IsFiniteSet(Writers)
ASSUME SizeAssumption == Size \in Nat \ {0}
ASSUME MaxPushAssumption == MaxPush \in Nat

VARIABLES head, tail, used, unavailableRead,  \* the fields of lq_buffer_t
          state, data,                        \* the entries
          wpc, wtail, pushes, ticket,         \* writers: control, tail_idx_old, calls made
          rpc, rhead,                         \* the reader: control, head_idx_old
          claimed, delivered                  \* history

bufVars == <<head, tail, used, unavailableRead, state, data>>
writerVars == <<wpc, wtail, pushes, ticket>>
readerVars == <<rpc, rhead>>
vars == <<head, tail, used, unavailableRead, state, data, wpc, wtail, pushes,
          ticket, rpc, rhead, claimed, delivered>>

Slots == 0..Size - 1
FREE == "FREE"
READY == "READY"
NoEvent == <<>>

\* The n-th event of a writer: what the caller's buffer `in` holds.
Events == Writers \X (1..MaxPush)
CurrentEvent(w) == <<w, pushes[w]>>

\* head_idx_new++ and %= size, in both compare-exchange loops.
NextSlot(i) == (i + 1) % Size

WGoto(w, p) == wpc' = [wpc EXCEPT ![w] = p]

Init == /\ head = 0 /\ tail = 0 /\ used = 0 /\ unavailableRead = Size
        /\ state = [i \in Slots |-> FREE]
        /\ data = [i \in Slots |-> NoEvent]
        /\ wpc = [w \in Writers |-> "idle"]
        /\ wtail = [w \in Writers |-> 0]
        /\ pushes = [w \in Writers |-> 0]
        /\ ticket = [w \in Writers |-> 0]
        /\ rpc = "idle" /\ rhead = 0
        /\ claimed = <<>> /\ delivered = <<>>

-----------------------------------------------------------------------------
(* lq_push *)

ReserveWriteInclusive(w) ==
    /\ wpc[w] = "idle" /\ pushes[w] < MaxPush
    /\ pushes' = [pushes EXCEPT ![w] = @ + 1]
    /\ used' = used + 1
    /\ WGoto(w, IF used <= Size THEN "load_tail" ELSE "cancel")
    /\ UNCHANGED <<head, tail, unavailableRead, state, data, wtail, ticket,
                   rpc, rhead, claimed, delivered>>

\* lq_reserve_write: count the entry in, and only then look whether it fits.
ReserveWrite(w) ==
    /\ wpc[w] = "idle" /\ pushes[w] < MaxPush
    /\ pushes' = [pushes EXCEPT ![w] = @ + 1]
    /\ used' = used + 1
    /\ WGoto(w, IF used < Size THEN "load_tail" ELSE "cancel")
    /\ UNCHANGED <<head, tail, unavailableRead, state, data, wtail, ticket,
                   rpc, rhead, claimed, delivered>>

\* lq_cancel_reserve_write after a failed reservation; lq_push returns false.
CancelReserveWrite(w) ==
    /\ wpc[w] = "cancel"
    /\ used' = used - 1
    /\ WGoto(w, "idle")
    /\ UNCHANGED <<head, tail, unavailableRead, state, data, wtail, pushes,
                   ticket, rpc, rhead, claimed, delivered>>

LoadTail(w) ==
    /\ wpc[w] = "load_tail"
    /\ wtail' = [wtail EXCEPT ![w] = tail]
    /\ WGoto(w, "cas_tail")
    /\ UNCHANGED <<bufVars, pushes, ticket, readerVars, claimed, delivered>>

CasTailUnchecked(w) ==
    /\ wpc[w] = "cas_tail"
    /\ tail' = NextSlot(wtail[w])
    /\ claimed' = Append(claimed, CurrentEvent(w))
    /\ ticket' = [ticket EXCEPT ![w] = Len(claimed) + 1]
    /\ WGoto(w, "check")
    /\ UNCHANGED <<head, used, unavailableRead, state, data, wtail, pushes,
                   readerVars, delivered>>

\* The compare-exchange that succeeds: the entry wtail[w] now belongs to w.
CasTail(w) ==
    /\ wpc[w] = "cas_tail"
    /\ tail = wtail[w]
    /\ tail' = NextSlot(wtail[w])
    /\ claimed' = Append(claimed, CurrentEvent(w))
    /\ ticket' = [ticket EXCEPT ![w] = Len(claimed) + 1]
    /\ WGoto(w, "check")
    /\ UNCHANGED <<head, used, unavailableRead, state, data, wtail, pushes,
                   readerVars, delivered>>

CasTailFailNoReload(w) ==
    /\ wpc[w] = "cas_tail"
    /\ WGoto(w, "cas_tail")
    /\ UNCHANGED <<bufVars, wtail, pushes, ticket, readerVars, claimed, delivered>>

\* The compare-exchange that fails: tail moved, or the weak form failed by itself.
CasTailFail(w) ==
    /\ wpc[w] = "cas_tail"
    /\ WGoto(w, "load_tail")
    /\ UNCHANGED <<bufVars, wtail, pushes, ticket, readerVars, claimed, delivered>>

\* lq_request_entry_write's check; "aborted" is assert(false && "read out of
\* order! Is there >1 reader?"), after the reservation was cancelled.
CheckFree(w) ==
    /\ wpc[w] = "check"
    /\ LET free == state[wtail[w]] = FREE
       IN  /\ WGoto(w, IF free THEN "copy" ELSE "aborted")
           /\ used' = IF free THEN used ELSE used - 1
    /\ UNCHANGED <<head, tail, unavailableRead, state, data, wtail, pushes,
                   ticket, readerVars, claimed, delivered>>

CopyIn(w) ==
    /\ wpc[w] = "copy"
    /\ data' = [data EXCEPT ![wtail[w]] = CurrentEvent(w)]
    /\ WGoto(w, "publish")
    /\ UNCHANGED <<head, tail, used, unavailableRead, state, wtail, pushes,
                   ticket, readerVars, claimed, delivered>>

\* lq_post_entry_write, the metadata_state store.
PublishState(w) ==
    /\ wpc[w] = "publish"
    /\ state' = [state EXCEPT ![wtail[w]] = READY]
    /\ WGoto(w, "post")
    /\ UNCHANGED <<head, tail, used, unavailableRead, data, wtail, pushes,
                   ticket, readerVars, claimed, delivered>>

PostWriteSilent(w) ==
    /\ wpc[w] = "post"
    /\ WGoto(w, "idle")
    /\ UNCHANGED <<bufVars, wtail, pushes, ticket, readerVars, claimed, delivered>>

\* lq_post_entry_write, the unavailableRead decrement; lq_push returns true.
PostWrite(w) ==
    /\ wpc[w] = "post"
    /\ unavailableRead' = unavailableRead - 1
    /\ WGoto(w, "idle")
    /\ UNCHANGED <<head, tail, used, state, data, wtail, pushes, ticket,
                   readerVars, claimed, delivered>>

-----------------------------------------------------------------------------
(* lq_pop *)

\* lq_reserve_read.
ReserveRead ==
    /\ rpc = "idle"
    /\ unavailableRead' = unavailableRead + 1
    /\ rpc' = IF unavailableRead < Size THEN "load_head" ELSE "cancel"
    /\ UNCHANGED <<head, tail, used, state, data, writerVars, rhead, claimed, delivered>>

CancelReadWithoutRelease ==
    /\ rpc = "cancel"
    /\ unavailableRead' = unavailableRead
    /\ rpc' = "idle"
    /\ UNCHANGED <<head, tail, used, state, data, writerVars, rhead, claimed, delivered>>

\* lq_cancel_reserve_read, on either path; lq_pop returns false.
CancelReserveRead ==
    /\ rpc = "cancel"
    /\ unavailableRead' = unavailableRead - 1
    /\ rpc' = "idle"
    /\ UNCHANGED <<head, tail, used, state, data, writerVars, rhead, claimed, delivered>>

LoadHead ==
    /\ rpc = "load_head"
    /\ rhead' = head
    /\ rpc' = "cas_head"
    /\ UNCHANGED <<bufVars, writerVars, claimed, delivered>>

CasHead ==
    /\ rpc = "cas_head"
    /\ head = rhead
    /\ head' = NextSlot(rhead)
    /\ rpc' = "check"
    /\ UNCHANGED <<tail, used, unavailableRead, state, data, writerVars, rhead,
                   claimed, delivered>>

CasHeadFail ==
    /\ rpc = "cas_head"
    /\ rpc' = "load_head"
    /\ UNCHANGED <<bufVars, writerVars, rhead, claimed, delivered>>

CheckReadyAssumed ==
    /\ rpc = "check"
    /\ rpc' = "copy"
    /\ UNCHANGED <<bufVars, writerVars, rhead, claimed, delivered>>

\* lq_request_entry_read's check: is the entry at the old head complete?
CheckReady ==
    /\ rpc = "check"
    /\ rpc' = IF state[rhead] = READY THEN "copy" ELSE "rollback"
    /\ UNCHANGED <<bufVars, writerVars, rhead, claimed, delivered>>

\* The entry at head is still being written: give the position back.
Rollback ==
    /\ rpc = "rollback"
    /\ head' = rhead
    /\ rpc' = "cancel"
    /\ UNCHANGED <<tail, used, unavailableRead, state, data, writerVars, rhead,
                   claimed, delivered>>

CopyOut ==
    /\ rpc = "copy"
    /\ delivered' = Append(delivered, data[rhead])
    /\ rpc' = "free"
    /\ UNCHANGED <<bufVars, writerVars, rhead, claimed>>

\* lq_post_entry_read, the metadata_state store.
FreeState ==
    /\ rpc = "free"
    /\ state' = [state EXCEPT ![rhead] = FREE]
    /\ rpc' = "post"
    /\ UNCHANGED <<head, tail, used, unavailableRead, data, writerVars, rhead,
                   claimed, delivered>>

\* lq_post_entry_read, the used decrement; lq_pop returns true.
PostRead ==
    /\ rpc = "post"
    /\ used' = used - 1
    /\ rpc' = "idle"
    /\ UNCHANGED <<head, tail, unavailableRead, state, data, writerVars, rhead,
                   claimed, delivered>>

-----------------------------------------------------------------------------
Push(w) == \/ ReserveWrite(w) \/ CancelReserveWrite(w)
           \/ LoadTail(w) \/ CasTail(w) \/ CasTailFail(w) \/ CheckFree(w)
           \/ CopyIn(w) \/ PublishState(w) \/ PostWrite(w)

Pop == \/ ReserveRead \/ CancelReserveRead
       \/ LoadHead \/ CasHead \/ CasHeadFail \/ CheckReady \/ Rollback
       \/ CopyOut \/ FreeState \/ PostRead

Next == Pop \/ \E w \in Writers : Push(w)

\* A thread inside lq_push or lq_pop keeps running, the PEBS thread polls for
\* ever, and a compare-exchange that could succeed does not fail for ever.
\* Nothing obliges a writer to start another lq_push.
Fairness ==
    /\ WF_vars(Pop) /\ SF_vars(CasHead)
    /\ \A w \in Writers : /\ WF_vars(Push(w) /\ wpc[w] # "idle")
                          /\ SF_vars(CasTail(w))

Spec == Init /\ [][Next]_vars
FairSpec == Spec /\ Fairness
-----------------------------------------------------------------------------
(* Properties *)

Reserved   == {w \in Writers : wpc[w] \in {"load_tail", "cas_tail"}}
Cancelling == {w \in Writers : wpc[w] = "cancel"}
Writing    == {w \in Writers : wpc[w] \in {"check", "copy", "publish"}}
Unposted   == {w \in Writers : wpc[w] \in {"check", "copy", "publish", "post"}}

Reading == rpc \in {"copy", "free"}

\* Entries whose metadata_state the reader has reset, and entries whose
\* `used` it has also given back.
Freed    == Len(delivered) - (IF rpc = "free" THEN 1 ELSE 0)
Returned == Len(delivered) - (IF rpc \in {"free", "post"} THEN 1 ELSE 0)

\* Entries the reader has taken from unavailableRead's budget.
ReadReserved ==
    Freed + (IF rpc \in {"load_head", "cas_head", "check", "rollback", "cancel", "copy", "free"}
             THEN 1 ELSE 0)

WriterPCs == {"idle", "cancel", "load_tail", "cas_tail", "check", "aborted",
              "copy", "publish", "post"}
ReaderPCs == {"idle", "cancel", "load_head", "cas_head", "check", "rollback",
              "copy", "free", "post"}

\* The fields keep their C types; head and tail stay inside the ring.
TypeOK == /\ head \in Slots /\ tail \in Slots
          /\ used \in Int /\ unavailableRead \in Int
          /\ state \in [Slots -> {FREE, READY}]
          /\ data \in [Slots -> Events \cup {NoEvent}]
          /\ wpc \in [Writers -> WriterPCs]
          /\ wtail \in [Writers -> Slots]
          /\ pushes \in [Writers -> 0..MaxPush]
          /\ \A w \in Writers : wpc[w] # "idle" => pushes[w] > 0
          /\ ticket \in [Writers -> Nat]
          /\ rpc \in ReaderPCs /\ rhead \in Slots
          /\ claimed \in Seq(Events)
          /\ delivered \in Seq(Events \cup {NoEvent})

\* The assertion of lq_request_entry_write ("read out of order! Is there >1
\* reader?") never fails: whoever wins the tail finds the entry FREE, however
\* the failed reservations of other writers and the reader's rollback interleave.
NoReadOutOfOrder == \A w \in Writers : wpc[w] # "aborted"

\* The two plain memcpys never meet: an entry is written by at most one writer,
\* and never while the reader copies it out.
SlotExclusive ==
    /\ \A w \in Writing : Reading => wtail[w] # rhead
    /\ \A v, w \in Writing : v # w => wtail[v] # wtail[w]

\* The reader receives each writer's events in the order of its lq_push calls,
\* none twice, and only events that were pushed.
PerWriterFifo ==
    \A j \in 1..Len(delivered) :
        /\ delivered[j] \in Events
        /\ \A i \in 1..j - 1 :
              delivered[i][1] = delivered[j][1] => delivered[i][2] < delivered[j][2]

\* `used` counts the entries between request write and post read, plus the
\* writers that are about to cancel; the entries themselves never exceed Size.
UsedAccounting ==
    /\ used = Cardinality(Cancelling) + Cardinality(Reserved) + Len(claimed) - Returned
    /\ Cardinality(Reserved) + Len(claimed) - Returned <= Size

\* unavailableRead is the number of entries not between post write and request
\* read; as a size_t it never wraps below zero.
UnavailableReadAccounting ==
    /\ unavailableRead = Size - (Len(claimed) - Cardinality(Unposted)) + ReadReserved
    /\ unavailableRead >= 0

Channel == INSTANCE EventChannel
             WITH Event <- Events, Capacity <- Size,
                  log <- claimed,
                  posted <- 1..Len(claimed) \ {ticket[w] : w \in Writing},
                  received <- delivered

\* The lockless queue is a bounded FIFO channel: what lq_pop copies out is
\* what the push that claimed that position copied in.
ChannelSpec == Channel!Spec

\* Every event that got an entry is eventually handed to the reader: neither
\* the rollback nor a cancelled reservation strands it.
EventuallyDelivered ==
    \A k \in 1..MaxPush * Cardinality(Writers) :
        (Len(claimed) >= k) ~> (Len(delivered) >= k)

\* lq_push always returns, whether it obtains an entry or not.
PushReturns == \A w \in Writers : (wpc[w] # "idle") ~> (wpc[w] = "idle")

-----------------------------------------------------------------------------
(* The invariant behind the properties.  Positions of claimed are related  *)
(* to slots by counting from the tail, which needs no modular arithmetic.  *)

\* The slot the reader takes, or has taken, position Freed + 1 from.
ReadSlot == IF rpc \in {"check", "rollback", "copy", "free"} THEN rhead ELSE head

\* The position that claimed slot i last (not positive: never claimed).
LastTicket(i) == Len(claimed) + 1 + (i - tail) - (IF i >= tail THEN Size ELSE 0)

\* Between the reader's slot and the tail lie exactly the unfreed entries.
RingSpan == /\ Len(claimed) - Freed \in {tail - ReadSlot, tail - ReadSlot + Size}
            /\ Len(claimed) - Freed \in 0..Size
            /\ rpc = "cas_head" => rhead = head
            /\ rpc \in {"check", "rollback", "copy", "free"} => head = NextSlot(rhead)

\* A writer between its claim and its publication holds the last position of
\* its slot, which is unread and still FREE.
WriterSlots ==
    \A w \in Writing :
        /\ ticket[w] = LastTicket(wtail[w])
        /\ ticket[w] \in Freed + 1..Len(claimed)
        /\ claimed[ticket[w]] = CurrentEvent(w)
        /\ state[wtail[w]] = FREE
        /\ wpc[w] = "publish" => data[wtail[w]] = CurrentEvent(w)
        /\ \A v \in Writing : v # w => ticket[v] # ticket[w]

\* Every slot is freed, or being written, or READY with the event of the push
\* that claimed it last.
SlotContents ==
    \A i \in Slots :
        \/ LastTicket(i) <= Freed /\ state[i] = FREE
        \/ LastTicket(i) > Freed /\ \E w \in Writing : ticket[w] = LastTicket(i)
        \/ LastTicket(i) > Freed /\ state[i] = READY /\ data[i] = claimed[LastTicket(i)]

\* The delivered events are the first ones claimed.
DeliveredPrefix ==
    /\ Len(delivered) <= Len(claimed)
    /\ \A k \in 1..Len(delivered) : delivered[k] = claimed[k]
    /\ Reading => state[rhead] = READY
    /\ rpc \in {"free", "post"} => Len(delivered) > 0

\* Each writer claims its positions in the order of its calls.
ClaimOrder ==
    \A j \in 1..Len(claimed) :
        /\ claimed[j][2] <= pushes[claimed[j][1]]
        /\ wpc[claimed[j][1]] \in {"cancel", "load_tail", "cas_tail"}
              => claimed[j][2] < pushes[claimed[j][1]]
        /\ \A i \in 1..j - 1 :
              claimed[i][1] = claimed[j][1] => claimed[i][2] < claimed[j][2]

\* The inductive invariant of lq_push and lq_pop: ring positions, the owner of
\* every slot, the reservations behind `used`, and the order of the events.
RingInv == /\ TypeOK /\ NoReadOutOfOrder /\ UsedAccounting
           /\ RingSpan /\ WriterSlots /\ SlotContents
           /\ DeliveredPrefix /\ ClaimOrder
=============================================================================
