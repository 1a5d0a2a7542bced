---------------------------- MODULE EventChannel ----------------------------
(***************************************************************************)
(* What the single-reader multiple-writer event queue promises to tachanka *)
(* (lockless_srmw_queue.h, ranking_queue.h): a bounded FIFO channel.  A    *)
(* push first claims the next position of the channel, then posts its      *)
(* event there; the reader receives positions strictly in claim order, and *)
(* only once they are posted.  A push or a pop that returns false does not *)
(* change the channel: it is a stuttering step here.                       *)
(***************************************************************************)
EXTENDS Naturals, Sequences

CONSTANTS Event,     \* what can be pushed
          Capacity   \* the number of entries lq_init allocates

VARIABLES log,       \* every event that obtained a position, in claim order
          posted,    \* the positions whose event is complete
          received   \* the events the reader has copied out, in order

chanVars == <<log, posted, received>>

Init == log = <<>> /\ posted = {} /\ received = <<>>

Claim(e) == /\ Len(log) - Len(received) < Capacity
            /\ log' = Append(log, e)
            /\ UNCHANGED <<posted, received>>

Post(k) == /\ k \in 1..Len(log) \ posted
           /\ posted' = posted \cup {k}
           /\ UNCHANGED <<log, received>>

Receive == LET k == Len(received) + 1
           IN  /\ k \in posted
               /\ received' = Append(received, log[k])
               /\ UNCHANGED <<log, posted>>

Next == \/ \E e \in Event : Claim(e)
        \/ \E k \in 1..Len(log) : Post(k)
        \/ Receive

Spec == Init /\ [][Next]_chanVars
=============================================================================
