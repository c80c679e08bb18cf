--------------------------- MODULE BoundedChannel ---------------------------
(***************************************************************************)
(* The bounded command, event and request channels of i2pr-runtime         *)
(* (crates/i2pr-runtime/src/channel.rs): senders that reserve a slot, then  *)
(* a resource lease, then count and push the entry; one receiver that pops, *)
(* closes, or is dropped; the resource budget that every entry is charged  *)
(* to; and the one-shot answer of a request.  The Tokio semaphore and queue *)
(* underneath (mpsc) are external and modelled by what the wrapper relies on.*)
(***************************************************************************)
EXTENDS Integers, Sequences, FiniteSets, Functions

CONSTANTS Senders,    \* the clones of CommandSenderInner
          Ops,        \* the entry points each sender uses
          Capacity,   \* slots of the mpsc queue
          Estimates,  \* byte estimates callers may pass
          Maximum,    \* QueueCharge::PerBytes.maximum
          Limit,      \* the budget's limit for the charged class
          MaxSends    \* bound: calls per sender

\* try_send, send_until and the request sender's request
EntryPoints == {"try", "until", "request"}

ASSUME ChannelAssumption ==
  /\ IsFiniteSet(Senders)
  /\ Ops \in [Senders -> SUBSET EntryPoints]
  /\ Capacity \in Nat \ {0}
  /\ Estimates \subseteq Nat
  /\ Maximum \in Nat \ {0}
  /\ Limit \in Nat \ {0}
  /\ MaxSends \in Nat

VARIABLES pc,          \* where each sender is inside try_send / send_until
          call,        \* the item each sender is carrying
          sends,       \* calls each sender has made
          queue,       \* entries of the mpsc queue
          permits,     \* free permits of the mpsc semaphore
          mpscClosed,  \* the semaphore is closed
          receiverClosed, \* ChannelState.receiver_closed
          rx,          \* the receiver: open, being dropped, gone
          cancelled,   \* the callers' cancellation token
          queued,      \* ChannelCounters.queued
          dropped,     \* ChannelCounters.dropped
          used,        \* units held in the budget class
          held,        \* the item the receiver has taken out, if any
          delivered,   \* history: items handed to the receiver, in order
          returned     \* history: items given back to their caller by an error

vars == <<pc, call, sends, queue, permits, mpscClosed, receiverClosed, rx,
          cancelled, queued, dropped, used, held, delivered, returned>>

Item == [from : Senders, n : 1..MaxSends, op : EntryPoints, bytes : Estimates]
Stages == {"popped", "taken", "answered"}
NoItem == [stage |-> "none"]

PermitHeld == {"reserved", "checked", "admitted", "accepted"}
LeaseHeld  == {"admitted", "accepted"}
Places == PermitHeld \cup {"idle", "reserve", "awaiting", "gone"}
-----------------------------------------------------------------------------
Init ==
  /\ pc = [s \in Senders |-> "idle"]
  /\ call = [s \in Senders |-> NoItem]
  /\ sends = [s \in Senders |-> 0]
  /\ queue = <<>>
  /\ permits = Capacity
  /\ mpscClosed = FALSE /\ receiverClosed = FALSE /\ rx = "open"
  /\ cancelled = FALSE
  /\ queued = 0 /\ dropped = 0 /\ used = 0
  /\ held = NoItem
  /\ delivered = <<>> /\ returned = {}

\* An error hands the payload back to the caller.
GiveBack(s) ==
  /\ pc' = [pc EXCEPT ![s] = "idle"]
  /\ returned' = returned \cup {call[s]}

\* Saturating arithmetic of the counters and of ResourceBudget::release.
Minus(a, b) == IF b <= a THEN a - b ELSE 0

receiverVars == <<mpscClosed, receiverClosed, rx, held, delivered>>
-----------------------------------------------------------------------------
\* Entry of try_send / send_until: the token, then the closed flag.
BeginSend(s, op, bytes) ==
  LET item == [from |-> s, n |-> sends[s] + 1, op |-> op, bytes |-> bytes] IN
  /\ pc[s] = "idle" /\ sends[s] < MaxSends
  /\ sends' = [sends EXCEPT ![s] = @ + 1]
  /\ call' = [call EXCEPT ![s] = item]
  /\ IF (op # "try" /\ cancelled) \/ receiverClosed
       THEN returned' = returned \cup {item} /\ UNCHANGED pc
       ELSE pc' = [pc EXCEPT ![s] = "reserve"] /\ UNCHANGED returned
  /\ UNCHANGED <<queue, permits, cancelled, queued, dropped, used, receiverVars>>

\* try_reserve / reserve_owned obtains a permit of the semaphore.
Reserve(s) ==
  /\ pc[s] = "reserve" /\ ~mpscClosed /\ permits > 0
  /\ permits' = permits - 1
  /\ pc' = [pc EXCEPT ![s] = "reserved"]
  /\ UNCHANGED <<call, sends, queue, cancelled, queued, dropped, used, returned,
                 receiverVars>>

\* Full for try_send; Closed; Cancelled and DeadlineElapsed for send_until.
ReserveFails(s) ==
  /\ pc[s] = "reserve"
  /\ \/ mpscClosed
     \/ call[s].op = "try" /\ permits = 0
     \/ call[s].op # "try" /\ cancelled
     \/ call[s].op # "try"                \* the deadline may elapse at any time
  /\ GiveBack(s)
  /\ UNCHANGED <<call, sends, queue, permits, cancelled, queued, dropped, used,
                 receiverVars>>

\* Fault: the permit is forgotten, not dropped, on the closed path.
Recheck_LeaksPermit(s) ==
  /\ pc[s] = "reserved"
  /\ IF receiverClosed
       THEN GiveBack(s) /\ UNCHANGED permits
       ELSE pc' = [pc EXCEPT ![s] = "checked"] /\ UNCHANGED <<permits, returned>>
  /\ UNCHANGED <<call, sends, queue, cancelled, queued, dropped, used, receiverVars>>

\* The second look at receiver_closed, with the permit in hand.
Recheck(s) ==
  /\ pc[s] = "reserved"
  /\ IF receiverClosed
       THEN GiveBack(s) /\ permits' = permits + 1
       ELSE pc' = [pc EXCEPT ![s] = "checked"] /\ UNCHANGED <<permits, returned>>
  /\ UNCHANGED <<call, sends, queue, cancelled, queued, dropped, used, receiverVars>>

\* ChannelState::admit on the way in: estimate range, then the budget.
CanAdmit(bytes) == bytes > 0 /\ bytes <= Maximum /\ used + bytes <= Limit

Admit(s) ==
  /\ pc[s] = "checked"
  /\ IF CanAdmit(call[s].bytes)
       THEN /\ used' = used + call[s].bytes
            /\ pc' = [pc EXCEPT ![s] = "admitted"]
            /\ UNCHANGED <<permits, returned>>
       ELSE GiveBack(s) /\ permits' = permits + 1 /\ UNCHANGED used
  /\ UNCHANGED <<call, sends, queue, cancelled, queued, dropped, receiverVars>>

\* ChannelState::accepted: counted before the entry is visible to the receiver.
Accept(s) ==
  /\ pc[s] = "admitted"
  /\ queued' = queued + 1
  /\ pc' = [pc EXCEPT ![s] = "accepted"]
  /\ UNCHANGED <<call, sends, queue, permits, cancelled, dropped, used, returned,
                 receiverVars>>

\* permit.send: the entry takes over the slot.  A request then waits.
Push(s) ==
  /\ pc[s] = "accepted"
  /\ queue' = Append(queue, call[s])
  /\ pc' = [pc EXCEPT ![s] = IF call[s].op = "request" THEN "awaiting" ELSE "idle"]
  /\ UNCHANGED <<call, sends, permits, cancelled, queued, dropped, used, returned,
                 receiverVars>>

\* Fault: the response wait observes the token but has no deadline.
StopAwaiting_NoDeadline(s) ==
  /\ pc[s] = "awaiting" /\ cancelled
  /\ pc' = [pc EXCEPT ![s] = "idle"]
  /\ UNCHANGED <<call, sends, queue, permits, cancelled, queued, dropped, used,
                 returned, receiverVars>>

\* Fault: a request whose answer is late is given back while it is still queued.
StopAwaiting_GivesBack(s) ==
  /\ pc[s] = "awaiting"
  /\ GiveBack(s)
  /\ UNCHANGED <<call, sends, queue, permits, cancelled, queued, dropped, used,
                 receiverVars>>

\* The response wait of send_request_inner ends by cancellation or deadline.
StopAwaiting(s) ==
  /\ pc[s] = "awaiting"
  /\ pc' = [pc EXCEPT ![s] = "idle"]
  /\ UNCHANGED <<call, sends, queue, permits, cancelled, queued, dropped, used,
                 returned, receiverVars>>

DropSender(s) ==
  /\ pc[s] = "idle"
  /\ pc' = [pc EXCEPT ![s] = "gone"]
  /\ UNCHANGED <<call, sends, queue, permits, cancelled, queued, dropped, used,
                 returned, receiverVars>>
-----------------------------------------------------------------------------
\* The receiver is inside a receive call, between the pop and the count: it is
\* borrowed mutably, so it can be neither closed nor dropped there.
Popped == IF held # NoItem /\ held.stage = "popped" THEN 1 ELSE 0

\* The oneshot of item ends the wait of its requester, if it still waits for it.
Release(item) ==
  LET s == item.from IN
  IF item.op = "request" /\ pc[s] = "awaiting" /\ call[s].n = item.n
    THEN [pc EXCEPT ![s] = "idle"] ELSE pc

\* recv / recv_until / try_recv: the mpsc pop returns the slot ...  The receiver
\* finishes one item before it takes the next.
Pop ==
  /\ rx = "open" /\ receiverClosed = mpscClosed /\ held = NoItem /\ queue # <<>>
  /\ held' = [stage |-> "popped", item |-> Head(queue)]
  /\ queue' = Tail(queue)
  /\ permits' = permits + 1
  /\ UNCHANGED <<pc, call, sends, mpscClosed, receiverClosed, rx, cancelled, queued,
                 dropped, used, delivered, returned>>

\* ... and Queued::into_parts counts it out.
Take ==
  /\ held # NoItem /\ held.stage = "popped"
  /\ held' = [held EXCEPT !.stage = "taken"]
  /\ queued' = Minus(queued, 1)
  /\ delivered' = Append(delivered, held.item)
  /\ UNCHANGED <<pc, call, sends, queue, permits, mpscClosed, receiverClosed, rx,
                 cancelled, dropped, used, returned>>

\* ReceivedRequest::respond, or dropping the request unanswered, wakes the requester.
Respond ==
  /\ held # NoItem /\ held.stage = "taken" /\ held.item.op = "request"
  /\ held' = [held EXCEPT !.stage = "answered"]
  /\ pc' = Release(held.item)
  /\ UNCHANGED <<call, sends, queue, permits, mpscClosed, receiverClosed, rx, cancelled,
                 queued, dropped, used, delivered, returned>>

\* Fault: the lease of a received item is never released.
Finish_KeepsLease ==
  /\ held # NoItem
  /\ held.stage = IF held.item.op = "request" THEN "answered" ELSE "taken"
  /\ held' = NoItem
  /\ UNCHANGED <<pc, call, sends, queue, permits, mpscClosed, receiverClosed, rx,
                 cancelled, queued, dropped, used, delivered, returned>>

\* Dropping the Received item releases its lease.
Finish ==
  /\ held # NoItem
  /\ held.stage = IF held.item.op = "request" THEN "answered" ELSE "taken"
  /\ used' = Minus(used, held.item.bytes)
  /\ held' = NoItem
  /\ UNCHANGED <<pc, call, sends, queue, permits, mpscClosed, receiverClosed, rx,
                 cancelled, queued, dropped, delivered, returned>>

\* CommandReceiver::close, or its Drop, first raises the flag ...
CloseFlag ==
  /\ rx = "open" /\ ~receiverClosed /\ Popped = 0
  /\ receiverClosed' = TRUE
  /\ UNCHANGED <<pc, call, sends, queue, permits, mpscClosed, rx, cancelled, queued,
                 dropped, used, held, delivered, returned>>

\* ... then closes the mpsc half.
CloseQueue ==
  /\ receiverClosed /\ ~mpscClosed
  /\ mpscClosed' = TRUE
  /\ UNCHANGED <<pc, call, sends, queue, permits, receiverClosed, rx, cancelled, queued,
                 dropped, used, held, delivered, returned>>

\* The receiver is dropped; what it had closed stays closed.
DropReceiver ==
  /\ rx = "open" /\ receiverClosed = mpscClosed /\ Popped = 0
  /\ receiverClosed' = TRUE
  /\ rx' = "dropping"
  /\ UNCHANGED <<pc, call, sends, queue, permits, mpscClosed, cancelled, queued, dropped,
                 used, held, delivered, returned>>

\* Queued::drop of the head entry: counters, response sender, lease.
DropHead ==
  LET item == Head(queue) IN
  /\ queue # <<>>
  /\ queue' = Tail(queue)
  /\ permits' = permits + 1
  /\ queued' = Minus(queued, 1)
  /\ dropped' = dropped + 1
  /\ used' = Minus(used, item.bytes)
  /\ pc' = Release(item)

\* The mpsc receiver drains what it finds, then is gone.
Drain ==
  /\ rx = "dropping" /\ mpscClosed
  /\ DropHead
  /\ UNCHANGED <<call, sends, cancelled, returned, receiverVars>>

Drained ==
  /\ rx = "dropping" /\ mpscClosed /\ queue = <<>>
  /\ rx' = "gone"
  /\ UNCHANGED <<pc, call, sends, queue, permits, mpscClosed, receiverClosed, cancelled,
                 queued, dropped, used, held, delivered, returned>>

\* An entry pushed after the drain lives until the last sender frees the queue.
FreeQueue ==
  /\ rx = "gone" /\ \A s \in Senders : pc[s] = "gone"
  /\ DropHead
  /\ UNCHANGED <<call, sends, cancelled, returned, receiverVars>>

Cancel ==
  /\ ~cancelled
  /\ cancelled' = TRUE
  /\ UNCHANGED <<pc, call, sends, queue, permits, queued, dropped, used, returned,
                 receiverVars>>
-----------------------------------------------------------------------------
SenderStep(s) ==
  \/ Reserve(s) \/ ReserveFails(s) \/ Recheck(s) \/ Admit(s) \/ Accept(s)
  \/ Push(s) \/ StopAwaiting(s)

Receiver == Pop \/ Take \/ Respond \/ Finish \/ CloseFlag \/ CloseQueue
            \/ DropReceiver \/ Drain \/ Drained \/ FreeQueue

Terminated ==
  /\ rx = "gone" /\ held = NoItem /\ queue = <<>>
  /\ \A s \in Senders : pc[s] = "gone"
  /\ UNCHANGED vars

Next ==
  \/ \E s \in Senders : SenderStep(s) \/ DropSender(s)
  \/ \E s \in Senders : \E op \in Ops[s], bytes \in Estimates : BeginSend(s, op, bytes)
  \/ Receiver \/ Cancel \/ Terminated

Spec == Init /\ [][Next]_vars /\ \A s \in Senders : WF_vars(SenderStep(s))
-----------------------------------------------------------------------------
Count(states) == Cardinality({s \in Senders : pc[s] \in states})

TypeOK ==
  /\ pc \in [Senders -> Places]
  /\ call \in [Senders -> Item \cup {NoItem}]
  /\ sends \in [Senders -> 0..MaxSends]
  /\ queue \in Seq(Item) /\ delivered \in Seq(Item) /\ returned \subseteq Item
  /\ permits \in Nat
  /\ mpscClosed \in BOOLEAN /\ receiverClosed \in BOOLEAN /\ cancelled \in BOOLEAN
  /\ rx \in {"open", "dropping", "gone"}
  /\ queued \in Nat /\ dropped \in Nat /\ used \in 0..Limit
  /\ held \in {NoItem} \cup [stage : Stages, item : Item]

LeaseHolders ==
  Range(queue) \cup {call[s] : s \in {t \in Senders : pc[t] \in LeaseHeld}}
               \cup (IF held = NoItem THEN {} ELSE {held.item})

\* The units that a set of items is charged.
Units(items) == UNION {{i} \X (1 .. i.bytes) : i \in items}

\* The budget is charged for exactly the items that are between admission and
\* release: queued, about to be pushed, or in the receiver's hands.  A caller that
\* waits for a slot holds no lease, and no path leaks one (channel.rs module doc).
LeaseAccounting == TypeOK /\ used = Cardinality(Units(LeaseHolders))

\* Every slot is free, promised to one sender, or filled by one entry, whatever
\* error path the sender leaves through.  ChannelCounters.queued never drifts: it
\* exceeds the queue only by the senders and the receiver that are between the
\* counter and the queue.
SlotAccounting ==
  /\ permits + Len(queue) + Count(PermitHeld) = Capacity
  /\ queued - Len(queue) - Popped = Count({"accepted"})

\* Every call made so far: a sender and the number of the call.
Calls == UNION {{s} \X (1 .. sends[s]) : s \in Senders}

\* Every call ends in exactly one of: given back by an error, delivered, dropped
\* with the queue, or still on its way: nothing is lost or sent twice, and what
\* one sender sends is received in the order it was sent.  A requester waits only
\* while its entry, and with it the answering half of its oneshot, still exists: when
\* the entry is dropped unanswered the wait ends with ResponseClosed.  An entry pushed
\* after the drain of a dropped receiver exists and is never answered; that wait ends
\* at the deadline.
OnceInOrder ==
  /\ returned \cap (Range(queue) \cup Range(delivered)) = {}
  /\ Cardinality(returned) + Len(delivered) + dropped + Len(queue) + Popped
       + Count(PermitHeld \cup {"reserve"}) = Cardinality(Calls)
  /\ \A i, j \in 1..Len(delivered) :
       i < j /\ delivered[i].from = delivered[j].from => delivered[i].n < delivered[j].n
  /\ \A s \in Senders : pc[s] = "awaiting" =>
       \/ call[s] \in Range(queue)
       \/ held # NoItem /\ held.stage # "answered" /\ held.item = call[s]

\* Every send and every request returns to its caller, though no receiver is
\* obliged to receive, answer or close: the deadline ends each wait.
SendReturns == \A s \in Senders : pc[s] # "idle" ~> pc[s] \in {"idle", "gone"}
=============================================================================
