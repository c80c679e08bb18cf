------------------------ MODULE BoundedChannelProofs ------------------------
(***************************************************************************)
(* A bounded channel with any number of senders, any capacity and any      *)
(* budget.  First its slots and its queued counter are exact; then the     *)
(* budget is charged for exactly the items between admission and release,  *)
(* and every call ends once and in order.                                  *)
(***************************************************************************)
EXTENDS BoundedChannel, FiniteSetTheorems, TLAPS

\* The time the solvers have for a leaf; one that is interrupted is tried again.
USE SMTT(30), Z3T(30), ZenonT(30), SMTT(40)

\* A sender that moves into a set of stages is one more sender in it.
LEMMA CountEnter ==
  ASSUME NEW S, IsFiniteSet(S), NEW f, NEW g, NEW A, NEW s \in S,
         f[s] \notin A, g[s] \in A, \A t \in S \ {s} : g[t] = f[t]
  PROVE  Cardinality({t \in S : g[t] \in A}) = Cardinality({t \in S : f[t] \in A}) + 1
<1> DEFINE F == {t \in S : f[t] \in A}
<1>1. IsFiniteSet(F) BY FS_Subset
<1>2. {t \in S : g[t] \in A} = F \cup {s} OBVIOUS
<1>3. s \notin F OBVIOUS
<1>4. Cardinality(F \cup {s}) = Cardinality(F) + 1 BY <1>1, <1>3, FS_AddElement, ZenonT(60)
<1> QED BY <1>2, <1>4

\* A sender that moves out of a set of stages is one sender less in it.
LEMMA CountLeave ==
  ASSUME NEW S, IsFiniteSet(S), NEW f, NEW g, NEW A, NEW s \in S,
         f[s] \in A, g[s] \notin A, \A t \in S \ {s} : g[t] = f[t]
  PROVE  Cardinality({t \in S : g[t] \in A}) = Cardinality({t \in S : f[t] \in A}) - 1
<1> DEFINE F == {t \in S : f[t] \in A}
<1>1. IsFiniteSet(F) BY FS_Subset
<1>2. {t \in S : g[t] \in A} = F \ {s} OBVIOUS
<1>3. s \in F OBVIOUS
<1>4. Cardinality(F \ {s}) = Cardinality(F) - 1 BY <1>1, <1>3, FS_RemoveElement, ZenonT(60)
<1> QED BY <1>2, <1>4

\* Moves that stay inside or outside a set of stages do not change its count.
LEMMA CountSame ==
  ASSUME NEW S, NEW f, NEW g, NEW A, \A t \in S : (g[t] \in A) <=> (f[t] \in A)
  PROVE  Cardinality({t \in S : g[t] \in A}) = Cardinality({t \in S : f[t] \in A})
<1>1. {t \in S : g[t] \in A} = {t \in S : f[t] \in A} OBVIOUS
<1> QED BY <1>1

\* The counts are natural numbers.
LEMMA CountNat ==
  ASSUME NEW A
  PROVE  Count(A) \in Nat
<1>1. IsFiniteSet({s \in Senders : pc[s] \in A}) BY ChannelAssumption, FS_Subset
<1> QED BY <1>1, FS_CardinalityType DEF Count
-----------------------------------------------------------------------------
\* A sender inside a call carries an item.
CallOK == \A s \in Senders : pc[s] \notin {"idle", "gone"} => call[s] \in Item

\* The length of the queue, senders that hold a permit, and senders that have
\* counted their entry but not yet pushed it.
Waiting == Len(queue)
JustCounted == {"accepted"}
Holders(f) == Cardinality({s \in Senders : f[s] \in PermitHeld})
Counted(f) == Cardinality({s \in Senders : f[s] \in JustCounted})

\* SlotAccounting, in the terms above.
Balance ==
  /\ permits + Waiting + Holders(pc) = Capacity
  /\ queued - Waiting - Popped = Counted(pc)

\* What a step assumes of the state before it.
IInv == TypeOK /\ CallOK /\ Balance

\* The numbers that the balance relates.
Numbers ==
  /\ permits \in Nat /\ queued \in Nat /\ Popped \in Nat /\ Waiting \in Nat
  /\ Holders(pc) \in Nat /\ Counted(pc) \in Nat

LEMMA NumbersNat == ASSUME TypeOK PROVE Numbers
<1>1. Holders(pc) \in Nat /\ Counted(pc) \in Nat
  BY CountNat DEF Count, Holders, Counted
<1>2. permits \in Nat /\ queued \in Nat /\ Waiting \in Nat BY DEF TypeOK, Waiting
<1>3. Popped \in Nat BY DEF Popped
<1> QED BY <1>1, <1>2, <1>3 DEF Numbers

\* A step in which no sender enters or leaves PermitHeld or JustCounted has only the
\* queue, the receiver and the two numbers to keep in balance.
LEMMA HoldersSame ==
  ASSUME \A s \in Senders : (pc'[s] \in PermitHeld) <=> (pc[s] \in PermitHeld),
         \A s \in Senders : (pc'[s] \in JustCounted) <=> (pc[s] \in JustCounted)
  PROVE  Holders(pc') = Holders(pc) /\ Counted(pc') = Counted(pc)
<1>1. Holders(pc') = Holders(pc) BY CountSame DEF Holders
<1>2. Counted(pc') = Counted(pc) BY CountSame DEF Counted
<1> QED BY <1>1, <1>2
-----------------------------------------------------------------------------
\* What the steps need to know of an item.
LEMMA ItemFields ==
  ASSUME NEW i \in Item
  PROVE  i.bytes \in Nat /\ i.from \in Senders
BY ChannelAssumption, ZenonT(60) DEF Item

LEMMA MinusNat ==
  ASSUME NEW a \in Nat, NEW b \in Nat
  PROVE  Minus(a, b) \in Nat /\ Minus(a, b) \in 0..a /\ (b <= a => Minus(a, b) = a - b)
BY DEF Minus

\* A step that moves one sender and touches nothing else that has a type to keep.
LEMMA MoveTypes ==
  ASSUME TypeOK, CallOK, NEW s \in Senders, NEW to \in Places,
         pc' = [pc EXCEPT ![s] = to], to \in {"idle", "gone"} \/ call[s] \in Item,
         UNCHANGED <<call, sends, cancelled, dropped, receiverVars>>,
         queue' \in Seq(Item), permits' \in Nat, queued' \in Nat, used' \in 0..Limit,
         returned' \subseteq Item
  PROVE  TypeOK' /\ CallOK'
<1>1. TypeOK' BY DEF TypeOK, receiverVars
<1>2. CallOK' BY DEF TypeOK, CallOK
<1> QED BY <1>1, <1>2

\* Type correctness of the sender's steps.
LEMMA SenderTypes ==
  ASSUME TypeOK, CallOK, NEW s \in Senders, SenderStep(s) \/ DropSender(s)
  PROVE  TypeOK' /\ CallOK'
<1> DEFINE Kept == /\ UNCHANGED <<call, sends, cancelled, dropped, receiverVars>>
                   /\ queue' \in Seq(Item) /\ permits' \in Nat /\ queued' \in Nat
                   /\ used' \in 0..Limit /\ returned' \subseteq Item
<1>1. /\ queue \in Seq(Item) /\ permits \in Nat /\ queued \in Nat
      /\ used \in 0..Limit /\ used \in Nat /\ Limit \in Nat /\ returned \subseteq Item
  BY ChannelAssumption DEF TypeOK
<1>2. pc[s] \notin {"idle", "gone"} => call[s] \in Item BY DEF CallOK
<1>3. CASE Reserve(s)
  <2>1. Kept BY <1>1, <1>3 DEF Reserve
  <2> QED BY <1>2, <1>3, <2>1, MoveTypes, ZenonT(60) DEF Reserve, Places, PermitHeld
<1>4. CASE ReserveFails(s)
  <2>1. Kept BY <1>1, <1>2, <1>4 DEF ReserveFails, GiveBack
  <2> QED BY <1>4, <2>1, MoveTypes, ZenonT(60) DEF ReserveFails, GiveBack, Places
<1>5. CASE Recheck(s)
  <2>1. Kept BY <1>1, <1>2, <1>5 DEF Recheck, GiveBack
  <2> QED BY <1>2, <1>5, <2>1, MoveTypes DEF Recheck, GiveBack, Places, PermitHeld
<1>6. CASE Admit(s)
  <2>1. call[s] \in Item /\ call[s].bytes \in Nat BY <1>2, <1>6, ItemFields DEF Admit
  <2>2. used' \in 0..Limit BY <1>1, <1>6, <2>1 DEF Admit, CanAdmit
  <2>3. Kept BY <1>1, <1>6, <2>1, <2>2 DEF Admit, GiveBack
  <2> QED BY <1>6, <2>1, <2>3, MoveTypes DEF Admit, GiveBack, Places, PermitHeld
<1>7. CASE Accept(s)
  <2>1. Kept BY <1>1, <1>7 DEF Accept
  <2> QED BY <1>2, <1>7, <2>1, MoveTypes, ZenonT(60) DEF Accept, Places, PermitHeld
<1>8. CASE Push(s)
  <2>1. Kept BY <1>1, <1>2, <1>8 DEF Push
  <2> QED BY <1>2, <1>8, <2>1, MoveTypes, ZenonT(60) DEF Push, Places
<1>9. CASE StopAwaiting(s)
  <2>1. Kept BY <1>1, <1>9 DEF StopAwaiting
  <2> QED BY <1>9, <2>1, MoveTypes, ZenonT(60) DEF StopAwaiting, Places
<1>10. CASE DropSender(s)
  <2>1. Kept BY <1>1, <1>10 DEF DropSender
  <2> QED BY <1>10, <2>1, MoveTypes, ZenonT(60) DEF DropSender, Places
<1> QED BY <1>3, <1>4, <1>5, <1>6, <1>7, <1>8, <1>9, <1>10 DEF SenderStep

\* The first step of a call builds a well-formed item.
LEMMA BeginTypes ==
  ASSUME TypeOK, CallOK,
         NEW s \in Senders, NEW op \in EntryPoints, NEW bytes \in Estimates, BeginSend(s, op, bytes)
  PROVE  TypeOK' /\ CallOK'
<1> DEFINE item == [from |-> s, n |-> sends[s] + 1, op |-> op, bytes |-> bytes]
<1>1. sends[s] + 1 \in 1..MaxSends BY ChannelAssumption DEF BeginSend, TypeOK
<1>2. item \in Item BY <1>1 DEF Item
<1>3. /\ sends' = [sends EXCEPT ![s] = @ + 1]
      /\ call' = [call EXCEPT ![s] = item]
      /\ \/ returned' = returned \cup {item} /\ UNCHANGED pc
         \/ pc' = [pc EXCEPT ![s] = "reserve"] /\ UNCHANGED returned
      /\ pc[s] = "idle"
      /\ UNCHANGED <<queue, permits, cancelled, queued, dropped, used, receiverVars>>
  BY DEF BeginSend
<1> HIDE DEF item
<1>4. sends' \in [Senders -> 0..MaxSends] BY <1>1, <1>3 DEF TypeOK
<1>5. pc' \in [Senders -> Places] BY <1>3 DEF TypeOK, Places
<1>6. call' \in [Senders -> Item \cup {NoItem}] BY <1>2, <1>3 DEF TypeOK
<1>7. returned' \subseteq Item BY <1>2, <1>3 DEF TypeOK
<1>8. TypeOK' BY <1>3, <1>4, <1>5, <1>6, <1>7 DEF TypeOK, receiverVars
<1>9. CallOK' BY <1>2, <1>3 DEF TypeOK, CallOK
<1> QED BY <1>8, <1>9

\* Dropping the head entry: the queue, the counters and the budget stay typed, and
\* a woken requester is idle.
LEMMA DropHeadTypes ==
  ASSUME TypeOK, CallOK, DropHead,
         UNCHANGED <<call, sends, cancelled, returned, receiverVars>>
  PROVE  TypeOK' /\ CallOK'
<1> DEFINE item == Head(queue)
<1>1. item \in Item /\ queue' = Tail(queue) /\ Tail(queue) \in Seq(Item)
  BY DEF DropHead, TypeOK
<1>2. item.bytes \in Nat /\ item.from \in Senders BY <1>1, ItemFields
<1>3. used' \in 0..Limit
  <2>1. used' = Minus(used, item.bytes) BY DEF DropHead
  <2>2. used \in Nat /\ used <= Limit /\ Limit \in Nat BY ChannelAssumption DEF TypeOK
  <2>3. Minus(used, item.bytes) \in 0..used BY <1>2, <2>2, MinusNat, ZenonT(60)
  <2> QED BY <2>1, <2>2, <2>3
<1>4. queued' \in Nat
  <2>1. queued \in Nat /\ queued' = Minus(queued, 1) BY DEF DropHead, TypeOK
  <2> QED BY <2>1, MinusNat
<1>5. \/ pc' = pc
      \/ pc' = [pc EXCEPT ![item.from] = "idle"]
  BY DEF DropHead, Release
<1>6. permits' \in Nat /\ dropped' \in Nat BY DEF DropHead, TypeOK
<1> HIDE DEF item
<1>7. pc' \in [Senders -> Places] BY <1>2, <1>5, ZenonT(60) DEF TypeOK, Places
<1>8. TypeOK' BY <1>1, <1>3, <1>4, <1>6, <1>7 DEF TypeOK, receiverVars
<1>9. CallOK' BY <1>5 DEF TypeOK, CallOK
<1> QED BY <1>8, <1>9

\* Type correctness of the receiver's steps.
LEMMA ReceiverTypes ==
  ASSUME TypeOK, CallOK, Receiver
  PROVE  TypeOK' /\ CallOK'
<1>1. CASE Pop BY <1>1 DEF Pop, TypeOK, CallOK, Stages
<1>2. CASE Take
  <2>1. held.item \in Item /\ held' \in [stage : Stages, item : Item]
    BY <1>2 DEF Take, TypeOK, Stages
  <2>2. queued' \in Nat
    <3>1. queued \in Nat /\ queued' = Minus(queued, 1) BY <1>2 DEF Take, TypeOK
    <3> QED BY <3>1, MinusNat
  <2> QED BY <1>2, <2>1, <2>2 DEF Take, TypeOK, CallOK
<1>3. CASE Respond
  <2>1. held.item \in Item /\ held' \in [stage : Stages, item : Item]
    BY <1>3 DEF Respond, TypeOK, Stages
  <2>2. \/ pc' = pc
        \/ pc' = [pc EXCEPT ![held.item.from] = "idle"]
    BY <1>3 DEF Respond, Release
  <2>3. pc' \in [Senders -> Places] BY <2>1, <2>2, ZenonT(60) DEF TypeOK, Places
  <2>4. CallOK' BY <1>3, <2>2, ZenonT(60) DEF Respond, TypeOK, CallOK
  <2> QED BY <1>3, <2>1, <2>3, <2>4 DEF Respond, TypeOK
<1>4. CASE Finish
  <2>1. held.item \in Item BY <1>4 DEF Finish, TypeOK
  <2>2. used' = Minus(used, held.item.bytes) BY <1>4 DEF Finish
  <2>3. used \in Nat /\ used <= Limit /\ Limit \in Nat BY ChannelAssumption DEF TypeOK
  <2>4. held.item.bytes \in Nat BY <2>1, ItemFields
  <2>5. used' \in 0..used BY <2>2, <2>3, <2>4, MinusNat, ZenonT(60)
  <2>6. used' \in 0..Limit BY <2>3, <2>5
  <2> QED BY <1>4, <2>6 DEF Finish, TypeOK, CallOK
<1>5. CASE CloseFlag BY <1>5 DEF CloseFlag, TypeOK, CallOK
<1>6. CASE CloseQueue BY <1>6 DEF CloseQueue, TypeOK, CallOK
<1>7. CASE DropReceiver BY <1>7 DEF DropReceiver, TypeOK, CallOK
<1>8. CASE Drain BY <1>8, DropHeadTypes DEF Drain
<1>9. CASE Drained BY <1>9 DEF Drained, TypeOK, CallOK
<1>10. CASE FreeQueue BY <1>10, DropHeadTypes DEF FreeQueue
<1> QED BY <1>1, <1>2, <1>3, <1>4, <1>5, <1>6, <1>7, <1>8, <1>9, <1>10 DEF Receiver
-----------------------------------------------------------------------------
\* One sender moves from a stage to another.
Moves(s, to) == pc' = [pc EXCEPT ![s] = to]

\* Taking, giving back, counting and pushing move the counts by one.
LEMMA MoveCounts ==
  ASSUME TypeOK, NEW s \in Senders, NEW to, Moves(s, to)
  PROVE  /\ pc[s] \notin PermitHeld /\ to \in PermitHeld => Holders(pc') = Holders(pc) + 1
         /\ pc[s] \in PermitHeld /\ to \notin PermitHeld => Holders(pc') = Holders(pc) - 1
         /\ (pc[s] \in PermitHeld <=> to \in PermitHeld) => Holders(pc') = Holders(pc)
         /\ pc[s] # "accepted" /\ to = "accepted" => Counted(pc') = Counted(pc) + 1
         /\ pc[s] = "accepted" /\ to # "accepted" => Counted(pc') = Counted(pc) - 1
         /\ pc[s] # "accepted" /\ to # "accepted" => Counted(pc') = Counted(pc)
<1>1. pc'[s] = to /\ \A t \in Senders \ {s} : pc'[t] = pc[t] BY DEF Moves, TypeOK
<1>2. IsFiniteSet(Senders) BY ChannelAssumption
<1>3. ASSUME pc[s] \notin PermitHeld, to \in PermitHeld
      PROVE  Holders(pc') = Holders(pc) + 1
  BY <1>1, <1>2, <1>3, CountEnter DEF Holders
<1>4. ASSUME pc[s] \in PermitHeld, to \notin PermitHeld
      PROVE  Holders(pc') = Holders(pc) - 1
  BY <1>1, <1>2, <1>4, CountLeave DEF Holders
<1>5. ASSUME pc[s] \in PermitHeld <=> to \in PermitHeld
      PROVE  Holders(pc') = Holders(pc)
  <2>1. \A t \in Senders : (pc'[t] \in PermitHeld) <=> (pc[t] \in PermitHeld)
    BY <1>1, <1>5
  <2> QED BY <2>1, CountSame DEF Holders
<1>6. ASSUME pc[s] # "accepted", to = "accepted"
      PROVE  Counted(pc') = Counted(pc) + 1
  <2>1. pc[s] \notin JustCounted /\ pc'[s] \in JustCounted BY <1>1, <1>6 DEF JustCounted
  <2> QED BY <1>1, <1>2, <2>1, CountEnter DEF Counted
<1>7. ASSUME pc[s] = "accepted", to # "accepted"
      PROVE  Counted(pc') = Counted(pc) - 1
  <2>1. pc[s] \in JustCounted /\ pc'[s] \notin JustCounted BY <1>1, <1>7 DEF JustCounted
  <2> QED BY <1>1, <1>2, <2>1, CountLeave DEF Counted
<1>8. ASSUME pc[s] # "accepted", to # "accepted"
      PROVE  Counted(pc') = Counted(pc)
  <2>1. \A t \in Senders : (pc'[t] \in JustCounted) <=> (pc[t] \in JustCounted)
    BY <1>1, <1>8 DEF JustCounted
  <2> QED BY <2>1, CountSame DEF Counted
<1> QED BY <1>3, <1>4, <1>5, <1>6, <1>7, <1>8

\* The sender's steps keep slots and counter balanced.
LEMMA SenderBalance ==
  ASSUME TypeOK, Balance, NEW s \in Senders, SenderStep(s) \/ DropSender(s)
  PROVE  Balance'
<1>1. Numbers BY NumbersNat
<1>2. ASSUME UNCHANGED <<permits, queue, queued, held>>,
             Holders(pc') = Holders(pc), Counted(pc') = Counted(pc)
      PROVE  Balance'
  <2>1. Popped' = Popped /\ Waiting' = Waiting BY <1>2 DEF Popped, Waiting
  <2> QED BY <1>2, <2>1 DEF Balance
<1>3. ASSUME pc[s] \in PermitHeld, pc[s] # "accepted", Moves(s, "idle"),
             permits' = permits + 1, UNCHANGED <<queue, queued, held>>
      PROVE  Balance'
  <2>1. Holders(pc') = Holders(pc) - 1 /\ Counted(pc') = Counted(pc)
    BY <1>3, MoveCounts DEF PermitHeld
  <2>2. Popped' = Popped /\ Waiting' = Waiting BY <1>3 DEF Popped, Waiting
  <2>3. permits' = permits + 1 /\ queued' = queued BY <1>3
  <2> QED BY <1>1, <2>1, <2>2, <2>3 DEF Balance, Numbers
<1>4. CASE Reserve(s)
  <2>1. pc[s] = "reserve" /\ Moves(s, "reserved") BY <1>4 DEF Reserve, Moves
  <2>2. Holders(pc') = Holders(pc) + 1 /\ Counted(pc') = Counted(pc)
    BY <2>1, MoveCounts DEF PermitHeld
  <2>3. permits' = permits - 1 /\ queued' = queued BY <1>4 DEF Reserve
  <2>4. Popped' = Popped /\ Waiting' = Waiting
    BY <1>4 DEF Reserve, receiverVars, Popped, Waiting
  <2> QED BY <1>1, <2>2, <2>3, <2>4 DEF Balance, Numbers
<1>5. CASE ReserveFails(s) \/ StopAwaiting(s) \/ DropSender(s)
  <2>1. /\ pc[s] \in {"reserve", "awaiting", "idle"}
        /\ Moves(s, "idle") \/ Moves(s, "gone")
        /\ UNCHANGED <<permits, queue, queued, held>>
    BY <1>5 DEF ReserveFails, StopAwaiting, DropSender, GiveBack, Moves, receiverVars
  <2>2. Holders(pc') = Holders(pc) /\ Counted(pc') = Counted(pc)
    BY <2>1, MoveCounts DEF PermitHeld
  <2> QED BY <1>2, <2>1, <2>2
<1>6. CASE Recheck(s)
  <2>1. CASE receiverClosed
    BY <1>3, <1>6, <2>1 DEF Recheck, GiveBack, Moves, PermitHeld, receiverVars
  <2>2. CASE ~receiverClosed
    <3>1. pc[s] = "reserved" /\ Moves(s, "checked") BY <1>6, <2>2 DEF Recheck, Moves
    <3>2. Holders(pc') = Holders(pc) /\ Counted(pc') = Counted(pc)
      BY <3>1, MoveCounts DEF PermitHeld
    <3> QED BY <1>2, <1>6, <2>2, <3>2 DEF Recheck, receiverVars
  <2> QED BY <2>1, <2>2
<1>7. CASE Admit(s)
  <2>1. CASE ~CanAdmit(call[s].bytes)
    BY <1>3, <1>7, <2>1 DEF Admit, GiveBack, Moves, PermitHeld, receiverVars
  <2>2. CASE CanAdmit(call[s].bytes)
    <3>1. pc[s] = "checked" /\ Moves(s, "admitted") BY <1>7, <2>2 DEF Admit, Moves
    <3>2. Holders(pc') = Holders(pc) /\ Counted(pc') = Counted(pc)
      BY <3>1, MoveCounts DEF PermitHeld
    <3> QED BY <1>2, <1>7, <2>2, <3>2 DEF Admit, receiverVars
  <2> QED BY <2>1, <2>2
<1>8. CASE Accept(s)
  <2>1. pc[s] = "admitted" /\ Moves(s, "accepted") BY <1>8 DEF Accept, Moves
  <2>2. Holders(pc') = Holders(pc) /\ Counted(pc') = Counted(pc) + 1
    BY <2>1, MoveCounts DEF PermitHeld
  <2>3. permits' = permits /\ queued' = queued + 1 BY <1>8 DEF Accept
  <2>4. Popped' = Popped /\ Waiting' = Waiting
    BY <1>8 DEF Accept, receiverVars, Popped, Waiting
  <2> QED BY <1>1, <2>2, <2>3, <2>4 DEF Balance, Numbers
<1>9. CASE Push(s)
  <2>1. pc[s] = "accepted" /\ (Moves(s, "awaiting") \/ Moves(s, "idle"))
    BY <1>9, ZenonT(60) DEF Push, Moves
  <2>2. Holders(pc') = Holders(pc) - 1 /\ Counted(pc') = Counted(pc) - 1
    BY <2>1, MoveCounts DEF PermitHeld
  <2>3. permits' = permits /\ queued' = queued BY <1>9 DEF Push
  <2>4. Popped' = Popped BY <1>9 DEF Push, receiverVars, Popped
  <2>5. Waiting' = Waiting + 1 BY <1>9 DEF Push, TypeOK, Waiting
  <2> QED BY <1>1, <2>2, <2>3, <2>4, <2>5 DEF Balance, Numbers
<1> QED BY <1>4, <1>5, <1>6, <1>7, <1>8, <1>9 DEF SenderStep

\* Waking a requester moves no sender in or out of PermitHeld or JustCounted.
LEMMA ReleaseKeepsCounts ==
  ASSUME TypeOK, NEW item, pc' = Release(item)
  PROVE  Holders(pc') = Holders(pc) /\ Counted(pc') = Counted(pc)
<1>1. \A t \in Senders : pc'[t] = pc[t] \/ (pc[t] = "awaiting" /\ pc'[t] = "idle")
  BY DEF Release, TypeOK
<1>2. \A t \in Senders : (pc'[t] \in PermitHeld) <=> (pc[t] \in PermitHeld)
  BY <1>1 DEF PermitHeld
<1>3. \A t \in Senders : (pc'[t] \in JustCounted) <=> (pc[t] \in JustCounted)
  BY <1>1 DEF JustCounted
<1> QED BY <1>2, <1>3, HoldersSame

\* The counter covers the entry that is about to be counted out, so the saturating
\* decrement is an exact one.
LEMMA CountOut ==
  ASSUME TypeOK, Balance, Popped = 1 \/ Waiting >= 1
  PROVE  Minus(queued, 1) = queued - 1
<1>1. Numbers BY NumbersNat
<1>2. queued >= 1 BY <1>1 DEF Balance, Numbers
<1> QED BY <1>1, <1>2, MinusNat DEF Numbers

\* The receiver's steps keep slots and counter balanced.
LEMMA ReceiverBalance ==
  ASSUME TypeOK, Balance, Receiver
  PROVE  Balance'
<1>1. Numbers BY NumbersNat
<1>2. ASSUME UNCHANGED <<pc, permits, queue, queued, held>> PROVE Balance'
  <2>1. Popped' = Popped /\ Waiting' = Waiting BY <1>2 DEF Popped, Waiting
  <2> QED BY <1>2, <2>1 DEF Balance
<1>3. CASE Pop
  <2>1. queue # <<>> /\ queue \in Seq(Item) /\ queue' = Tail(queue) BY <1>3 DEF Pop, TypeOK
  <2>2. Waiting' = Waiting - 1 BY <2>1 DEF Waiting
  <2>3. Popped = 0 /\ Popped' = 1
    <3>1. held' = [stage |-> "popped", item |-> Head(queue)] /\ held = NoItem
      BY <1>3 DEF Pop
    <3>2. held'.stage = "popped" /\ NoItem.stage = "none" BY <3>1 DEF NoItem
    <3>3. held' # NoItem BY <3>2
    <3> QED BY <3>1, <3>2, <3>3 DEF Popped
  <2>4. permits' = permits + 1 /\ queued' = queued /\ pc' = pc BY <1>3 DEF Pop
  <2> QED BY <1>1, <2>2, <2>3, <2>4 DEF Balance, Numbers
<1>4. CASE Take
  <2>1. Popped = 1 /\ Popped' = 0
    <3>1. held \in [stage : Stages, item : Item] /\ held.stage = "popped" /\ held # NoItem
      BY <1>4 DEF Take, TypeOK
    <3>2. held'.stage = "taken" BY <1>4, <3>1 DEF Take
    <3> QED BY <3>1, <3>2 DEF Popped
  <2>2. queued' = queued - 1 BY <1>4, <2>1, CountOut DEF Take
  <2>3. permits' = permits /\ Waiting' = Waiting /\ pc' = pc BY <1>4 DEF Take, Waiting
  <2> QED BY <1>1, <2>1, <2>2, <2>3 DEF Balance, Numbers
<1>5. CASE Respond
  <2>1. Holders(pc') = Holders(pc) /\ Counted(pc') = Counted(pc)
    BY <1>5, ReleaseKeepsCounts DEF Respond
  <2>2. Popped = 0 /\ Popped' = 0
    <3>1. held \in [stage : Stages, item : Item] /\ held.stage = "taken" /\ held # NoItem
      BY <1>5 DEF Respond, TypeOK
    <3>2. held'.stage = "answered" BY <1>5, <3>1 DEF Respond
    <3> QED BY <3>1, <3>2 DEF Popped
  <2>3. permits' = permits /\ Waiting' = Waiting /\ queued' = queued
    BY <1>5 DEF Respond, Waiting
  <2> QED BY <2>1, <2>2, <2>3 DEF Balance
<1>6. CASE Finish
  <2>1. Popped = 0 /\ Popped' = 0 BY <1>6 DEF Finish, Popped
  <2>2. permits' = permits /\ Waiting' = Waiting /\ queued' = queued /\ pc' = pc
    BY <1>6 DEF Finish, Waiting
  <2> QED BY <2>1, <2>2 DEF Balance
<1>7. CASE CloseFlag \/ CloseQueue \/ DropReceiver \/ Drained
  BY <1>2, <1>7 DEF CloseFlag, CloseQueue, DropReceiver, Drained
<1>8. CASE Drain \/ FreeQueue
  <2>1. DropHead /\ UNCHANGED held BY <1>8 DEF Drain, FreeQueue, receiverVars
  <2>2. queue # <<>> /\ queue \in Seq(Item) /\ queue' = Tail(queue)
    BY <2>1 DEF DropHead, TypeOK
  <2>3. Waiting' = Waiting - 1 /\ Waiting >= 1 BY <2>2 DEF Waiting
  <2>4. Holders(pc') = Holders(pc) /\ Counted(pc') = Counted(pc)
    BY <2>1, ReleaseKeepsCounts DEF DropHead
  <2>5. queued' = queued - 1 BY <2>1, <2>3, CountOut DEF DropHead
  <2>6. permits' = permits + 1 /\ Popped' = Popped BY <2>1 DEF DropHead, Popped
  <2> QED BY <1>1, <2>3, <2>4, <2>5, <2>6 DEF Balance, Numbers
<1> QED BY <1>3, <1>4, <1>5, <1>6, <1>7, <1>8 DEF Receiver
-----------------------------------------------------------------------------
\* build_mpsc starts balanced.
LEMMA InitInv == Init => IInv
<1> SUFFICES ASSUME Init PROVE IInv OBVIOUS
<1>1. Holders(pc) = 0 /\ Counted(pc) = 0
  <2>1. {s \in Senders : pc[s] \in PermitHeld} = {} BY DEF Init, PermitHeld
  <2>2. {s \in Senders : pc[s] \in JustCounted} = {} BY DEF Init, JustCounted
  <2> QED BY <2>1, <2>2, FS_EmptySet DEF Holders, Counted
<1>2. Popped = 0 BY DEF Init, Popped
<1>3. Waiting = 0 BY DEF Init, Waiting
<1>4. Balance BY ChannelAssumption, <1>1, <1>2, <1>3 DEF Init, Balance
<1>5. pc \in [Senders -> Places] BY DEF Init, Places
<1>6. TypeOK
  <2>1. call \in [Senders -> Item \cup {NoItem}] /\ sends \in [Senders -> 0..MaxSends]
    BY ChannelAssumption DEF Init
  <2>2. queue \in Seq(Item) /\ delivered \in Seq(Item) /\ returned \subseteq Item BY DEF Init
  <2>3. used \in 0..Limit /\ permits \in Nat BY ChannelAssumption DEF Init
  <2> QED BY <1>5, <2>1, <2>2, <2>3, ZenonT(60) DEF Init, TypeOK
<1>7. CallOK BY DEF Init, CallOK
<1> QED BY <1>4, <1>6, <1>7 DEF IInv

\* Every step of a sender, of the receiver and of the canceller keeps the invariant.
LEMMA StepInv == IInv /\ [Next]_vars => IInv'
<1> SUFFICES ASSUME IInv, [Next]_vars PROVE TypeOK' /\ CallOK' /\ Balance'
  BY DEF IInv
<1>1. TypeOK /\ CallOK /\ Balance BY DEF IInv
<1>2. ASSUME NEW s \in Senders, SenderStep(s) \/ DropSender(s)
      PROVE  TypeOK' /\ CallOK' /\ Balance'
  BY <1>1, <1>2, SenderTypes, SenderBalance
<1>3. ASSUME UNCHANGED <<permits, queue, queued, held>>,
             Holders(pc') = Holders(pc), Counted(pc') = Counted(pc)
      PROVE  Balance'
  <2>1. Popped' = Popped /\ Waiting' = Waiting BY <1>3 DEF Popped, Waiting
  <2> QED BY <1>1, <1>3, <2>1 DEF Balance
<1>4. ASSUME NEW s \in Senders, NEW op \in Ops[s], NEW bytes \in Estimates,
             BeginSend(s, op, bytes)
      PROVE  TypeOK' /\ CallOK' /\ Balance'
  <2>0. op \in EntryPoints BY ChannelAssumption
  <2>1. TypeOK' /\ CallOK' BY <1>1, <1>4, <2>0, BeginTypes, ZenonT(60)
  <2>2. pc' = pc \/ (pc[s] = "idle" /\ Moves(s, "reserve")) BY <1>4 DEF BeginSend, Moves
  <2>3. Holders(pc') = Holders(pc) /\ Counted(pc') = Counted(pc)
    BY <1>1, <2>2, MoveCounts DEF PermitHeld
  <2>4. UNCHANGED <<permits, queue, queued, held>> BY <1>4 DEF BeginSend, receiverVars
  <2> QED BY <1>3, <2>1, <2>3, <2>4
<1>5. CASE Receiver BY <1>1, <1>5, ReceiverTypes, ReceiverBalance
<1>6. CASE Cancel
  <2>1. TypeOK' /\ CallOK' BY <1>1, <1>6 DEF Cancel, TypeOK, CallOK, receiverVars
  <2> QED BY <1>3, <1>6, <2>1, ZenonT(60) DEF Cancel, receiverVars
<1>7. CASE UNCHANGED vars
  <2>1. TypeOK' /\ CallOK' BY <1>1, <1>7 DEF vars, TypeOK, CallOK
  <2> QED BY <1>3, <1>7, <2>1, ZenonT(60) DEF vars
<1> QED BY <1>2, <1>4, <1>5, <1>6, <1>7 DEF Next, Terminated

\* The inductive invariant of the channel holds in every behaviour.
THEOREM ChannelInvariant == Spec => []IInv
BY InitInv, StepInv, PTL DEF Spec

\* However senders, receiver close and receiver drop interleave, every slot of the
\* queue is free, promised or filled: no error path leaks a permit.  The snapshot's
\* queued counter never drifts, so its saturating decrement never hides a mismatch.
THEOREM SlotsAccounted == Spec => []SlotAccounting
<1>1. IInv => SlotAccounting
  BY DEF IInv, Balance, Holders, Counted, JustCounted, Waiting, SlotAccounting, Count
<1> QED BY <1>1, ChannelInvariant, PTL

\* The variables keep their types; in particular the budget never exceeds its limit.
THEOREM TypeCorrect == Spec => []TypeOK
<1>1. IInv => TypeOK BY DEF IInv
<1> QED BY <1>1, ChannelInvariant, PTL

-----------------------------------------------------------------------------
(* Which item is where.                                                    *)

\* A sender in these stages has not yet parted with its item.
InFlight == PermitHeld \cup {"reserve"}

Held == IF held = NoItem THEN {} ELSE {held.item}

\* The items that have left their sender.
Seen == Range(queue) \cup Range(delivered) \cup Held \cup returned

Ordered(q) == \A i, j \in 1..Len(q) : i < j /\ q[i].from = q[j].from => q[i].n < q[j].n

Before(A, B) == \A x \in A, y \in B : x.from = y.from => x.n < y.n

\* A sender carries the last call it made.
CallsCurrent == \A s \in Senders : call[s] \in Item => call[s].from = s /\ call[s].n = sends[s]

\* Items are of calls that were made, and none is the one still in its sender's hands.
SeenOnce ==
  \A x \in Seen : /\ x.n <= sends[x.from]
                  /\ pc[x.from] \in InFlight => x.n < sends[x.from]

InOrder ==
  /\ Ordered(queue) /\ Ordered(delivered)
  /\ Before(Range(delivered), Range(queue))
  /\ Before(Held, Range(queue))
  /\ held # NoItem /\ held.stage = "popped" => Before(Range(delivered), Held)
  /\ held # NoItem /\ held.stage # "popped" => held.item \in Range(delivered)

GivenBackOnly == returned \cap (Range(queue) \cup Range(delivered) \cup Held) = {}

\* The entry that a requester waits for is queued or being handled.
WaitsForAnswer ==
  \A s \in Senders : pc[s] = "awaiting" =>
    /\ call[s].op = "request"
    /\ \/ call[s] \in Range(queue)
       \/ held # NoItem /\ held.stage # "answered" /\ held.item = call[s]

Identities == CallsCurrent /\ SeenOnce /\ InOrder /\ GivenBackOnly /\ WaitsForAnswer

\* Appending an item adds it to the items of a sequence, and keeps the order if it
\* comes after them.
LEMMA AppendItem ==
  ASSUME NEW q \in Seq(Item), NEW x \in Item
  PROVE  /\ Range(Append(q, x)) = Range(q) \cup {x}
         /\ Ordered(q) /\ Before(Range(q), {x}) => Ordered(Append(q, x))
<1>1. /\ Append(q, x) \in Seq(Item) /\ Len(Append(q, x)) = Len(q) + 1 /\ Len(q) \in Nat
      /\ \A i \in 1..Len(q) : Append(q, x)[i] = q[i]
      /\ Append(q, x)[Len(q) + 1] = x
  OBVIOUS
<1>2. DOMAIN q = 1..Len(q) /\ DOMAIN Append(q, x) = 1..(Len(q) + 1) OBVIOUS
<1>3. Range(Append(q, x)) = Range(q) \cup {x} BY <1>1, <1>2 DEF Range
<1>4. ASSUME Ordered(q), Before(Range(q), {x}) PROVE Ordered(Append(q, x))
  <2> SUFFICES ASSUME NEW i \in 1..(Len(q) + 1), NEW j \in 1..(Len(q) + 1), i < j,
                      Append(q, x)[i].from = Append(q, x)[j].from
               PROVE  Append(q, x)[i].n < Append(q, x)[j].n
    BY <1>1, ZenonT(60) DEF Ordered
  <2>1. i \in 1..Len(q) /\ Append(q, x)[i] = q[i] /\ q[i] \in Range(q)
    BY <1>1, <1>2 DEF Range
  <2>2. CASE j \in 1..Len(q) BY <1>1, <1>4, <2>1, <2>2 DEF Ordered
  <2>3. CASE j = Len(q) + 1 BY <1>1, <1>4, <2>1, <2>3 DEF Before
  <2> QED BY <1>1, <2>2, <2>3
<1> QED BY <1>3, <1>4

\* Taking the head off a sequence.
LEMMA TakeHead ==
  ASSUME NEW q \in Seq(Item), q # <<>>
  PROVE  /\ Head(q) \in Item /\ Tail(q) \in Seq(Item) /\ Len(Tail(q)) = Len(q) - 1
         /\ Range(q) = {Head(q)} \cup Range(Tail(q))
         /\ Ordered(q) => Ordered(Tail(q)) /\ Before({Head(q)}, Range(Tail(q)))
<1>1. /\ Head(q) \in Item /\ Tail(q) \in Seq(Item) /\ Len(Tail(q)) = Len(q) - 1
      /\ Len(q) \in Nat /\ Len(q) >= 1 /\ Head(q) = q[1]
      /\ \A i \in 1..(Len(q) - 1) : Tail(q)[i] = q[i + 1]
  OBVIOUS
<1>2. DOMAIN q = 1..Len(q) /\ DOMAIN Tail(q) = 1..(Len(q) - 1) OBVIOUS
<1>3. Range(q) = {Head(q)} \cup Range(Tail(q))
  <2>1. ASSUME NEW i \in 1..Len(q) PROVE q[i] \in {Head(q)} \cup Range(Tail(q))
    <3>1. CASE i = 1 BY <1>1, <3>1
    <3>2. CASE i # 1
      <4>1. i - 1 \in 1..(Len(q) - 1) /\ (i - 1) + 1 = i BY <1>1, <3>2
      <4>2. Tail(q)[i - 1] = q[i] BY <1>1, <4>1
      <4> QED BY <1>2, <4>1, <4>2, ZenonT(60) DEF Range
    <3> QED BY <3>1, <3>2
  <2>2. ASSUME NEW i \in 1..(Len(q) - 1) PROVE Tail(q)[i] \in Range(q)
    <3>1. i + 1 \in 1..Len(q) BY <1>1
    <3> QED BY <1>1, <1>2, <3>1 DEF Range
  <2>3. Head(q) \in Range(q) BY <1>1, <1>2 DEF Range
  <2> QED BY <1>2, <2>1, <2>2, <2>3 DEF Range
<1>4. ASSUME Ordered(q) PROVE Ordered(Tail(q)) /\ Before({Head(q)}, Range(Tail(q)))
  <2>1. ASSUME NEW i \in 1..(Len(q) - 1), NEW j \in 1..(Len(q) - 1), i < j,
               Tail(q)[i].from = Tail(q)[j].from
        PROVE  Tail(q)[i].n < Tail(q)[j].n
    <3>1. i + 1 \in 1..Len(q) /\ j + 1 \in 1..Len(q) /\ i + 1 < j + 1 BY <1>1, <2>1
    <3> QED BY <1>1, <1>4, <2>1, <3>1 DEF Ordered
  <2>2. ASSUME NEW i \in 1..(Len(q) - 1), Head(q).from = Tail(q)[i].from
        PROVE  Head(q).n < Tail(q)[i].n
    <3>1. 1 \in 1..Len(q) /\ i + 1 \in 1..Len(q) /\ 1 < i + 1 BY <1>1
    <3> QED BY <1>1, <1>4, <2>2, <3>1 DEF Ordered
  <2>3. Ordered(Tail(q)) BY <1>1, <2>1, ZenonT(60) DEF Ordered
  <2>4. Before({Head(q)}, Range(Tail(q))) BY <1>2, <2>2 DEF Before, Range
  <2> QED BY <2>3, <2>4
<1> QED BY <1>1, <1>3, <1>4

\* The numbers of items and calls.
LEMMA ItemNumbers ==
  ASSUME TypeOK
  PROVE  /\ \A x \in Item : x.n \in Nat /\ x.from \in Senders
         /\ \A s \in Senders : sends[s] \in Nat
         /\ Seen \subseteq Item /\ Held \subseteq Item
         /\ Range(queue) \subseteq Item /\ Range(delivered) \subseteq Item
<1>1. \A x \in Item : x.n \in Nat /\ x.from \in Senders BY DEF Item
<1>2. \A s \in Senders : sends[s] \in Nat BY ChannelAssumption DEF TypeOK
<1>3. \A q \in Seq(Item) : Range(q) \subseteq Item
  <2>1. \A q \in Seq(Item) : DOMAIN q = 1..Len(q) OBVIOUS
  <2> QED BY <2>1 DEF Range
<1>4. Held \subseteq Item BY DEF TypeOK, Held
<1> QED BY <1>1, <1>2, <1>3, <1>4 DEF TypeOK, Seen

\* A step that moves no item keeps all of it, as long as no sender starts to carry an
\* item or to wait for an answer.
LEMMA IdentitiesQuiet ==
  ASSUME Identities,
         UNCHANGED <<call, sends, queue, held, delivered, returned>>,
         \A s \in Senders : pc'[s] \in InFlight => pc[s] \in InFlight,
         \A s \in Senders : pc'[s] = "awaiting" => pc[s] = "awaiting",
         TypeOK
  PROVE  Identities'
<1>1. Seen' = Seen /\ Held' = Held BY DEF Seen, Held
<1>2. CallsCurrent' BY DEF Identities, CallsCurrent
<1>3. SeenOnce'
  <2>1. \A x \in Seen : x.from \in Senders BY ItemNumbers
  <2> QED BY <1>1, <2>1 DEF Identities, SeenOnce
<1>4. InOrder' BY <1>1 DEF Identities, InOrder
<1>5. GivenBackOnly' BY <1>1 DEF Identities, GivenBackOnly
<1>6. WaitsForAnswer' BY DEF Identities, WaitsForAnswer
<1> QED BY <1>2, <1>3, <1>4, <1>5, <1>6 DEF Identities

\* The item in a sender's hands is nowhere else.
LEMMA CarriedUnseen ==
  ASSUME TypeOK, CallOK, Identities, NEW s \in Senders, pc[s] \in InFlight
  PROVE  /\ call[s] \in Item /\ call[s] \notin Seen
         /\ call[s].from = s /\ call[s].n = sends[s]
         /\ Before(Seen, {call[s]})
<1>1. call[s] \in Item BY DEF CallOK, InFlight, PermitHeld
<1>2. call[s].from = s /\ call[s].n = sends[s] BY <1>1 DEF Identities, CallsCurrent
<1>3. \A x \in Seen : x.from = s => x.n < sends[s] BY DEF Identities, SeenOnce
<1>4. sends[s] \in Nat BY ItemNumbers
<1> QED BY <1>1, <1>2, <1>3, <1>4 DEF Before

\* An error returns to the caller the item it came with.
LEMMA IdentitiesGiveBack ==
  ASSUME TypeOK, CallOK, Identities, NEW s \in Senders, pc[s] \in InFlight, GiveBack(s),
         UNCHANGED <<call, sends, queue, held, delivered>>
  PROVE  Identities'
<1>1. /\ call[s] \in Item /\ call[s] \notin Seen
      /\ call[s].from = s /\ call[s].n = sends[s] BY CarriedUnseen, ZenonT(60)
<1>2. /\ pc'[s] = "idle" /\ \A t \in Senders : t # s => pc'[t] = pc[t]
      /\ returned' = returned \cup {call[s]}
  BY DEF GiveBack, TypeOK
<1>3. Held' = Held BY DEF Held
<1>4. Seen' = Seen \cup {call[s]} BY <1>2, <1>3 DEF Seen
<1>5. CallsCurrent' BY DEF Identities, CallsCurrent
<1>6. SeenOnce'
  <2>1. ASSUME NEW x \in Seen
        PROVE  x.n <= sends[x.from] /\ (pc'[x.from] \in InFlight => x.n < sends[x.from])
    <3>1. x.from \in Senders BY ItemNumbers
    <3>2. pc'[x.from] \in InFlight => pc[x.from] \in InFlight
      BY <1>2, <3>1, ZenonT(60) DEF InFlight, PermitHeld
    <3> QED BY <3>2 DEF Identities, SeenOnce
  <2>2. /\ call[s].n <= sends[call[s].from]
        /\ pc'[call[s].from] \notin InFlight
    <3>1. sends[s] \in Nat BY ItemNumbers, ZenonT(60)
    <3>2. sends[s] <= sends[s] BY ONLY <3>1, SMTT(30), Z3T(30)
    <3>3. "idle" \notin InFlight BY ONLY SMTT(30), Z3T(30) DEF InFlight, PermitHeld
    <3> QED BY <1>1, <1>2, <3>2, <3>3, ZenonT(60)
  <2> QED BY <1>4, <2>1, <2>2 DEF SeenOnce
<1>7. InOrder' BY <1>3 DEF Identities, InOrder
<1>8. GivenBackOnly' BY <1>1, <1>2, <1>3, ZenonT(60) DEF Identities, GivenBackOnly, Seen
<1>9. WaitsForAnswer'
  <2>1. \A t \in Senders : pc'[t] = "awaiting" => pc[t] = "awaiting" BY <1>2
  <2> QED BY <2>1, ZenonT(60) DEF Identities, WaitsForAnswer
<1> QED BY <1>5, <1>6, <1>7, <1>8, <1>9 DEF Identities

\* No item is before itself.
LEMMA BeforeApart ==
  ASSUME NEW x, x.n \in Nat, NEW B, Before({x}, B)
  PROVE  x \notin B
<1>1. ~(x.n < x.n) OBVIOUS
<1> QED BY <1>1, ZenonT(60) DEF Before

\* A new call has a new number: its item is none of those that are about.
LEMMA IdentitiesBegin ==
  ASSUME TypeOK, CallOK, Identities,
         NEW s \in Senders, NEW op \in EntryPoints, NEW bytes \in Estimates, BeginSend(s, op, bytes)
  PROVE  Identities'
<1> DEFINE item == [from |-> s, n |-> sends[s] + 1, op |-> op, bytes |-> bytes]
<1>1. item.from = s /\ item.n = sends[s] + 1 OBVIOUS
<1>2. /\ sends' = [sends EXCEPT ![s] = @ + 1]
      /\ call' = [call EXCEPT ![s] = item]
      /\ \/ returned' = returned \cup {item} /\ UNCHANGED pc
         \/ pc' = [pc EXCEPT ![s] = "reserve"] /\ UNCHANGED returned
      /\ pc[s] = "idle"
      /\ UNCHANGED <<queue, held, delivered>>
  BY ZenonT(60) DEF BeginSend, receiverVars
<1> HIDE DEF item
<1>3. /\ sends'[s] = sends[s] + 1 /\ call'[s] = item
      /\ \A t \in Senders : t # s => sends'[t] = sends[t] /\ call'[t] = call[t] /\ pc'[t] = pc[t]
      /\ pc'[s] \in {"idle", "reserve"}
      /\ returned' = returned \/ (returned' = returned \cup {item} /\ pc'[s] = "idle")
  BY <1>2 DEF TypeOK
<1>4. Held' = Held BY <1>2 DEF Held
<1>5. Seen' = Seen \/ (Seen' = Seen \cup {item} /\ pc'[s] = "idle")
  BY <1>2, <1>3, <1>4, ZenonT(60) DEF Seen
<1>6. ASSUME NEW x \in Seen
      PROVE  /\ x # item /\ x.n <= sends'[x.from]
             /\ pc'[x.from] \in InFlight => x.n < sends'[x.from]
  <2>1. x \in Item /\ x.n \in Nat /\ x.from \in Senders /\ sends[x.from] \in Nat
    BY ItemNumbers
  <2>2. x.n <= sends[x.from] /\ (pc[x.from] \in InFlight => x.n < sends[x.from])
    BY ZenonT(60) DEF Identities, SeenOnce
  <2>3. CASE x.from = s
    <3>1. x.n \in Nat /\ sends[s] \in Nat /\ x.n <= sends[s] /\ sends'[s] = sends[s] + 1
      BY <1>3, <2>1, <2>2, <2>3, ZenonT(60)
    <3>2. x.n # sends[s] + 1 /\ x.n <= sends'[s] /\ x.n < sends'[s] BY ONLY <3>1, SMTT(30), Z3T(30)
    <3> QED BY <1>1, <2>3, <3>2, ZenonT(60)
  <2>4. CASE x.from # s BY <1>1, <1>3, <2>1, <2>2, <2>4, ZenonT(60)
  <2> QED BY <2>3, <2>4, ZenonT(60)
<1>7. CallsCurrent' BY <1>1, <1>3 DEF Identities, CallsCurrent
<1>8. SeenOnce'
  <2>1. item.n <= sends'[item.from] BY <1>1, <1>3, ItemNumbers
  <2>2. pc'[s] = "idle" => pc'[item.from] \notin InFlight BY <1>1, ZenonT(60) DEF InFlight, PermitHeld
  <2> QED BY <1>5, <1>6, <2>1, <2>2, ZenonT(60) DEF SeenOnce
<1>9. InOrder' BY <1>2, <1>4, ZenonT(60) DEF Identities, InOrder
<1>10. GivenBackOnly' BY <1>2, <1>3, <1>4, <1>6, ZenonT(60) DEF Identities, GivenBackOnly, Seen
<1>11. WaitsForAnswer'
  <2>1. \A t \in Senders : pc'[t] = "awaiting" => t # s /\ pc[t] = "awaiting" BY <1>3
  <2> QED BY <1>2, <1>3, <2>1 DEF Identities, WaitsForAnswer
<1> QED BY <1>7, <1>8, <1>9, <1>10, <1>11 DEF Identities

\* The pushed entry comes after everything of its sender.
LEMMA IdentitiesPush ==
  ASSUME TypeOK, CallOK, Identities, NEW s \in Senders, Push(s)
  PROVE  Identities'
<1>1. pc[s] \in InFlight BY DEF Push, InFlight, PermitHeld
<1>2. /\ call[s] \in Item /\ call[s] \notin Seen /\ Before(Seen, {call[s]})
      /\ call[s].from = s /\ call[s].n = sends[s] BY <1>1, CarriedUnseen
<1>3. /\ queue' = Append(queue, call[s])
      /\ \A t \in Senders : t # s => pc'[t] = pc[t]
      /\ pc'[s] = IF call[s].op = "request" THEN "awaiting" ELSE "idle"
      /\ UNCHANGED <<call, sends, held, delivered, returned>>
  BY ZenonT(60) DEF Push, TypeOK, receiverVars
<1>4. Range(queue') = Range(queue) \cup {call[s]} /\ Ordered(queue')
  <2>1. queue \in Seq(Item) /\ Ordered(queue) /\ Before(Range(queue), {call[s]})
    BY <1>2 DEF TypeOK, Identities, InOrder, Before, Seen
  <2> QED BY <1>2, <1>3, <2>1, AppendItem, ZenonT(60)
<1>5. Held' = Held BY <1>3, ZenonT(60) DEF Held
<1>6. Seen' = Seen \cup {call[s]} BY <1>3, <1>4, <1>5 DEF Seen
<1>7. CallsCurrent' BY <1>3 DEF Identities, CallsCurrent
<1>8. SeenOnce'
  <2>1. ASSUME NEW x \in Seen
        PROVE  x.n <= sends[x.from] /\ (pc'[x.from] \in InFlight => x.n < sends[x.from])
    <3>1. x.from \in Senders BY ItemNumbers
    <3>2. pc'[x.from] \in InFlight => pc[x.from] \in InFlight
      BY <1>1, <1>3, <3>1, ZenonT(60) DEF InFlight, PermitHeld
    <3> QED BY <3>2 DEF Identities, SeenOnce
  <2>2. /\ call[s].n <= sends[call[s].from]
        /\ pc'[call[s].from] \notin InFlight
    BY <1>2, <1>3, ItemNumbers DEF InFlight, PermitHeld
  <2> QED BY <1>3, <1>6, <2>1, <2>2 DEF SeenOnce
<1>9. InOrder' BY <1>2, <1>3, <1>4, <1>5, ZenonT(60) DEF Identities, InOrder, Before, Seen
<1>10. GivenBackOnly' BY <1>2, <1>3, <1>4, <1>5, ZenonT(60) DEF Identities, GivenBackOnly, Seen
<1>11. WaitsForAnswer' BY <1>3, <1>4, ZenonT(60) DEF Identities, WaitsForAnswer
<1> QED BY <1>7, <1>8, <1>9, <1>10, <1>11 DEF Identities

\* The item in the receiver's hands.
LEMMA HeldFields ==
  ASSUME TypeOK, held # NoItem
  PROVE  held.item \in Item /\ held.stage \in Stages /\ Held = {held.item}
BY DEF TypeOK, Held

LEMMA HeldIs ==
  ASSUME NEW st \in Stages, NEW i, held' = [stage |-> st, item |-> i]
  PROVE  held' # NoItem /\ held'.stage = st /\ held'.item = i /\ Held' = {i}
<1>1. held'.stage = st /\ held'.item = i OBVIOUS
<1>2. held' # NoItem
  <2>1. NoItem.stage = "none" BY DEF NoItem
  <2> QED BY <1>1, <2>1 DEF Stages
<1> QED BY <1>1, <1>2 DEF Held

\* The head of the queue moves into the receiver's hands.
LEMMA IdentitiesPop ==
  ASSUME TypeOK, Identities, Pop
  PROVE  Identities'
<1>1. /\ held = NoItem /\ queue # <<>> /\ queue \in Seq(Item)
      /\ held' = [stage |-> "popped", item |-> Head(queue)] /\ queue' = Tail(queue)
      /\ UNCHANGED <<pc, call, sends, delivered, returned>>
  BY DEF Pop, TypeOK
<1> DEFINE h == Head(queue)
<1>2. /\ h \in Item /\ Range(queue) = {h} \cup Range(queue')
      /\ Ordered(queue') /\ Before({h}, Range(queue'))
  BY <1>1, TakeHead, ZenonT(60) DEF Identities, InOrder
<1>3. held' # NoItem /\ held'.stage = "popped" /\ held'.item = h /\ Held' = {h}
  BY <1>1, HeldIs DEF Stages
<1> HIDE DEF h
<1>4. Held = {} BY <1>1 DEF Held
<1>5. Seen' = Seen BY <1>1, <1>2, <1>3, <1>4, ZenonT(60) DEF Seen
<1>6. CallsCurrent' BY <1>1 DEF Identities, CallsCurrent
<1>7. SeenOnce' BY <1>1, <1>5, ZenonT(60) DEF Identities, SeenOnce
<1>8. InOrder' BY <1>1, <1>2, <1>3, ZenonT(60) DEF Identities, InOrder, Before
<1>9. GivenBackOnly' BY <1>1, <1>2, <1>3, ZenonT(60) DEF Identities, GivenBackOnly
<1>10. WaitsForAnswer' BY <1>1, <1>2, <1>3 DEF Identities, WaitsForAnswer
<1> QED BY <1>6, <1>7, <1>8, <1>9, <1>10, ZenonT(60) DEF Identities

\* The popped item is handed over after everything handed over before it.
LEMMA IdentitiesTake ==
  ASSUME TypeOK, Identities, Take
  PROVE  Identities'
<1> DEFINE h == held.item
<1>1. /\ held # NoItem /\ held.stage = "popped" /\ h \in Item /\ Held = {h}
      /\ held' = [held EXCEPT !.stage = "taken"]
      /\ delivered \in Seq(Item) /\ delivered' = Append(delivered, h)
      /\ UNCHANGED <<pc, call, sends, queue, returned>>
  BY HeldFields DEF Take, TypeOK
<1>2. held' = [stage |-> "taken", item |-> h] BY <1>1 DEF TypeOK
<1>3. held' # NoItem /\ held'.stage = "taken" /\ held'.item = h /\ Held' = {h}
  BY <1>2, HeldIs DEF Stages
<1> HIDE DEF h
<1>4. Range(delivered') = Range(delivered) \cup {h} /\ Ordered(delivered')
  BY <1>1, AppendItem DEF Identities, InOrder
<1>5. Seen' = Seen BY <1>1, <1>3, <1>4 DEF Seen
<1>6. CallsCurrent' BY <1>1 DEF Identities, CallsCurrent
<1>7. SeenOnce' BY <1>1, <1>5 DEF Identities, SeenOnce
<1>8. InOrder' BY <1>1, <1>3, <1>4 DEF Identities, InOrder, Before
<1>9. GivenBackOnly' BY <1>1, <1>3, <1>4 DEF Identities, GivenBackOnly
<1>10. WaitsForAnswer'
  <2>1. held.item = held'.item BY <1>3 DEF h
  <2> QED BY <1>1, <1>3, <2>1 DEF Identities, WaitsForAnswer
<1> QED BY <1>6, <1>7, <1>8, <1>9, <1>10 DEF Identities

\* Whoever still waits for an item whose oneshot has ended waits for another one.
LEMMA ReleaseWakes ==
  ASSUME TypeOK, Identities, CallOK, NEW item \in Item, pc' = Release(item), UNCHANGED call
  PROVE  \A s \in Senders :
           /\ pc'[s] \in InFlight => pc[s] \in InFlight
           /\ pc'[s] = "awaiting" => pc[s] = "awaiting" /\ call[s] # item
<1> SUFFICES ASSUME NEW s \in Senders
             PROVE  /\ pc'[s] \in InFlight => pc[s] \in InFlight
                    /\ pc'[s] = "awaiting" => pc[s] = "awaiting" /\ call[s] # item
  OBVIOUS
<1>1. pc'[s] = pc[s] \/ (pc[s] = "awaiting" /\ pc'[s] = "idle") BY DEF Release, TypeOK
<1>2. ASSUME pc[s] = "awaiting", call[s] = item PROVE pc'[s] = "idle"
  <2>1. item.op = "request" /\ item.from = s
    BY <1>2 DEF Identities, WaitsForAnswer, CallsCurrent
  <2> QED BY <1>2, <2>1, ZenonT(60) DEF Release, TypeOK
<1> QED BY <1>1, <1>2 DEF InFlight, PermitHeld

\* The answer wakes the requester, so nobody waits for an answered item.
LEMMA IdentitiesRespond ==
  ASSUME TypeOK, CallOK, Identities, Respond
  PROVE  Identities'
<1> DEFINE h == held.item
<1>1. /\ held # NoItem /\ held.stage = "taken" /\ h \in Item /\ Held = {h}
      /\ held' = [held EXCEPT !.stage = "answered"] /\ pc' = Release(h)
      /\ UNCHANGED <<call, sends, queue, delivered, returned>>
  BY HeldFields DEF Respond, TypeOK
<1>2. held' = [stage |-> "answered", item |-> h] BY <1>1 DEF TypeOK
<1>3. held' # NoItem /\ held'.stage = "answered" /\ held'.item = h /\ Held' = {h}
  BY <1>2, HeldIs DEF Stages
<1>4. \A s \in Senders :
        /\ pc'[s] \in InFlight => pc[s] \in InFlight
        /\ pc'[s] = "awaiting" => pc[s] = "awaiting" /\ call[s] # h
  BY <1>1, ReleaseWakes
<1>5. Seen' = Seen BY <1>1, <1>3 DEF Seen
<1>6. CallsCurrent' BY <1>1 DEF Identities, CallsCurrent
<1>7. SeenOnce'
  <2>1. \A x \in Seen : x.from \in Senders BY ItemNumbers
  <2> QED BY <1>1, <1>4, <1>5, <2>1 DEF Identities, SeenOnce
<1>8. InOrder' BY <1>1, <1>3 DEF Identities, InOrder
<1>9. GivenBackOnly' BY <1>1, <1>3 DEF Identities, GivenBackOnly
<1>10. WaitsForAnswer' BY <1>1, <1>4, ZenonT(60) DEF Identities, WaitsForAnswer
<1> QED BY <1>6, <1>7, <1>8, <1>9, <1>10 DEF Identities

\* A request is not let go of before it is answered.
LEMMA IdentitiesFinish ==
  ASSUME TypeOK, Identities, Finish
  PROVE  Identities'
<1>1. /\ held # NoItem /\ Held = {held.item} /\ held' = NoItem
      /\ held.stage = IF held.item.op = "request" THEN "answered" ELSE "taken"
      /\ UNCHANGED <<pc, call, sends, queue, delivered, returned>>
  BY HeldFields DEF Finish
<1>2. Held' = {} BY <1>1 DEF Held
<1>3. Seen' \subseteq Seen BY <1>1, <1>2 DEF Seen
<1>4. CallsCurrent' BY <1>1 DEF Identities, CallsCurrent
<1>5. SeenOnce' BY <1>1, <1>3, ZenonT(60) DEF Identities, SeenOnce
<1>6. InOrder' BY <1>1, <1>2, ZenonT(60) DEF Identities, InOrder, Before
<1>7. GivenBackOnly' BY <1>1, <1>2 DEF Identities, GivenBackOnly
<1>8. WaitsForAnswer' BY <1>1 DEF Identities, WaitsForAnswer
<1> QED BY <1>4, <1>5, <1>6, <1>7, <1>8 DEF Identities

\* A dropped entry wakes its requester, so nobody waits for it.
LEMMA IdentitiesDropHead ==
  ASSUME TypeOK, CallOK, Identities, DropHead,
         UNCHANGED <<call, sends, held, delivered, returned>>
  PROVE  Identities'
<1> DEFINE h == Head(queue)
<1>1. queue # <<>> /\ queue \in Seq(Item) /\ queue' = Tail(queue) /\ pc' = Release(h)
  BY DEF DropHead, TypeOK
<1>2. h \in Item /\ Range(queue) = {h} \cup Range(queue') /\ Ordered(queue')
  BY <1>1, TakeHead, ZenonT(60) DEF Identities, InOrder
<1>3. \A s \in Senders :
        /\ pc'[s] \in InFlight => pc[s] \in InFlight
        /\ pc'[s] = "awaiting" => pc[s] = "awaiting" /\ call[s] # h
  BY <1>1, <1>2, ReleaseWakes
<1> HIDE DEF h
<1>4. Held' = Held BY DEF Held
<1>5. Seen' \subseteq Seen BY <1>2, <1>4 DEF Seen
<1>6. CallsCurrent' BY DEF Identities, CallsCurrent
<1>7. SeenOnce'
  <2>1. \A x \in Seen : x.from \in Senders BY ItemNumbers, ZenonT(60)
  <2> QED BY <1>3, <1>5, <2>1, ZenonT(60) DEF Identities, SeenOnce
<1>8. InOrder' BY <1>2, <1>4 DEF Identities, InOrder, Before
<1>9. GivenBackOnly' BY <1>2, <1>4 DEF Identities, GivenBackOnly
<1>10. WaitsForAnswer' BY <1>2, <1>3 DEF Identities, WaitsForAnswer
<1> QED BY <1>6, <1>7, <1>8, <1>9, <1>10, ZenonT(60) DEF Identities
-----------------------------------------------------------------------------
(* The budget.                                                             *)

\* A union of one finite block per element of a finite set is finite.
LEMMA BlocksFinite ==
  ASSUME NEW S, IsFiniteSet(S), NEW f, \A x \in S : f[x] \in Nat
  PROVE  IsFiniteSet(UNION {{x} \X (1 .. f[x]) : x \in S})
<1> DEFINE B == [x \in S |-> {x} \X (1 .. f[x])]
           T == {B[x] : x \in S}
<1>1. IsFiniteSet(T)
  <2>1. B \in Surjection(S, T) BY ZenonT(60) DEF Surjection
  <2> QED BY <2>1, FS_Surjection
<1>2. ASSUME NEW b \in T PROVE IsFiniteSet(b)
  <2>1. PICK x \in S : b = {x} \X (1 .. f[x]) OBVIOUS
  <2>2. f[x] \in Int /\ 1 \in Int OBVIOUS
  <2>3. IsFiniteSet(1 .. f[x]) BY <2>2, FS_Interval
  <2> QED BY <2>1, <2>3, FS_Singleton, FS_Product, ZenonT(60)
<1>3. UNION {{x} \X (1 .. f[x]) : x \in S} = UNION T OBVIOUS
<1> HIDE DEF T
<1> QED BY <1>1, <1>2, <1>3, FS_UNION

LEMMA UnitsFinite ==
  ASSUME NEW S, IsFiniteSet(S), S \subseteq Item
  PROVE  IsFiniteSet(Units(S)) /\ Cardinality(Units(S)) \in Nat
<1> DEFINE f == [i \in S |-> i.bytes]
<1>1. \A i \in S : f[i] \in Nat BY ItemFields
<1>2. UNION {{i} \X (1 .. f[i]) : i \in S} = Units(S) BY DEF Units
<1>3. IsFiniteSet(UNION {{i} \X (1 .. f[i]) : i \in S})
  <2> HIDE DEF f
  <2> QED BY <1>1, BlocksFinite
<1> QED BY <1>2, <1>3, FS_CardinalityType, ZenonT(60)

\* One item more is charged its estimate.
LEMMA UnitsAdd ==
  ASSUME NEW S, IsFiniteSet(S), S \subseteq Item, NEW x \in Item, x \notin S
  PROVE  Cardinality(Units(S \cup {x})) = Cardinality(Units(S)) + x.bytes
<1> DEFINE A == Units(S)
           n == x.bytes
           X == {x} \X (1 .. n)
<1>1. n \in Nat /\ n \in Int /\ 1 \in Int BY ItemFields
<1>2. Units(S \cup {x}) = A \cup X /\ A \cap X = {} BY DEF Units
<1>3. IsFiniteSet(A) /\ Cardinality(A) \in Nat BY UnitsFinite
<1> HIDE DEF n
<1>4. IsFiniteSet(X) /\ Cardinality(X) = n
  <2>1. IsFiniteSet(1 .. n) /\ Cardinality(1 .. n) = n BY <1>1, FS_Interval
  <2>2. IsFiniteSet({x}) /\ Cardinality({x}) = 1 BY FS_Singleton, ZenonT(60)
  <2>3. IsFiniteSet(X) /\ Cardinality(X) = Cardinality({x}) * Cardinality(1 .. n)
    BY <2>1, <2>2, FS_Product, ZenonT(60)
  <2> QED BY ONLY <1>1, <2>1, <2>2, <2>3, SMTT(30), Z3T(30)
<1> HIDE DEF A, X
<1>5. Cardinality(A \cup X) = Cardinality(A) + Cardinality(X) - Cardinality(A \cap X)
  BY <1>3, <1>4, FS_Union, ZenonT(60)
<1>6. Cardinality(A \cap X) = 0 BY <1>2, FS_EmptySet
<1>7. Cardinality(A \cup X) = Cardinality(A) + n BY ONLY <1>1, <1>3, <1>4, <1>5, <1>6, SMTT(30), Z3T(30)
<1> QED BY <1>2, <1>7 DEF A, n

\* One item less gives its estimate back, and the estimate was charged.
LEMMA UnitsRemove ==
  ASSUME NEW S, IsFiniteSet(S), S \subseteq Item, NEW x \in S
  PROVE  /\ Cardinality(Units(S \ {x})) = Cardinality(Units(S)) - x.bytes
         /\ x.bytes <= Cardinality(Units(S))
<1> DEFINE R == S \ {x}
<1>1. IsFiniteSet(R) BY FS_RemoveElement, ZenonT(60)
<1>2. S = R \cup {x} /\ x \notin R /\ R \subseteq Item /\ x \in Item OBVIOUS
<1>3. x.bytes \in Nat BY <1>2, ItemFields
<1> HIDE DEF R
<1>4. Cardinality(Units(R \cup {x})) = Cardinality(Units(R)) + x.bytes
  BY ONLY <1>1, <1>2, UnitsAdd, SMTT(30), Z3T(30)
<1>5. Cardinality(Units(R)) \in Nat BY ONLY <1>1, <1>2, UnitsFinite, SMTT(30), Z3T(30)
<1>6. Cardinality(Units(S)) = Cardinality(Units(R)) + x.bytes BY ONLY <1>2, <1>4, SMTT(30), Z3T(30)
<1> QED BY ONLY <1>3, <1>5, <1>6, SMTT(30), Z3T(30) DEF R

\* The items that hold a lease are finitely many.
LEMMA HoldersFinite ==
  ASSUME TypeOK, CallOK
  PROVE  IsFiniteSet(LeaseHolders) /\ LeaseHolders \subseteq Item
<1> DEFINE P == {t \in Senders : pc[t] \in LeaseHeld}
           C == {call[s] : s \in P}
<1>1. IsFiniteSet(Range(queue)) /\ Range(queue) \subseteq Item
  <2>1. Len(queue) \in Int /\ 1 \in Int /\ DOMAIN queue = 1..Len(queue) BY DEF TypeOK
  <2>2. IsFiniteSet(DOMAIN queue) BY <2>1, FS_Interval
  <2>3. queue \in Surjection(DOMAIN queue, Range(queue))
    <3>1. queue \in [1..Len(queue) -> Item] BY DEF TypeOK
    <3>2. queue \in [DOMAIN queue -> Range(queue)] BY <2>1, <3>1 DEF Range
    <3> QED BY <3>2, ZenonT(60) DEF Surjection, Range
  <2> QED BY <2>2, <2>3, FS_Surjection, ItemNumbers, ZenonT(60)
<1>2. IsFiniteSet(C) /\ C \subseteq Item
  <2>1. IsFiniteSet(P) BY ChannelAssumption, FS_Subset
  <2>2. [s \in P |-> call[s]] \in Surjection(P, C) BY ZenonT(60) DEF Surjection
  <2>3. C \subseteq Item BY DEF CallOK, LeaseHeld
  <2> HIDE DEF P, C
  <2> QED BY <2>1, <2>2, <2>3, FS_Surjection
<1>3. IsFiniteSet(Held) /\ Held \subseteq Item
  BY ItemNumbers, FS_EmptySet, FS_Singleton, ZenonT(60) DEF Held
<1>4. LeaseHolders = Range(queue) \cup C \cup Held BY DEF LeaseHolders, Held
<1> HIDE DEF C
<1>5. IsFiniteSet((Range(queue) \cup C) \cup Held) BY <1>1, <1>2, <1>3, FS_Union, ZenonT(60)
<1> QED BY <1>1, <1>2, <1>3, <1>4, <1>5, ZenonT(60)

\* The budget charges exactly the lease holders.
Charged == used = Cardinality(Units(LeaseHolders))

\* Releasing the lease of one holder uncharges exactly it.
LEMMA ReleaseLease ==
  ASSUME TypeOK, CallOK, Charged, NEW x \in LeaseHolders,
         used' = Minus(used, x.bytes), LeaseHolders' = LeaseHolders \ {x}
  PROVE  Charged'
<1> DEFINE S == LeaseHolders
<1>1. IsFiniteSet(S) /\ S \subseteq Item /\ x \in S BY HoldersFinite
<1>2. x.bytes \in Nat BY <1>1, ItemFields
<1>3. Cardinality(Units(S)) \in Nat BY <1>1, UnitsFinite
<1>4. used = Cardinality(Units(S)) BY DEF Charged
<1>5. LeaseHolders' = S \ {x} OBVIOUS
<1> HIDE DEF S
<1>6. /\ Cardinality(Units(S \ {x})) = Cardinality(Units(S)) - x.bytes
      /\ x.bytes <= Cardinality(Units(S))
  BY ONLY <1>1, UnitsRemove, SMTT(30), Z3T(30)
<1>7. Minus(used, x.bytes) = used - x.bytes BY ONLY <1>2, <1>3, <1>4, <1>6, MinusNat, SMTT(30), Z3T(30)
<1>8. used' = Cardinality(Units(S \ {x})) BY <1>4, <1>6, <1>7
<1>9. Cardinality(Units(LeaseHolders')) = Cardinality(Units(S \ {x})) BY <1>5
<1> QED BY <1>8, <1>9 DEF Charged, Units

\* The lease is taken by one item at a time and follows it until it is finished or
\* dropped.
LEMMA ChargedSender ==
  ASSUME TypeOK, CallOK, Identities, Charged, NEW s \in Senders, SenderStep(s) \/ DropSender(s)
  PROVE  Charged'
<1>1. ASSUME used' = used, LeaseHolders' = LeaseHolders PROVE Charged'
  BY <1>1 DEF Charged, Units
<1>2. ASSUME NEW to, Moves(s, to), pc[s] \notin LeaseHeld, to \notin LeaseHeld,
             UNCHANGED <<call, queue, held, used>>
      PROVE  Charged'
  <2>1. \A t \in Senders : pc'[t] \in LeaseHeld <=> pc[t] \in LeaseHeld
    BY <1>2, ZenonT(60) DEF Moves, TypeOK
  <2>2. LeaseHolders' = LeaseHolders BY <1>2, <2>1 DEF LeaseHolders
  <2> QED BY <1>1, <1>2, <2>2, ZenonT(60)
<1>3. CASE Reserve(s) \/ ReserveFails(s) \/ Recheck(s) \/ StopAwaiting(s) \/ DropSender(s)
  <2>1. /\ pc[s] \notin LeaseHeld
        /\ Moves(s, "reserved") \/ Moves(s, "checked") \/ Moves(s, "idle") \/ Moves(s, "gone")
        /\ UNCHANGED <<call, queue, held, used>>
    BY <1>3, ZenonT(60) DEF Reserve, ReserveFails, Recheck, StopAwaiting, DropSender, GiveBack, Moves,
                LeaseHeld, receiverVars
  <2> QED BY <1>2, <2>1 DEF LeaseHeld
<1>4. CASE Admit(s)
  <2>1. CASE ~CanAdmit(call[s].bytes)
    BY <1>2, <1>4, <2>1, ZenonT(60) DEF Admit, GiveBack, Moves, LeaseHeld, receiverVars
  <2>2. CASE CanAdmit(call[s].bytes)
    <3> DEFINE x == call[s]
               S == LeaseHolders
    <3>1. /\ pc[s] = "checked" /\ used' = used + x.bytes
          /\ pc' = [pc EXCEPT ![s] = "admitted"] /\ UNCHANGED <<call, queue, held>>
      BY <1>4, <2>2, ZenonT(60) DEF Admit, receiverVars
    <3>2. x \in Item /\ x \notin Seen /\ x.from = s
      BY <3>1, CarriedUnseen, ZenonT(60) DEF InFlight, PermitHeld
    <3>3. \A t \in Senders : pc'[t] \in LeaseHeld <=> t = s \/ pc[t] \in LeaseHeld
      BY <3>1, ZenonT(60) DEF TypeOK, LeaseHeld
    <3>4. LeaseHolders' = S \cup {x} BY <3>1, <3>3, ZenonT(60) DEF LeaseHolders
    <3>5. x \notin S
      <4>1. ASSUME NEW t \in Senders, pc[t] \in LeaseHeld PROVE call[t] # x
        <5>1. t # s BY <3>1, <4>1 DEF LeaseHeld
        <5>2. call[t].from = t BY <4>1 DEF CallOK, LeaseHeld, Identities, CallsCurrent
        <5> QED BY <3>2, <5>1, <5>2
      <4> QED BY <3>2, <4>1, ZenonT(60) DEF LeaseHolders, Seen, Held
    <3>6. IsFiniteSet(S) /\ S \subseteq Item BY HoldersFinite
    <3>7. used = Cardinality(Units(S)) BY DEF Charged
    <3> HIDE DEF x, S
    <3>8. Cardinality(Units(S \cup {x})) = Cardinality(Units(S)) + x.bytes
      BY ONLY <3>2, <3>5, <3>6, UnitsAdd, ZenonT(60)
    <3>9. used' = Cardinality(Units(S \cup {x})) BY <3>1, <3>7, <3>8 DEF x
    <3> QED BY <3>4, <3>9 DEF Charged, Units
  <2> QED BY <2>1, <2>2
<1>5. CASE Accept(s)
  <2>1. \A t \in Senders : pc'[t] \in LeaseHeld <=> pc[t] \in LeaseHeld
    BY <1>5, ZenonT(60) DEF Accept, TypeOK, LeaseHeld
  <2>2. LeaseHolders' = LeaseHolders BY <1>5, <2>1 DEF Accept, LeaseHolders, receiverVars
  <2> QED BY <1>1, <1>5, <2>2, ZenonT(60) DEF Accept
<1>6. CASE Push(s)
  <2>1. \A t \in Senders : pc'[t] \in LeaseHeld <=> t # s /\ pc[t] \in LeaseHeld
    BY <1>6 DEF Push, TypeOK, LeaseHeld
  <2>2. pc[s] \in LeaseHeld /\ call[s] \in Item BY <1>6 DEF Push, LeaseHeld, CallOK
  <2>3. Range(queue') = Range(queue) \cup {call[s]}
    BY <1>6, <2>2, AppendItem, ZenonT(60) DEF Push, TypeOK
  <2>4. UNCHANGED <<call, held, used>> BY <1>6, ZenonT(60) DEF Push, receiverVars
  <2>5. LeaseHolders' = LeaseHolders BY <2>1, <2>2, <2>3, <2>4 DEF LeaseHolders
  <2> QED BY <1>1, <2>4, <2>5, ZenonT(60)
<1> QED BY <1>3, <1>4, <1>5, <1>6 DEF SenderStep

\* No sender about to push carries an item that has left its sender.
LEMMA CarriedApart ==
  ASSUME TypeOK, CallOK, Identities, NEW x \in Seen
  PROVE  \A t \in Senders : pc[t] \in LeaseHeld => call[t] # x
BY CarriedUnseen, ZenonT(60) DEF LeaseHeld, InFlight, PermitHeld

\* The receiver's steps.
LEMMA ChargedReceiver ==
  ASSUME TypeOK, CallOK, Identities, Charged, Receiver
  PROVE  Charged'
<1>1. ASSUME used' = used, LeaseHolders' = LeaseHolders PROVE Charged'
  BY <1>1, ZenonT(60) DEF Charged, Units
<1>2. ASSUME NEW x \in Item, pc' = Release(x)
      PROVE  \A t \in Senders : pc'[t] \in LeaseHeld <=> pc[t] \in LeaseHeld
  BY <1>2 DEF Release, TypeOK, LeaseHeld
<1>3. CASE Pop
  <2>1. /\ held = NoItem /\ queue # <<>> /\ queue \in Seq(Item) /\ queue' = Tail(queue)
        /\ held' = [stage |-> "popped", item |-> Head(queue)]
        /\ UNCHANGED <<pc, call, used>>
    BY <1>3 DEF Pop, TypeOK
  <2>2. Range(queue) = {Head(queue)} \cup Range(queue') BY <2>1, TakeHead, ZenonT(60)
  <2>3. held' # NoItem /\ held'.item = Head(queue) BY <2>1, HeldIs, ZenonT(60) DEF Stages
  <2>4. LeaseHolders' = LeaseHolders BY <2>1, <2>2, <2>3 DEF LeaseHolders
  <2> QED BY <1>1, <2>1, <2>4, ZenonT(60)
<1>4. CASE Take \/ Respond
  <2>1. /\ held # NoItem /\ held.item \in Item
        /\ \E st \in Stages : held' = [held EXCEPT !.stage = st]
        /\ pc' = pc \/ pc' = Release(held.item)
        /\ UNCHANGED <<call, queue, used>>
    BY <1>4, HeldFields DEF Take, Respond, Stages
  <2>2. PICK st \in Stages : held' = [held EXCEPT !.stage = st] BY <2>1
  <2>3. held' = [stage |-> st, item |-> held.item] BY <2>1, <2>2 DEF TypeOK
  <2>4. held' # NoItem /\ held'.item = held.item BY <2>3, HeldIs
  <2>5. \A t \in Senders : pc'[t] \in LeaseHeld <=> pc[t] \in LeaseHeld BY <1>2, <2>1
  <2>6. LeaseHolders' = LeaseHolders BY <2>1, <2>4, <2>5 DEF LeaseHolders
  <2> QED BY <1>1, <2>1, <2>6
<1>5. CASE Finish
  <2> DEFINE x == held.item
  <2>1. /\ held # NoItem /\ held' = NoItem /\ used' = Minus(used, x.bytes) /\ Held = {x}
        /\ UNCHANGED <<pc, call, queue>>
    BY <1>5, HeldFields, ZenonT(60) DEF Finish
  <2>2. x \notin Range(queue)
    <3>1. x \in Item /\ x.n \in Nat BY <2>1, HeldFields, ItemNumbers, ZenonT(60)
    <3>2. Before({x}, Range(queue)) BY <2>1, ZenonT(60) DEF Identities, InOrder
    <3> QED BY <3>1, <3>2, BeforeApart, ZenonT(60)
  <2>3. \A t \in Senders : pc[t] \in LeaseHeld => call[t] # x
    <3>1. x \in Seen BY <2>1, ZenonT(60) DEF Seen
    <3> QED BY <3>1, CarriedApart
  <2>4. x \in LeaseHolders /\ LeaseHolders' = LeaseHolders \ {x}
    BY <2>1, <2>2, <2>3, ZenonT(60) DEF LeaseHolders
  <2> QED BY <2>1, <2>4, ReleaseLease, ZenonT(60)
<1>6. CASE CloseFlag \/ CloseQueue \/ DropReceiver \/ Drained
  BY <1>1, <1>6 DEF CloseFlag, CloseQueue, DropReceiver, Drained, LeaseHolders
<1>7. CASE Drain \/ FreeQueue
  <2> DEFINE x == Head(queue)
  <2>1. /\ queue # <<>> /\ queue \in Seq(Item) /\ queue' = Tail(queue)
        /\ used' = Minus(used, x.bytes) /\ pc' = Release(x) /\ UNCHANGED <<call, held>>
    BY <1>7, ZenonT(60) DEF Drain, FreeQueue, DropHead, TypeOK, receiverVars
  <2>2. /\ x \in Item /\ Range(queue) = {x} \cup Range(queue')
        /\ Before({x}, Range(queue'))
    BY <2>1, TakeHead, ZenonT(60) DEF Identities, InOrder
  <2>3. x.n \in Nat BY <2>2, ItemNumbers
  <2> HIDE DEF x
  <2>4. x \notin Range(queue') BY <2>2, <2>3, BeforeApart, ZenonT(60)
  <2>5. x \notin Held BY <2>2, <2>3 DEF Identities, InOrder, Before
  <2>6. \A t \in Senders : pc[t] \in LeaseHeld => call[t] # x
    <3>1. x \in Seen BY <2>2, ZenonT(60) DEF Seen
    <3> QED BY <3>1, CarriedApart
  <2>7. \A t \in Senders : pc'[t] \in LeaseHeld <=> pc[t] \in LeaseHeld
    BY <1>2, <2>1, <2>2, ZenonT(60)
  <2>8. x \in LeaseHolders /\ LeaseHolders' = LeaseHolders \ {x}
    BY <2>1, <2>2, <2>4, <2>5, <2>6, <2>7, ZenonT(60) DEF LeaseHolders, Held
  <2> QED BY <2>1, <2>8, ReleaseLease, ZenonT(60)
<1> QED BY <1>3, <1>4, <1>5, <1>6, <1>7 DEF Receiver
-----------------------------------------------------------------------------
(* Every call ends once.                                                   *)

Flying(f) == Cardinality({s \in Senders : f[s] \in InFlight})

\* Where the calls made so far have got to.
Ended == Cardinality(returned) + Len(delivered) + dropped
OnTheWay == Len(queue) + Popped + Flying(pc)

CallBalance == IsFiniteSet(returned) /\ Ended + OnTheWay = Cardinality(Calls)

LEMMA CallNumbers ==
  ASSUME TypeOK, IsFiniteSet(returned)
  PROVE  /\ Cardinality(returned) \in Nat /\ Len(delivered) \in Nat /\ dropped \in Nat
         /\ Len(queue) \in Nat /\ Popped \in Nat /\ Flying(pc) \in Nat
<1>1. Flying(pc) \in Nat BY CountNat DEF Count, Flying
<1>2. Cardinality(returned) \in Nat BY FS_CardinalityType
<1> QED BY <1>1, <1>2 DEF TypeOK, Popped

\* A sender that parts with its item, or takes one up.
LEMMA FlyingMoves ==
  ASSUME TypeOK, NEW s \in Senders, NEW to, Moves(s, to)
  PROVE  /\ pc[s] \notin InFlight /\ to \in InFlight => Flying(pc') = Flying(pc) + 1
         /\ pc[s] \in InFlight /\ to \notin InFlight => Flying(pc') = Flying(pc) - 1
         /\ (pc[s] \in InFlight <=> to \in InFlight) => Flying(pc') = Flying(pc)
<1>1. pc'[s] = to /\ \A t \in Senders \ {s} : pc'[t] = pc[t] BY DEF Moves, TypeOK
<1>2. IsFiniteSet(Senders) BY ChannelAssumption
<1>3. ASSUME pc[s] \notin InFlight, to \in InFlight PROVE Flying(pc') = Flying(pc) + 1
  BY ONLY <1>1, <1>2, <1>3, s \in Senders, CountEnter, SMTT(30), Z3T(30) DEF Flying
<1>4. ASSUME pc[s] \in InFlight, to \notin InFlight PROVE Flying(pc') = Flying(pc) - 1
  BY ONLY <1>1, <1>2, <1>4, s \in Senders, CountLeave, SMTT(30), Z3T(30) DEF Flying
<1>5. ASSUME pc[s] \in InFlight <=> to \in InFlight PROVE Flying(pc') = Flying(pc)
  <2>1. \A t \in Senders : (pc'[t] \in InFlight) <=> (pc[t] \in InFlight) BY <1>1, <1>5
  <2> QED BY <2>1, CountSame DEF Flying
<1> QED BY <1>3, <1>4, <1>5, ZenonT(60)

\* Waking a requester parts nobody from an item.
LEMMA FlyingRelease ==
  ASSUME TypeOK, NEW item, pc' = Release(item)
  PROVE  Flying(pc') = Flying(pc)
<1>1. \A t \in Senders : pc'[t] = pc[t] \/ (pc[t] = "awaiting" /\ pc'[t] = "idle")
  BY DEF Release, TypeOK
<1>2. \A t \in Senders : (pc'[t] \in InFlight) <=> (pc[t] \in InFlight)
  BY <1>1 DEF InFlight, PermitHeld
<1> QED BY <1>2, CountSame DEF Flying

\* One item more given back.
LEMMA ReturnsOne ==
  ASSUME IsFiniteSet(returned), NEW x, x \notin returned, returned' = returned \cup {x}
  PROVE  IsFiniteSet(returned') /\ Cardinality(returned') = Cardinality(returned) + 1
<1>1. /\ IsFiniteSet(returned \cup {x})
      /\ Cardinality(returned \cup {x}) = Cardinality(returned) + 1
  BY FS_AddElement, ZenonT(60)
<1> QED BY <1>1

\* A sender's step moves a call from one place to the next.
LEMMA CallsSender ==
  ASSUME TypeOK, CallOK, Identities, CallBalance,
         NEW s \in Senders, SenderStep(s) \/ DropSender(s)
  PROVE  CallBalance'
<1>1. /\ IsFiniteSet(returned) /\ Ended + OnTheWay = Cardinality(Calls)
      /\ Cardinality(returned) \in Nat /\ Len(delivered) \in Nat /\ dropped \in Nat
      /\ Len(queue) \in Nat /\ Popped \in Nat /\ Flying(pc) \in Nat
  BY CallNumbers, ZenonT(60) DEF CallBalance
<1>2. UNCHANGED <<call, sends, delivered, dropped, held>>
  BY ZenonT(60) DEF SenderStep, DropSender, Reserve, ReserveFails, Recheck, Admit, Accept, Push,
         StopAwaiting, receiverVars
<1>3. Calls' = Calls /\ Popped' = Popped BY <1>2, ZenonT(60) DEF Calls, Popped
<1>4. ASSUME NEW to, Moves(s, to), pc[s] \in InFlight <=> to \in InFlight,
             UNCHANGED <<queue, returned>>
      PROVE  CallBalance'
  <2>1. Flying(pc') = Flying(pc) BY <1>4, FlyingMoves, ZenonT(60)
  <2> QED BY <1>1, <1>2, <1>3, <1>4, <2>1, ZenonT(60) DEF CallBalance, Ended, OnTheWay
<1>5. ASSUME pc[s] \in InFlight, GiveBack(s), UNCHANGED queue PROVE CallBalance'
  <2>1. Flying(pc') = Flying(pc) - 1
    <3>1. Moves(s, "idle") /\ "idle" \notin InFlight
      BY <1>5 DEF GiveBack, Moves, InFlight, PermitHeld
    <3> QED BY <1>5, <3>1, FlyingMoves
  <2>2. call[s] \notin returned BY <1>5, CarriedUnseen, ZenonT(60) DEF Seen
  <2>3. IsFiniteSet(returned') /\ Cardinality(returned') = Cardinality(returned) + 1
    BY <1>1, <1>5, <2>2, ReturnsOne, ZenonT(60) DEF GiveBack
  <2> QED BY <1>1, <1>2, <1>3, <1>5, <2>1, <2>3 DEF CallBalance, Ended, OnTheWay
<1>6. CASE Reserve(s) \/ Accept(s) \/ StopAwaiting(s) \/ DropSender(s)
  BY <1>4, <1>6 DEF Reserve, Accept, StopAwaiting, DropSender, Moves, InFlight, PermitHeld
<1>7. CASE ReserveFails(s) BY <1>5, <1>7, ZenonT(60) DEF ReserveFails, InFlight
<1>8. CASE Recheck(s)
  BY <1>4, <1>5, <1>8, ZenonT(60) DEF Recheck, Moves, InFlight, PermitHeld
<1>9. CASE Admit(s)
  BY <1>4, <1>5, <1>9, ZenonT(60) DEF Admit, Moves, InFlight, PermitHeld
<1>10. CASE Push(s)
  <2>1. pc[s] = "accepted" /\ (Moves(s, "awaiting") \/ Moves(s, "idle"))
    BY <1>10, ZenonT(60) DEF Push, Moves
  <2>a. "accepted" \in InFlight /\ "awaiting" \notin InFlight /\ "idle" \notin InFlight
    BY ONLY SMTT(30), Z3T(30) DEF InFlight, PermitHeld
  <2>2. Flying(pc') = Flying(pc) - 1 BY <2>1, <2>a, FlyingMoves, ZenonT(60)
  <2>3. Len(queue') = Len(queue) + 1 /\ returned' = returned BY <1>10 DEF Push, TypeOK
  <2> QED BY <1>1, <1>2, <1>3, <2>2, <2>3 DEF CallBalance, Ended, OnTheWay
<1> QED BY <1>6, <1>7, <1>8, <1>9, <1>10, ZenonT(60) DEF SenderStep

\* A call begins: one call more, carried by its sender or given back at once.
LEMMA CallsBegin ==
  ASSUME TypeOK, CallOK, Identities, CallBalance,
         NEW s \in Senders, NEW op \in EntryPoints, NEW bytes \in Estimates, BeginSend(s, op, bytes)
  PROVE  CallBalance'
<1> DEFINE item == [from |-> s, n |-> sends[s] + 1, op |-> op, bytes |-> bytes]
           k == sends[s] + 1
<1>1. /\ IsFiniteSet(returned) /\ Ended + OnTheWay = Cardinality(Calls)
      /\ Cardinality(returned) \in Nat /\ Len(delivered) \in Nat /\ dropped \in Nat
      /\ Len(queue) \in Nat /\ Popped \in Nat /\ Flying(pc) \in Nat
  BY CallNumbers, ZenonT(60) DEF CallBalance
<1>2. /\ sends' = [sends EXCEPT ![s] = k]
      /\ \/ returned' = returned \cup {item} /\ UNCHANGED pc
         \/ pc' = [pc EXCEPT ![s] = "reserve"] /\ UNCHANGED returned
      /\ pc[s] = "idle"
      /\ UNCHANGED <<queue, held, delivered, dropped>>
  BY ZenonT(60) DEF BeginSend, receiverVars
<1>3. sends[s] \in Nat /\ item.n = k /\ item.from = s BY ItemNumbers, ZenonT(60)
<1>4. item \notin returned
  <2>1. \A x \in returned : x.n \in Nat /\ x.n <= sends[x.from]
    <3>1. returned \subseteq Seen BY ZenonT(60) DEF Seen
    <3> QED BY <3>1, ItemNumbers, ZenonT(60) DEF Identities, SeenOnce
  <2>2. ~(k <= sends[s]) BY ONLY <1>3, SMTT(30), Z3T(30) DEF k
  <2> QED BY <1>3, <2>1, <2>2, ZenonT(60)
<1>5. Cardinality(Calls') = Cardinality(Calls) + 1
  <2>1. Calls' = Calls \cup {<<s, k>>}
    <3>1. 1 .. k = (1 .. sends[s]) \cup {k}
      <4>1. sends[s] \in Nat BY <1>3, ZenonT(60)
      <4> QED BY ONLY <4>1, SMTT(30), Z3T(30)
    <3>2. /\ sends'[s] = k /\ \A t \in Senders : t # s => sends'[t] = sends[t]
      BY <1>2, ZenonT(60) DEF TypeOK
    <3> HIDE DEF k
    <3> QED BY <3>1, <3>2 DEF Calls
  <2>2. <<s, k>> \notin Calls BY <1>3 DEF Calls
  <2>3. IsFiniteSet(Calls)
    <3>1. \A t \in Senders : sends[t] \in Nat BY ItemNumbers
    <3> QED BY <3>1, ChannelAssumption, BlocksFinite DEF Calls
  <2> HIDE DEF k
  <2>4. Cardinality(Calls \cup {<<s, k>>}) = Cardinality(Calls) + 1
    BY <2>2, <2>3, FS_AddElement, ZenonT(60)
  <2> QED BY <2>1, <2>4
<1>6. Popped' = Popped BY <1>2 DEF Popped
<1> HIDE DEF item
<1>7. CASE returned' = returned \cup {item} /\ UNCHANGED pc
  <2>1. IsFiniteSet(returned') /\ Cardinality(returned') = Cardinality(returned) + 1
    BY <1>1, <1>4, <1>7, ReturnsOne, ZenonT(60)
  <2> QED BY <1>1, <1>2, <1>5, <1>6, <1>7, <2>1 DEF CallBalance, Ended, OnTheWay
<1>8. CASE pc' = [pc EXCEPT ![s] = "reserve"] /\ UNCHANGED returned
  <2>1. Flying(pc') = Flying(pc) + 1
    BY <1>2, <1>8, FlyingMoves, ZenonT(60) DEF Moves, InFlight, PermitHeld
  <2> QED BY <1>1, <1>2, <1>5, <1>6, <1>8, <2>1 DEF CallBalance, Ended, OnTheWay
<1> QED BY <1>2, <1>7, <1>8

\* The receiver moves a call from the queue to its hands, to the delivered ones, or
\* drops it.
LEMMA CallsReceiver ==
  ASSUME TypeOK, CallBalance, Receiver
  PROVE  CallBalance'
<1>1. /\ IsFiniteSet(returned) /\ Ended + OnTheWay = Cardinality(Calls)
      /\ Cardinality(returned) \in Nat /\ Len(delivered) \in Nat /\ dropped \in Nat
      /\ Len(queue) \in Nat /\ Popped \in Nat /\ Flying(pc) \in Nat
  BY CallNumbers DEF CallBalance
<1>2. UNCHANGED <<sends, returned>>
  BY DEF Receiver, Pop, Take, Respond, Finish, CloseFlag, CloseQueue, DropReceiver, Drain,
         Drained, FreeQueue, DropHead
<1>3. Calls' = Calls BY <1>2 DEF Calls
<1>4. CASE Pop
  <2>1. /\ held = NoItem /\ held' = [stage |-> "popped", item |-> Head(queue)]
        /\ queue # <<>> /\ queue \in Seq(Item) /\ queue' = Tail(queue)
        /\ UNCHANGED <<pc, delivered, dropped>>
    BY <1>4 DEF Pop, TypeOK
  <2>2. Popped = 0 /\ Popped' = 1 BY <2>1, HeldIs DEF Popped, Stages
  <2>3. Len(queue') = Len(queue) - 1 BY <2>1
  <2>4. pc' = pc /\ delivered' = delivered /\ dropped' = dropped BY <2>1, ZenonT(60)
  <2> QED BY ONLY <1>1, <1>2, <1>3, <2>2, <2>3, <2>4, SMTT(30), Z3T(30) DEF CallBalance, Ended, OnTheWay
<1>5. CASE Take
  <2>1. /\ held # NoItem /\ held.stage = "popped" /\ held.item \in Item
        /\ held' = [stage |-> "taken", item |-> held.item]
        /\ delivered \in Seq(Item) /\ delivered' = Append(delivered, held.item)
        /\ UNCHANGED <<pc, queue, dropped>>
    BY <1>5, HeldFields DEF Take, TypeOK
  <2>2. Popped = 1 /\ Popped' = 0 BY <2>1, HeldIs DEF Popped, Stages
  <2>3. Len(delivered') = Len(delivered) + 1 BY <2>1
  <2>4. pc' = pc /\ queue' = queue /\ dropped' = dropped BY <2>1, ZenonT(60)
  <2> QED BY ONLY <1>1, <1>2, <1>3, <2>2, <2>3, <2>4, SMTT(30), Z3T(30) DEF CallBalance, Ended, OnTheWay
<1>6. CASE Respond
  <2>1. /\ held # NoItem /\ held.stage = "taken" /\ held.item \in Item
        /\ held' = [stage |-> "answered", item |-> held.item]
        /\ pc' = Release(held.item) /\ UNCHANGED <<queue, delivered, dropped>>
    BY <1>6, HeldFields DEF Respond, TypeOK
  <2>2. Popped = 0 /\ Popped' = 0 BY <2>1, HeldIs DEF Popped, Stages
  <2>3. Flying(pc') = Flying(pc) BY <2>1, FlyingRelease, ZenonT(60)
  <2>4. queue' = queue /\ delivered' = delivered /\ dropped' = dropped BY <2>1, ZenonT(60)
  <2> QED BY ONLY <1>1, <1>2, <1>3, <2>2, <2>3, <2>4, SMTT(30), Z3T(30) DEF CallBalance, Ended, OnTheWay
<1>7. CASE Finish
  <2>1. Popped = 0 /\ Popped' = 0 BY <1>7 DEF Finish, Popped
  <2> QED BY <1>1, <1>2, <1>3, <1>7, <2>1 DEF Finish, CallBalance, Ended, OnTheWay
<1>8. CASE CloseFlag \/ CloseQueue \/ DropReceiver \/ Drained
  <2>1. UNCHANGED <<pc, queue, held, delivered, dropped>>
    BY <1>8 DEF CloseFlag, CloseQueue, DropReceiver, Drained
  <2>2. Popped' = Popped BY <2>1 DEF Popped
  <2> QED BY <1>1, <1>2, <1>3, <2>1, <2>2, ZenonT(60) DEF CallBalance, Ended, OnTheWay
<1>9. CASE Drain \/ FreeQueue
  <2>1. /\ queue # <<>> /\ queue \in Seq(Item) /\ queue' = Tail(queue)
        /\ dropped' = dropped + 1 /\ pc' = Release(Head(queue))
        /\ UNCHANGED <<held, delivered>>
    BY <1>9 DEF Drain, FreeQueue, DropHead, TypeOK, receiverVars
  <2>2. Flying(pc') = Flying(pc) BY <2>1, FlyingRelease
  <2>3. Len(queue') = Len(queue) - 1 /\ Popped' = Popped BY <2>1 DEF Popped
  <2>4. delivered' = delivered /\ dropped' = dropped + 1 BY <2>1, ZenonT(60)
  <2> QED BY ONLY <1>1, <1>2, <1>3, <2>2, <2>3, <2>4, SMTT(30), Z3T(30) DEF CallBalance, Ended, OnTheWay
<1> QED BY <1>4, <1>5, <1>6, <1>7, <1>8, <1>9 DEF Receiver
-----------------------------------------------------------------------------
\* The inductive invariant of items and leases.
ItemInv == Identities /\ Charged /\ CallBalance

\* A new channel has seen no item and charged nothing.
LEMMA InitItems == Init => ItemInv
<1> SUFFICES ASSUME Init PROVE ItemInv OBVIOUS
<1>1. Range(queue) = {} /\ Range(delivered) = {} BY DEF Init, Range
<1>2. Held = {} /\ Popped = 0 BY DEF Init, Held, Popped
<1>3. Seen = {} BY <1>1, <1>2 DEF Init, Seen
<1>4. Identities
  <2>1. CallsCurrent
    <3>1. NoItem \notin Item
      <4>1. \A x \in Item : x.from \in Senders /\ DOMAIN x = {"from", "n", "op", "bytes"}
        BY DEF Item
      <4>2. DOMAIN NoItem = {"stage"} BY DEF NoItem
      <4> QED BY <4>1, <4>2
    <3> QED BY <3>1 DEF Init, CallsCurrent
  <2>2. SeenOnce /\ GivenBackOnly /\ WaitsForAnswer
    BY <1>1, <1>2, <1>3, ZenonT(60) DEF Init, SeenOnce, GivenBackOnly, WaitsForAnswer
  <2>3. InOrder BY <1>1, <1>2 DEF Init, InOrder, Ordered, Before
  <2> QED BY <2>1, <2>2, <2>3 DEF Identities
<1>5. Charged
  <2>1. LeaseHolders = {} BY <1>1 DEF Init, LeaseHolders, LeaseHeld
  <2>2. Units({}) = {} BY DEF Units
  <2> QED BY <2>1, <2>2, FS_EmptySet DEF Init, Charged
<1>6. CallBalance
  <2>1. Flying(pc) = 0
    <3>1. {s \in Senders : pc[s] \in InFlight} = {} BY DEF Init, InFlight, PermitHeld
    <3> QED BY <3>1, FS_EmptySet DEF Flying
  <2>2. Calls = {} BY DEF Init, Calls
  <2>3. IsFiniteSet(returned) /\ Cardinality(returned) = 0 /\ Cardinality(Calls) = 0
    BY <2>2, FS_EmptySet DEF Init
  <2> QED BY <1>2, <2>1, <2>3 DEF Init, CallBalance, Ended, OnTheWay
<1> QED BY <1>4, <1>5, <1>6 DEF ItemInv

\* A sender's step keeps every item identified.
LEMMA IdentitiesSender ==
  ASSUME TypeOK, CallOK, Identities, NEW s \in Senders, SenderStep(s) \/ DropSender(s)
  PROVE  Identities'
<1>1. ASSUME NEW to, Moves(s, to), to \in InFlight => pc[s] \in InFlight, to # "awaiting",
             UNCHANGED <<call, sends, queue, held, delivered, returned>>
      PROVE  Identities'
  <2>1. \A t \in Senders : /\ pc'[t] \in InFlight => pc[t] \in InFlight
                           /\ pc'[t] = "awaiting" => pc[t] = "awaiting"
    BY <1>1, ZenonT(60) DEF Moves, TypeOK
  <2> QED BY <1>1, <2>1, IdentitiesQuiet, ZenonT(60)
<1>2. CASE Reserve(s) \/ Accept(s) \/ StopAwaiting(s) \/ DropSender(s)
  BY <1>1, <1>2, ZenonT(60) DEF Reserve, Accept, StopAwaiting, DropSender, Moves, InFlight, PermitHeld,
                    receiverVars
<1>3. CASE ReserveFails(s)
  BY <1>3, IdentitiesGiveBack DEF ReserveFails, InFlight, receiverVars
<1>4. CASE Recheck(s)
  <2>1. CASE receiverClosed
    BY <1>4, <2>1, IdentitiesGiveBack DEF Recheck, InFlight, PermitHeld, receiverVars
  <2>2. CASE ~receiverClosed
    BY <1>1, <1>4, <2>2 DEF Recheck, Moves, InFlight, PermitHeld, receiverVars
  <2> QED BY <2>1, <2>2
<1>5. CASE Admit(s)
  <2>1. CASE ~CanAdmit(call[s].bytes)
    BY <1>5, <2>1, IdentitiesGiveBack, ZenonT(60) DEF Admit, InFlight, PermitHeld, receiverVars
  <2>2. CASE CanAdmit(call[s].bytes)
    BY <1>1, <1>5, <2>2 DEF Admit, Moves, InFlight, PermitHeld, receiverVars
  <2> QED BY <2>1, <2>2, ZenonT(60)
<1>6. CASE Push(s) BY <1>6, IdentitiesPush
<1> QED BY <1>2, <1>3, <1>4, <1>5, <1>6, ZenonT(60) DEF SenderStep

LEMMA IdentitiesReceiver ==
  ASSUME TypeOK, CallOK, Identities, Receiver
  PROVE  Identities'
<1>1. CASE CloseFlag \/ CloseQueue \/ DropReceiver \/ Drained
  BY <1>1, IdentitiesQuiet DEF CloseFlag, CloseQueue, DropReceiver, Drained
<1>2. CASE Drain \/ FreeQueue
  BY <1>2, IdentitiesDropHead DEF Drain, FreeQueue, receiverVars
<1> QED BY <1>1, <1>2, IdentitiesPop, IdentitiesTake, IdentitiesRespond, IdentitiesFinish, ZenonT(60)
        DEF Receiver

\* Every step keeps items, leases and calls accounted for.
LEMMA StepItems == IInv /\ ItemInv /\ [Next]_vars => ItemInv'
<1> SUFFICES ASSUME IInv, ItemInv, [Next]_vars
             PROVE  Identities' /\ Charged' /\ CallBalance'
  BY DEF ItemInv
<1>1. TypeOK /\ CallOK /\ Identities /\ Charged /\ CallBalance BY DEF IInv, ItemInv
<1>2. ASSUME UNCHANGED <<pc, call, sends, queue, held, delivered, dropped, returned, used>>
      PROVE  Identities' /\ Charged' /\ CallBalance'
  <2>1. Identities' BY <1>1, <1>2, IdentitiesQuiet, ZenonT(60)
  <2>2. LeaseHolders' = LeaseHolders /\ Calls' = Calls /\ Popped' = Popped
    BY <1>2 DEF LeaseHolders, Calls, Popped
  <2> QED BY <1>1, <1>2, <2>1, <2>2 DEF Charged, Units, CallBalance, Ended, OnTheWay
<1>3. ASSUME NEW s \in Senders, SenderStep(s) \/ DropSender(s)
      PROVE  Identities' /\ Charged' /\ CallBalance'
  BY <1>1, <1>3, IdentitiesSender, ChargedSender, CallsSender, ZenonT(60)
<1>4. ASSUME NEW s \in Senders, NEW op \in Ops[s], NEW bytes \in Estimates,
             BeginSend(s, op, bytes)
      PROVE  Identities' /\ Charged' /\ CallBalance'
  <2>1. op \in EntryPoints BY ChannelAssumption
  <2>2. Identities' /\ CallBalance' BY <1>1, <1>4, <2>1, IdentitiesBegin, CallsBegin, ZenonT(60)
  <2>3. LeaseHolders' = LeaseHolders /\ used' = used
    <3>1. /\ \A t \in Senders : pc'[t] \in LeaseHeld <=> pc[t] \in LeaseHeld
          /\ \A t \in Senders : pc[t] \in LeaseHeld => call'[t] = call[t]
          /\ UNCHANGED <<queue, held, used>>
      BY <1>1, <1>4 DEF BeginSend, TypeOK, LeaseHeld, receiverVars
    <3> QED BY <3>1, ZenonT(60) DEF LeaseHolders
  <2> QED BY <1>1, <2>2, <2>3 DEF Charged, Units
<1>5. CASE Receiver BY <1>1, <1>5, IdentitiesReceiver, ChargedReceiver, CallsReceiver
<1>6. CASE Cancel BY <1>2, <1>6 DEF Cancel, receiverVars
<1>7. CASE UNCHANGED vars BY <1>2, <1>7 DEF vars
<1> QED BY <1>3, <1>4, <1>5, <1>6, <1>7, ZenonT(60) DEF Next, Terminated

\* In every behaviour each item is in one place, one after the other per sender, and
\* the budget and the calls balance.
THEOREM ItemInvariant == Spec => []ItemInv
BY InitInv, StepInv, InitItems, StepItems, PTL DEF Spec

\* Whatever error, close, cancellation or drop an item meets, the budget is charged for
\* exactly the items between admission and release: no path leaks a lease or releases
\* one twice, and the saturating release never hides a mismatch.
THEOREM LeasesAccounted == Spec => []LeaseAccounting
<1>1. IInv /\ ItemInv => LeaseAccounting BY DEF IInv, ItemInv, Charged, LeaseAccounting
<1> QED BY <1>1, ChannelInvariant, ItemInvariant, PTL

\* Every call of every sender ends exactly once, given back, delivered or dropped; each
\* sender's items arrive in the order it sent them; and a requester waits only while its
\* entry is queued or being handled.
THEOREM SentOnceInOrder == Spec => []OnceInOrder
<1>1. ASSUME IInv, ItemInv PROVE OnceInOrder
  <2>1. returned \cap (Range(queue) \cup Range(delivered)) = {}
    BY <1>1 DEF ItemInv, Identities, GivenBackOnly
  <2>2. Cardinality(returned) + Len(delivered) + dropped + Len(queue) + Popped
          + Count(PermitHeld \cup {"reserve"}) = Cardinality(Calls)
    <3>1. Count(PermitHeld \cup {"reserve"}) = Flying(pc) BY DEF Count, Flying, InFlight
    <3>2. /\ Cardinality(returned) \in Nat /\ Len(delivered) \in Nat /\ dropped \in Nat
          /\ Len(queue) \in Nat /\ Popped \in Nat /\ Flying(pc) \in Nat
      BY <1>1, CallNumbers DEF IInv, ItemInv, CallBalance
    <3> QED BY <1>1, <3>1, <3>2 DEF ItemInv, CallBalance, Ended, OnTheWay
  <2>3. Ordered(delivered) BY <1>1 DEF ItemInv, Identities, InOrder
  <2>4. WaitsForAnswer BY <1>1 DEF ItemInv, Identities
  <2> QED BY <2>1, <2>2, <2>3, <2>4 DEF OnceInOrder, Ordered, WaitsForAnswer
<1> QED BY <1>1, ChannelInvariant, ItemInvariant, PTL
=============================================================================
