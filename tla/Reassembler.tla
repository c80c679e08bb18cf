---------------------------- MODULE Reassembler ----------------------------
(***************************************************************************)
(* The bounded fragment reassembler that ends every tunnel                 *)
(* (i2pr-tunnel/src/fragment.rs), as operators on a reassembler value.     *)
(*                                                                         *)
(* A body is [of, part, len]: which message it is a piece of, which piece, *)
(* and how many bytes.  A fragment is [kind, id, seq, last, body,          *)
(* delivery] with kind "unfragmented", "first" or "follow"; only a first   *)
(* or an unfragmented one carries a delivery instruction.  A reassembler   *)
(* belongs to one tunnel, so the tunnel id of its keys is left out.        *)
(***************************************************************************)
EXTENDS Integers, FiniteSets, FiniteSetsExt, Functions, TLC

CONSTANTS Capacity,           \* partial messages held at once
          AggregateMax,       \* bytes held over all partial messages
          MessageMax,         \* bytes held for one message
          ReassemblyExpiry    \* age at which a partial message is dropped

NoDelivery == "no delivery"

EmptyReassembler == [partials |-> <<>>, bytes |-> 0]

NewPartial(now) ==
  [total |-> 0, received |-> <<>>, lastFlag |-> <<>>, bytes |-> 0,
   maxSeq |-> 0, touched |-> now, delivery |-> NoDelivery]

(***************************************************************************)
(* What a fragment is to a partial message: an exact duplicate, a conflict *)
(* (same place, other body or metadata, or a last one below a place        *)
(* already seen), or new.                                                  *)
(***************************************************************************)
Classify(p, f) ==
  IF f.seq \in DOMAIN p.received
  THEN IF /\ p.received[f.seq] = f.body
          /\ f.kind = "first" => p.delivery = f.delivery
          /\ f.kind = "follow" => p.lastFlag[f.seq] = f.last
       THEN "duplicate" ELSE "conflict"
  ELSE IF f.last /\ f.seq < p.maxSeq THEN "conflict" ELSE "new"

Apply(p, f, now) ==
  [total    |-> IF f.last THEN f.seq + 1 ELSE p.total,
   received |-> (f.seq :> f.body) @@ p.received,
   lastFlag |-> IF f.kind = "follow" THEN (f.seq :> f.last) @@ p.lastFlag
                                     ELSE p.lastFlag,
   bytes    |-> p.bytes + f.body.len,
   maxSeq   |-> Max({p.maxSeq, f.seq}),
   touched  |-> now,
   delivery |-> IF f.kind = "first" THEN f.delivery ELSE p.delivery]

\* Mutant: the last fragment's index is taken for one more than the count.
IsComplete_OffByOne(p) == p.total # 0 /\ Cardinality(DOMAIN p.received) > p.total

IsComplete(p) == p.total # 0 /\ Cardinality(DOMAIN p.received) = p.total

\* The pieces 0 .. total-1 must all be there for the bytes to be joined.
Assembles(p) == IsComplete(p) /\ 0 .. p.total - 1 \subseteq DOMAIN p.received

Without(r, ids) ==
  [partials |-> Restrict(r.partials, DOMAIN r.partials \ ids),
   bytes    |-> r.bytes - MapThenSumSet(LAMBDA k: r.partials[k].bytes,
                                        ids \cap DOMAIN r.partials)]

\* Mutant: an expired message keeps the bytes it was charged.
ExpireDue_NoRefund(r, now) ==
  [Without(r, {k \in DOMAIN r.partials :
                 now - r.partials[k].touched >= ReassemblyExpiry})
     EXCEPT !.bytes = r.bytes]

ExpireDue(r, now) ==
  Without(r, {k \in DOMAIN r.partials :
                now - r.partials[k].touched >= ReassemblyExpiry})

Failed(r) == [state |-> r, ok |-> FALSE, out |-> {}]
Held(r) == [state |-> r, ok |-> TRUE, out |-> {}]
Completed(r, message, delivery) ==
  [state |-> r, ok |-> TRUE,
   out |-> {[message |-> message, delivery |-> delivery]}]

(***************************************************************************)
(* A fragment classified as new: charged, applied, and, when it was the    *)
(* missing one, the whole message leaves with its first fragment's         *)
(* delivery instruction and its bytes are refunded.  A message that grows  *)
(* past MessageMax is dropped whole.                                       *)
(***************************************************************************)
Admit(r, p, f, now) ==
  LET q == Apply(p, f, now)
      s == [partials |-> (f.id :> q) @@ r.partials,
            bytes    |-> r.bytes + f.body.len]
  IN CASE q.bytes > MessageMax -> Failed(Without(r, {f.id}))
       [] Assembles(q) -> Completed(Without(s, {f.id}),
                                    Restrict(q.received, 0 .. q.total - 1),
                                    q.delivery)
       [] OTHER -> Held(s)

InsertWithDelivery(r, f, now) ==
  IF f.kind = "unfragmented" THEN Completed(r, f.seq :> f.body, f.delivery)
  ELSE LET s == ExpireDue(r, now)
           known == f.id \in DOMAIN s.partials
           p == IF known THEN s.partials[f.id] ELSE NewPartial(now)
           class == Classify(p, f)
       IN CASE f.id = 0 -> Failed(r)
            [] f.id # 0 /\ ~known /\ Cardinality(DOMAIN s.partials) >= Capacity
                 -> Failed(s)
            [] OTHER ->
                 CASE class = "conflict" -> Failed(Without(s, {f.id}))
                   [] class = "duplicate" -> Held(s)
                   [] class = "new" ->
                        IF s.bytes + f.body.len > AggregateMax
                        THEN Failed(s) ELSE Admit(s, p, f, now)
=============================================================================
