---------------------------- MODULE MCTunnelPath ----------------------------
(***************************************************************************)
(* Two messages, of two and of three cells.  The inbound gateway's id       *)
(* sequence starts at the largest id, so it wraps.  The foreign cells      *)
(* share one id: two first fragments that disagree and a last fragment, the *)
(* piece between missing, so that they conflict, grow too large, and never *)
(* make a message.                                                         *)
(***************************************************************************)
EXTENDS TunnelPath

CONSTANTS m1, m2, foreign

MCMessages == {m1, m2}
MCLengths == (m1 :> <<2, 1>>) @@ (m2 :> <<1, 1, 1>>)
MCRandomId == (m1 :> 1) @@ (m2 :> 2)

ForeignCell(seq, part, last, len) ==
  [tunnel |-> "receiver", nonce |-> <<"foreign", seq, part>>,
   frag |-> [kind |-> IF seq = 0 THEN "first" ELSE "follow", id |-> 3,
             seq |-> seq, last |-> last,
             body |-> [of |-> foreign, part |-> part, len |-> len],
             delivery |-> IF seq = 0 THEN "Local" ELSE NoDelivery]]

MCForeign == {ForeignCell(0, 1, FALSE, 1), ForeignCell(0, 2, FALSE, 1),
              ForeignCell(2, 3, TRUE, 3)}
=============================================================================
