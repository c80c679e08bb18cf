--------------------------- MODULE TunnelService ---------------------------
(***************************************************************************)
(* What a pair of tunnels promises its two ends, with no hop, cell or      *)
(* fragment in sight: a payload handed in may come out at the far end,     *)
(* whole and unaltered, and at most once.  It may also never come out, and *)
(* payloads may overtake each other.                                       *)
(***************************************************************************)
EXTENDS Sequences, Functions

CONSTANT Payloads

VARIABLES sent,       \* the payloads handed in
          received    \* the payloads that came out, in order

Init == sent = {} /\ received = <<>>

Send(p) ==
  /\ p \notin sent
  /\ sent' = sent \union {p}
  /\ UNCHANGED received

Receive(p) ==
  /\ p \in sent
  /\ p \notin Range(received)
  /\ received' = Append(received, p)
  /\ UNCHANGED sent

Next == \E p \in Payloads : Send(p) \/ Receive(p)

Spec == Init /\ [][Next]_<<sent, received>>
=============================================================================
