--------------------------- MODULE MCSsu2Service ---------------------------
(* Small instances of Ssu2Service for TLC.  Two addresses share a subnet and
   have an IP each; the ceilings are one below what the instance can fill. *)
EXTENDS Ssu2Service, TLC

CONSTANTS a1, a2, ip1, ip2, net, p1, p2

\* One peer can be dialled at either address; both may dial in.
OnePublished == {p1} \X {a1, a2}

TwoScopes == (a1 :> {ip1, net}) @@ (a2 :> {ip2, net})
PendingCeilings == (ip1 :> 1) @@ (ip2 :> 1) @@ (net :> 2)
ActiveCeilings == (ip1 :> 1) @@ (ip2 :> 1) @@ (net :> 2)

=============================================================================
