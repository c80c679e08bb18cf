-------------------------- MODULE MCLeaseLookups --------------------------
(* Instances of LeaseLookups: two services ask for destD, one for destE and *)
(* one for the encrypted service under keyK.                                *)
EXTENDS LeaseLookups, TLC

CONSTANTS r1, r2, r3, r4, destD, destE, keyK

MCTargetOf ==
    r1 :> [key |-> destD, destination |-> destD] @@
    r2 :> [key |-> destD, destination |-> destD] @@
    r3 :> [key |-> destE, destination |-> destE] @@
    r4 :> [key |-> keyK, destination |-> NoDestination]

LeaseSet2(key, published, len) ==
    [kind |-> "LeaseSet2", key |-> key, published |-> published, len |-> len]

MCReplies ==
    {LeaseSet2(destD, 1, 1), LeaseSet2(destD, 2, 2), LeaseSet2(destE, 1, 1),
     [kind |-> "EncryptedLeaseSet", key |-> destD, published |-> 1, len |-> 1],
     [kind |-> "EncryptedLeaseSet", key |-> keyK, published |-> 1, len |-> 1]}
Interchangeable == Permutations({r1, r2})
=============================================================================
