-------------------------- MODULE MCPublishQueue --------------------------
(***************************************************************************)
(* Constants of PublishQueue for TLC.  A migrated account starts with an   *)
(* empty queue or with an item that waits or that is on hold.              *)
(***************************************************************************)
EXTENDS PublishQueue, TLC

CONSTANTS c1, x1

HeldItem == [content |-> c1, at |-> 1, prefix |-> x1, status |-> "held",
             error |-> ""]

MCStartQueues ==
    {[p \in {} |-> HeldItem], 1 :> HeldItem,
     1 :> [HeldItem EXCEPT !.status = "scheduled"]}
=============================================================================
