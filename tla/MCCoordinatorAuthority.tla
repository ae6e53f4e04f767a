----------------------- MODULE MCCoordinatorAuthority -----------------------
(* CoordinatorAuthority on two Workers: one with two operation slots, and  *)
(* one that writes in a single slot.                                       *)
EXTENDS CoordinatorAuthority, TLC

CONSTANTS w1, w2, o1, o2

(* The requests of the storage, wallet and bootstrap paths. *)
AllRequests == {<<"read", "none">>, <<"plain", "none">>, <<"write", "none">>,
                <<"write", "lock">>, <<"write", "both">>}

SlotRequests ==
  [w \in Workers |-> [o \in Ops |->
     CASE <<w, o>> = <<w1, o1>> -> AllRequests
       [] <<w, o>> = <<w1, o2>> -> {<<"read", "none">>}
       [] <<w, o>> = <<w2, o1>> -> {<<"write", "none">>}
       [] OTHER -> {}]]
=============================================================================
