---------------------------- MODULE MCNonceCancel ----------------------------
(* The allocator's small sets, for the cancellation run. *)
EXTENDS NonceCancel, MCNonceAllocator
====
