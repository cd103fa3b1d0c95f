----------------------------- MODULE NonceCancel -----------------------------
(***************************************************************************)
(* The allocator with request contexts.  A submitter blocked in           *)
(* assignAndLockNonce on another's lockedNonce channel may have its       *)
(* context cancelled.  nonces.go waits with a bare <-locked.unlocked and   *)
(* then loops, so the cancellation changes none of its steps: the model   *)
(* only records it, and a context lives until the request returns.        *)
(***************************************************************************)
EXTENDS NonceAllocator

VARIABLE
  cancelled   \* submitters whose request context is cancelled

cvars == <<vars, cancelled>>

CInit == Init /\ cancelled = {}

\* The caller cancels the context of a request that is waiting.
Cancel(a) ==
  /\ npc[a] = "wait" /\ a \notin cancelled
  /\ cancelled' = cancelled \cup {a}
  /\ UNCHANGED vars

\* Every allocator step as before; a request that returns drops its context.
CNext ==
  \/ \E a \in Submitters : Cancel(a)
  \/ Next /\ cancelled' = {a \in cancelled : npc'[a] # "idle"}

CSpec == CInit /\ [][CNext]_cvars

(* Spec §5: a waiter whose context is cancelled abandons cleanly and never *)
(* touches the registry; in particular it never comes to own the signer's *)
(* lockedNonce (assignAndLockNonce's wait on locked.unlocked, retry loop). *)
CancelledWaiterAbandons ==
  \A a \in cancelled : npc[a] \notin Holding
====
