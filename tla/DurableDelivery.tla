-------------------------- MODULE DurableDelivery --------------------------
(***************************************************************************)
(* What the durable event path promises its emitters, without saying how:  *)
(* a captured event is owed to every subscriber until it is either         *)
(* delivered -- all of them have handled it -- or given up as a dead       *)
(* letter.  Delivery is at least once, so a subscriber may handle an event *)
(* again at any time, even one that was settled.  A dead letter stays on   *)
(* record; only a delivered event may be forgotten, and a forgotten event  *)
(* may be captured afresh.                                                 *)
(***************************************************************************)
CONSTANTS Events,       \* the stable event ids
          Subscribers   \* the handlers every event is owed to

VARIABLES phase,        \* where each event stands with its emitter
          handled       \* who has handled the current capture of each event

contract == <<phase, handled>>

Phases == {"none", "owed", "delivered", "deadLetter"}

TypeOK == /\ phase \in [Events -> Phases]
          /\ handled \in [Events -> SUBSET Subscribers]

Init == /\ phase = [e \in Events |-> "none"]
        /\ handled = [e \in Events |-> {}]

Capture(e) ==
  /\ phase[e] = "none"
  /\ phase' = [phase EXCEPT ![e] = "owed"]
  /\ handled' = [handled EXCEPT ![e] = {}]

Handle(e, s) ==
  /\ phase[e] # "none"
  /\ handled' = [handled EXCEPT ![e] = @ \cup {s}]
  /\ UNCHANGED phase

Deliver(e) ==
  /\ phase[e] # "none"
  /\ handled[e] = Subscribers
  /\ phase' = [phase EXCEPT ![e] = "delivered"]
  /\ UNCHANGED handled

GiveUp(e) ==
  /\ phase[e] # "none"
  /\ phase' = [phase EXCEPT ![e] = "deadLetter"]
  /\ UNCHANGED handled

Forget(e) ==
  /\ phase[e] = "delivered"
  /\ phase' = [phase EXCEPT ![e] = "none"]
  /\ handled' = [handled EXCEPT ![e] = {}]

Next == \E e \in Events : \/ Capture(e)
                          \/ \E s \in Subscribers : Handle(e, s)
                          \/ Deliver(e)
                          \/ GiveUp(e)
                          \/ Forget(e)

Spec == Init /\ [][Next]_contract
============================================================================
