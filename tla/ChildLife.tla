----------------------------- MODULE ChildLife -----------------------------
(***************************************************************************)
(* What the sibling pool promises about its children: the abstract         *)
(* specification that PoolRouter implements.  There are no entries, locks, *)
(* timeouts or sweeps here, only who has which child in hand and for what. *)
(* A child belongs to one goroutine at a time; it is warm while none has   *)
(* it; it is called only while warm, and closed once, by the goroutine     *)
(* that took it out of use.                                                *)
(***************************************************************************)
CONSTANTS Callers, Drainers, Children, NoChild

VARIABLES
  alive,   \* children started and not yet closed
  claim,   \* actor -> the child it has in hand, or NoChild
  use      \* what for: "none", "start", "call", "close"

vars == <<alive, claim, use>>
Actors == Callers \cup Drainers

Init == /\ alive = {}
        /\ claim = [a \in Actors |-> NoChild]
        /\ use = [a \in Actors |-> "none"]

Warm(c) == c \in alive /\ \A a \in Actors : claim[a] # c
Has(a, c, what) == claim[a] = c /\ use[a] = what
Takes(a, c, what) == /\ use[a] = "none"
                     /\ claim' = [claim EXCEPT ![a] = c]
                     /\ use' = [use EXCEPT ![a] = what]
Lets(a) == /\ claim' = [claim EXCEPT ![a] = NoChild]
           /\ use' = [use EXCEPT ![a] = "none"]

Start(d, c) == c \notin alive /\ alive' = alive \cup {c} /\ Takes(d, c, "start")

\* The handshake succeeded: the first call follows at once.
Ready(d, c) == /\ Has(d, c, "start")
               /\ use' = [use EXCEPT ![d] = "call"]
               /\ UNCHANGED <<alive, claim>>

Call(d, c) == Warm(c) /\ Takes(d, c, "call") /\ UNCHANGED alive

Answer(d, c) == Has(d, c, "call") /\ Lets(d) /\ UNCHANGED alive

\* A transport error: no later call meets this child.
Fail(d, c) == /\ Has(d, c, "call")
              /\ use' = [use EXCEPT ![d] = "close"]
              /\ UNCHANGED <<alive, claim>>

\* Only a warm child is taken from the pool, never one that is being called.
Retire(x, c) == Warm(c) /\ Takes(x, c, "close") /\ UNCHANGED alive

\* A failed start or a retired child: closed by whoever has it.
Close(a, c) == /\ Has(a, c, "start") \/ Has(a, c, "close")
               /\ alive' = alive \ {c}
               /\ Lets(a)

Next == \E c \in Children :
  \/ \E d \in Callers : \/ Start(d, c) \/ Ready(d, c) \/ Call(d, c)
                        \/ Answer(d, c) \/ Fail(d, c)
  \/ \E x \in Drainers : Retire(x, c)
  \/ \E a \in Actors : Close(a, c)

Spec == Init /\ [][Next]_vars
=============================================================================
