----------------------------- MODULE AtomicCall -----------------------------
(***************************************************************************)
(* What a caller of conn.Manager may rely on.  A call changes everything   *)
(* its statement says or nothing, at most once, before it returns; "ok"    *)
(* means everything; "error" leaves open which.                            *)
(***************************************************************************)
VARIABLES
  running,  \* a call is running
  effect,   \* what the call's statement changes
  done,     \* the changes made, in order
  answer    \* "none", "ok" or "error"

vars == <<running, effect, done, answer>>

All == IF effect = {} THEN <<>> ELSE <<effect>>

Init == running = FALSE /\ effect = {} /\ done = <<>> /\ answer = "none"

Start == /\ ~running
         /\ running' = TRUE /\ done' = <<>> /\ answer' = "none"
         /\ effect' \in SUBSET {"row", "schema", "cluster"}

TakeEffect == /\ running /\ done = <<>>
              /\ done' = All
              /\ UNCHANGED <<running, effect, answer>>

\* Taking effect may be the step that answers.
Finish == /\ running
          /\ running' = FALSE
          /\ done' = done \/ (done = <<>> /\ done' = All)
          /\ answer' \in {"ok", "error"}
          /\ answer' = "ok" => done' = All
          /\ UNCHANGED effect

Next == Start \/ TakeEffect \/ Finish
Spec == Init /\ [][Next]_vars
=============================================================================
