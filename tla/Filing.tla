------------------------------- MODULE Filing -------------------------------
(***************************************************************************)
(* What the memory daemon promises whoever files a drawer, with no         *)
(* embedder, sweep or log in sight.  A drawer is stored, then made         *)
(* findable, then acknowledged, in this order though perhaps at once, and  *)
(* none of it is ever taken back.  To be refused, or not answered, says    *)
(* nothing: the daemon may have stored the drawer, or store it later.      *)
(***************************************************************************)
CONSTANTS Drawers

VARIABLES
  stored,     \* drawers in the log
  findable,   \* those that vector search or its lexical union reaches
  acked       \* those some remember has returned

vars == <<stored, findable, acked>>

Init == stored = {} /\ findable = {} /\ acked = {}

Grows(now, next, d) == next = now \/ next = now \cup {d}

Put(d) ==
  /\ stored' = stored \cup {d}
  /\ Grows(findable, findable', d)
  /\ Grows(acked, acked', d)
  /\ acked' \subseteq findable'

Next == \E d \in Drawers : Put(d)

Spec == Init /\ [][Next]_vars
=============================================================================
