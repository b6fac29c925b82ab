-------------------------------- MODULE Home --------------------------------
(***************************************************************************)
(* What a memory home is to be for its daemons, with no sessions, spawn    *)
(* locks, probes or deadlines in sight: it has one holder at a time, which *)
(* puts up a notice, serves, and takes the notice down before it leaves.   *)
(* One that dies leaves its notice behind.                                 *)
(***************************************************************************)
CONSTANTS Daemons

VARIABLES
  holder,     \* {} or {d}: whose home it is
  notice,     \* {} or {d}: who is to be called, perhaps long dead
  serving     \* daemons that answer

vars == <<holder, notice, serving>>

Init == holder = {} /\ notice = {} /\ serving = {}

Take(d) ==
  /\ holder = {} /\ serving = {}
  /\ holder' = {d}
  /\ UNCHANGED <<notice, serving>>

Announce(d) ==
  /\ holder = {d} /\ serving = {}
  /\ notice' = {d}
  /\ UNCHANGED <<holder, serving>>

Serve(d) ==
  /\ holder = {d} /\ notice = {d} /\ serving = {}
  /\ serving' = {d}
  /\ UNCHANGED <<holder, notice>>

Stop(d) ==
  /\ serving = {d}
  /\ serving' = {}
  /\ UNCHANGED <<holder, notice>>

Withdraw(d) ==
  /\ holder = {d} /\ notice = {d} /\ serving = {}
  /\ notice' = {}
  /\ UNCHANGED <<holder, serving>>

\* In good order, or killed, serving or not.
Leave(d) ==
  /\ holder = {d}
  /\ holder' = {} /\ serving' = {}
  /\ UNCHANGED notice

Next ==
  \E d \in Daemons :
    Take(d) \/ Announce(d) \/ Serve(d) \/ Stop(d) \/ Withdraw(d) \/ Leave(d)

Spec == Init /\ [][Next]_vars
=============================================================================
