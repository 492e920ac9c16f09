---------------------------- MODULE ParallelFor ----------------------------
(***************************************************************************)
(* The contract of cart/include/cart/worker_pool.h, without threads: a loop *)
(* over a set of items that somebody else executes, in any order and any    *)
(* grouping, and that ends only when every item is done.                    *)
(***************************************************************************)
EXTENDS Integers

CONSTANT Items

VARIABLES
  phase,  \* "off", "idle" or "busy"
  todo,   \* the items the running loop still has to do
  loops   \* how many loops were begun

loop_vars == <<phase, todo, loops>>

LoopInit == phase = "off" /\ todo = {} /\ loops = 0

\* The pool becomes usable, once and before any loop.
Open == phase = "off" /\ loops = 0 /\ phase' = "idle" /\ UNCHANGED <<todo, loops>>

Begin ==
  /\ phase = "idle"
  /\ phase' = "busy"
  /\ todo' = Items
  /\ loops' = loops + 1

\* Some items are done, and stay done.
Do ==
  /\ phase = "busy"
  /\ todo' \subseteq todo
  /\ UNCHANGED <<phase, loops>>

End ==
  /\ phase = "busy" /\ todo = {}
  /\ phase' = "idle"
  /\ UNCHANGED <<todo, loops>>

\* A loop the caller runs by itself is over when it returns.
RunInline ==
  /\ phase = "idle" /\ todo = {}
  /\ loops' = loops + 1
  /\ UNCHANGED <<phase, todo>>

\* The pool is closed between two loops.
Close ==
  /\ phase = "idle" /\ todo = {}
  /\ phase' = "off"
  /\ UNCHANGED <<todo, loops>>

Spec == LoopInit /\ [][Open \/ Begin \/ Do \/ End \/ RunInline \/ Close]_loop_vars
=============================================================================
