----------------------------- MODULE ObjectLife -----------------------------
(* What two threads promise about an object they share: it is created,       *)
(* perhaps mapped, retired and deleted, in this order; work may be asked for *)
(* it while it is mapped; only who serves that work may retire it from then  *)
(* on, and what is asked for is never deleted before it was served.          *)
CONSTANT Objects

VARIABLES
  stage,   \* where the object is in its life
  pending  \* the objects that work has been asked for

lifeVars == <<stage, pending>>

Move(o, from, to) == stage[o] = from /\ stage' = [stage EXCEPT ![o] = to]

LifeInit ==
  /\ stage = [o \in Objects |-> "none"]
  /\ pending = {}

Create(o) == Move(o, "none", "tracked") /\ UNCHANGED pending
Put(o) == Move(o, "tracked", "mapped") /\ UNCHANGED pending
Delete(o) == Move(o, "retired", "deleted") /\ o \notin pending /\ UNCHANGED pending

\* Those never mapped may be given up together.
GiveUp ==
  /\ \E S \in SUBSET {o \in Objects : stage[o] = "tracked"} :
       stage' = [o \in Objects |-> IF o \in S THEN "retired" ELSE stage[o]]
  /\ UNCHANGED pending

Ask(o) == stage[o] = "mapped" /\ pending' = pending \cup {o} /\ UNCHANGED stage
Serve(o) == o \in pending /\ pending' = pending \ {o} /\ UNCHANGED stage
ServeAndRetire(o) == o \in pending /\ pending' = pending \ {o} /\ Move(o, "mapped", "retired")

LifeNext ==
  \/ GiveUp
  \/ \E o \in Objects :
       Create(o) \/ Put(o) \/ Delete(o) \/ Ask(o) \/ Serve(o) \/ ServeAndRetire(o)

LifeSpec == LifeInit /\ [][LifeNext]_lifeVars
=============================================================================
