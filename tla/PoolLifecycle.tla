---------------------------- MODULE PoolLifecycle -----------------------------
(***************************************************************************)
(* What the controller promises about one custom resource (CR) and the     *)
(* pools it makes, without saying how: no calls, no copies, no passes.     *)
(*                                                                         *)
(* The CR is there or not, under the finalizer or not, on its way out or   *)
(* not.  Every pool id plays one role: nobody has used it ("fresh"); its   *)
(* pool was made and is on its way into the CR ("coming"); it is the pool  *)
(* of the CR ("own"); it lives on and no CR knows of it ("orphan"); its    *)
(* pool is gone.  A mishap is anything the environment may do to the       *)
(* controller; the promise is what it may cost: one pool at a time, an     *)
(* orphan only by a mishap, and no CR let go before its pool.              *)
(***************************************************************************)
EXTENDS Naturals, FiniteSets

CONSTANT PoolIds

VARIABLES
  object,   \* the CR
  role,     \* what each pool id stands for
  mishaps   \* how many mishaps there have been

lifecycle == <<object, role, mishaps>>

Objects == {"none", "free", "held", "leaving"}
Roles == {"fresh", "coming", "own", "orphan", "gone"}

LifecycleTypeOK ==
  /\ object \in Objects
  /\ role \in [PoolIds -> Roles]
  /\ mishaps \in Nat

InRole(r) == {p \in PoolIds : role[p] = r}

\* the pools that depend on the CR
Depending == InRole("coming") \union InRole("own")

Init ==
  /\ object = "none"
  /\ role = [p \in PoolIds |-> "fresh"]
  /\ mishaps = 0

Mishap == mishaps' = mishaps + 1
NoMishap == UNCHANGED mishaps

Turns(p, old, new) ==
  /\ role[p] = old
  /\ role' = [role EXCEPT ![p] = new]

-----------------------------------------------------------------------------
(* The CR                                                                  *)

Appears ==
  /\ object = "none" /\ object' = "free"
  /\ NoMishap /\ UNCHANGED role

TakenUnderControl ==
  /\ object = "free" /\ object' = "held"
  /\ NoMishap /\ UNCHANGED role

\* without a finalizer the CR goes at once, with one it waits
DeletionAsked ==
  /\ \/ object = "free" /\ object' = "none"
     \/ object = "held" /\ object' = "leaving"
  /\ NoMishap /\ UNCHANGED role

\* the CR is let go when nothing depends on it any more
Released ==
  /\ object = "leaving" /\ object' = "none"
  /\ Depending = {}
  /\ NoMishap /\ UNCHANGED role

-----------------------------------------------------------------------------
(* The pools                                                               *)

\* A pool is made under the finalizer and when no other one depends on the
\* CR.  By a mishap nobody learns of it.
Made(p) ==
  /\ object \in {"held", "leaving"}
  /\ Depending = {}
  /\ \/ Turns(p, "fresh", "coming") /\ NoMishap
     \/ Turns(p, "fresh", "orphan") /\ Mishap
  /\ UNCHANGED object

Recorded(p) ==
  /\ Turns(p, "coming", "own")
  /\ NoMishap /\ UNCHANGED object

\* its id is lost on the way
Orphaned(p) ==
  /\ Turns(p, "coming", "orphan")
  /\ Mishap /\ UNCHANGED object

\* The controller deletes the pool of a CR on its way out, and nothing else;
\* it may not hear of its success.
Deleted(p) ==
  /\ object = "leaving"
  /\ Turns(p, "own", "gone")
  /\ NoMishap \/ Mishap
  /\ UNCHANGED object

\* somebody else deletes a pool, whatever it is to the CR
RemovedByOthers(p) ==
  /\ role[p] \in {"coming", "own", "orphan"}
  /\ role' = [role EXCEPT ![p] = "gone"]
  /\ Mishap /\ UNCHANGED object

\* a mishap that costs nothing
Harmless == Mishap /\ UNCHANGED <<object, role>>

Next ==
  \/ Appears \/ TakenUnderControl \/ DeletionAsked \/ Released \/ Harmless
  \/ \E p \in PoolIds : \/ Made(p) \/ Recorded(p) \/ Orphaned(p)
                        \/ Deleted(p) \/ RemovedByOthers(p)

Spec == Init /\ [][Next]_lifecycle

-----------------------------------------------------------------------------

\* At most one pool depends on the CR, and only under the finalizer.
OnePool ==
  /\ \A p, q \in Depending : p = q
  /\ Depending # {} => object \in {"held", "leaving"}

\* Every orphan was paid for by a mishap of its own.
OrphansArePaidFor ==
  /\ IsFiniteSet(InRole("orphan"))
  /\ Cardinality(InRole("orphan")) <= mishaps

=============================================================================
