------------------------------- MODULE Replicas -------------------------------
(***************************************************************************)
(* Several replicas of the controller over one API server and one service. *)
(*                                                                         *)
(* Translated from cmd/controller/main.go, which asks controller-runtime   *)
(* for leader election or not (default: not) and exits when its manager    *)
(* stops, and from the chart, which says what several replicas require.    *)
(* The lease is external (client-go): a replica that cannot renew it exits *)
(* before it expires.  A process that stands still and goes on after its   *)
(* lease has expired is left out.                                          *)
(*                                                                         *)
(* Every replica has a worker of its own.  The worker variables of         *)
(* UserPoolReconcile are those of the replica in front, the workers of the *)
(* others are parked; a replica comes to the front before it takes a step. *)
(***************************************************************************)
EXTENDS UserPoolQuiet

CONSTANTS
  Replicas,
  NoReplica,
  Elects,     \* --enable-leader-election
  MaxDeaths   \* bound on replicas dying

\* values.yaml: leader election is "required for running multiple instances"
ASSUME ReplicasAssumption ==
  /\ NoReplica \notin Replicas
  /\ Elects \in BOOLEAN
  /\ Elects \/ \A r, s \in Replicas : r = s
  /\ MaxDeaths \in Nat

VARIABLES
  leader,   \* the holder of the lease
  working,  \* the replicas whose controllers were started and not stopped
  front,    \* the replica whose worker is in front
  parked,   \* the workers of the others
  deaths

process == <<leader, working, front, parked, deaths>>
replicaVars == <<vars, process>>

\* The worker in front.  While its replica is not working it is at rest, and
\* queued tells what the next one will list.
Worker ==
  [pc |-> pc, mode |-> mode, managed |-> managed, desired |-> desired,
   latest |-> latest, add |-> add, del |-> del, next |-> next,
   outcome |-> outcome, queued |-> queued]

Rested(q) ==
  [pc |-> "idle", mode |-> "sync", managed |-> FALSE, desired |-> NoResource,
   latest |-> NoResource, add |-> NoTags, del |-> {}, next |-> "done",
   outcome |-> "none", queued |-> q]

ReplicaInit ==
  /\ Init
  /\ leader = NoReplica /\ working = {}
  /\ front \in Replicas
  /\ parked = [r \in Replicas |-> Rested(FALSE)]
  /\ deaths = 0

-----------------------------------------------------------------------------

\* faulty, and the default of the flag: nobody asks for the lease
StartsUnasked(r) == TRUE

\* mgr.Start: with leader election, only the holder of the lease goes on
MayStart(r) == Elects => leader = NoReplica

\* faulty: nothing is listed, only new events count
StartsWithoutListing(r) ==
  /\ r \notin working
  /\ MayStart(r)
  /\ leader' = IF Elects THEN r ELSE leader
  /\ working' = working \union {r}
  /\ parked' = [parked EXCEPT ![r] = Rested(FALSE)]
  /\ UNCHANGED <<vars, front, deaths>>

\* A replica starts its controllers, which list every CR.
Starts(r) ==
  /\ r \notin working
  /\ MayStart(r)
  /\ leader' = IF Elects THEN r ELSE leader
  /\ working' = working \union {r}
  /\ parked' = [parked EXCEPT ![r] = Rested(cr.present)]
  /\ UNCHANGED <<vars, front, deaths>>

ComesToFront(r) ==
  /\ r \in working /\ r # front
  /\ front' = r
  /\ parked' = [parked EXCEPT ![front] = Worker]
  /\ pc' = parked[r].pc
  /\ mode' = parked[r].mode /\ managed' = parked[r].managed
  /\ desired' = parked[r].desired /\ latest' = parked[r].latest
  /\ add' = parked[r].add /\ del' = parked[r].del
  /\ next' = parked[r].next /\ outcome' = parked[r].outcome
  /\ queued' = parked[r].queued
  /\ UNCHANGED <<cr, pools, reported, lost, aux, leader, working, deaths>>

\* It crashes, or mgr.Start returns (the lease was not renewed) and main
\* exits.  That costs nothing when the worker has not begun a pass.
Dies ==
  /\ front \in working
  /\ deaths < MaxDeaths /\ deaths' = deaths + 1
  /\ Crash \/ (Worker = Rested(cr.present) /\ UNCHANGED vars)
  /\ working' = working \ {front}
  /\ UNCHANGED <<leader, front, parked>>

\* faulty: main does not exit when the lease was not renewed
ExpiresUnderHolder ==
  /\ leader # NoReplica
  /\ leader' = NoReplica
  /\ UNCHANGED <<vars, working, front, parked, deaths>>

\* nobody renews the lease
Expires ==
  /\ leader # NoReplica /\ leader \notin working
  /\ leader' = NoReplica
  /\ UNCHANGED <<vars, working, front, parked, deaths>>

Works ==
  /\ front \in working
  /\ Controller
  /\ UNCHANGED process

\* every working replica watches the CR
UserActs ==
  /\ User
  /\ parked' = [r \in Replicas |->
                  IF r \in working
                  THEN [parked[r] EXCEPT !.queued = queued'] ELSE parked[r]]
  /\ UNCHANGED <<leader, working, front, deaths>>

ReplicaNext ==
  \/ \E r \in Replicas : Starts(r) \/ ComesToFront(r)
  \/ Dies \/ Expires \/ Works \/ UserActs
  \/ (Service \/ Stopped) /\ UNCHANGED process

ReplicaSpec == ReplicaInit /\ [][ReplicaNext]_replicaVars

\* Somebody always starts, the lease of a dead replica expires, and the
\* worker of a working replica gets its turn and does not stop.
FairReplicaSpec ==
  /\ ReplicaSpec
  /\ WF_replicaVars(\E r \in Replicas : Starts(r))
  /\ WF_replicaVars(\E r \in Replicas : ComesToFront(r))
  /\ WF_replicaVars(Expires)
  /\ WF_replicaVars(Works)

-----------------------------------------------------------------------------

\* However replicas come and go, the CR and its pools see one controller that
\* crashes now and then and always comes back: safety and fairness of
\* UserPoolReconcile, and so everything that follows from them.
ActsAsOne == FairSpec

\* the pools the parked workers have made and still carry
ParkedCarry ==
  {parked[r].latest.id : r \in {s \in working \ {front} :
                 parked[s].pc \in {"tag", "untag", "patch", "status"}}}

\* NoPoolForgotten of all replicas together: no live pool is unknown to the
\* CR and to every replica, unless a fault took its id.
NoReplicaForgets ==
  \A p \in PoolIds :
    Live(p) => p = cr.res.id \/ p \in Carried \union ParkedCarry \union lost

\* What makes it one controller: at most one replica works, the one with the
\* lease, and until it is in front its worker is at rest, like the one left
\* behind.
OneAtWork ==
  /\ \A r, s \in working : r = s
  /\ Elects => working \subseteq {leader}
  /\ front \notin working =>
       /\ Worker = Rested(cr.present)
       /\ \A r \in working : parked[r] = Worker

-----------------------------------------------------------------------------
(* What FairReplicaSpec waits for                                          *)

CanStart == \E r \in Replicas \ working : MayStart(r)
CanComeToFront == \E r \in working : r # front
CanExpire == leader # NoReplica /\ leader \notin working
CanWork == front \in working /\ Busy

\* No replica waits for a step that cannot be taken: to start when nobody
\* holds the lease, to take its turn, to see the lease of a dead one expire,
\* and, with something to do, to go on with its pass (NeverStuck).
ReplicasNeverStuck ==
  /\ CanStart => ENABLED <<\E r \in Replicas : Starts(r)>>_replicaVars
  /\ CanComeToFront =>
       ENABLED <<\E r \in Replicas : ComesToFront(r)>>_replicaVars
  /\ CanExpire => ENABLED <<Expires>>_replicaVars
  /\ CanWork => ENABLED <<Works>>_replicaVars

\* No replica that can take a step waits for ever: the fairness of
\* FairReplicaSpec, without ENABLED.
ReplicasGoOn ==
  /\ []<>~CanStart
       \/ []<><<\E r \in Replicas : Starts(r)>>_replicaVars
  /\ []<>~CanComeToFront
       \/ []<><<\E r \in Replicas : ComesToFront(r)>>_replicaVars
  /\ []<>~CanExpire \/ []<><<Expires>>_replicaVars
  /\ []<>~CanWork \/ []<><<Works>>_replicaVars

\* Replicas die a number of times, then no more.
DeathsEnd == <>[][UNCHANGED deaths]_replicaVars

=============================================================================
