------------------------------ MODULE MCReplicas ------------------------------
(* Two replicas over one CR: a TLC instance of Replicas. *)
EXTENDS Replicas, TLC

CONSTANTS ctl, v1, on, off

MCTags(v) == [k \in {ctl} |-> v]
MCSettings(v) == [f \in {"DeletionProtection"} |-> v]

MCDefaultTags == MCTags(v1)
MCDefaults == MCSettings(off)
MCUserSpecs ==
  {[cfg |-> MCSettings(v), tags |-> MCTags(Absent),
    userPoolTags |-> MCTags(Absent)] : v \in {Unset, on}}

=============================================================================
