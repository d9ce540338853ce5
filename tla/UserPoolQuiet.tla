---------------------------- MODULE UserPoolQuiet ----------------------------
(***************************************************************************)
(* What a pass of UserPoolReconcile achieves when nobody disturbs it: no   *)
(* user, no fault, no drift, so every step is one of the controller's.     *)
(* SyncOnTrack and DeleteOnTrack say, location by location, what the       *)
(* worker has still to do and what it has done; Converges and DeletionEnds *)
(* follow from them once the controller keeps working.                     *)
(***************************************************************************)
EXTENDS UserPoolReconcile

\* Nobody but the controller moves: users and faults are counted.
Quiet == UNCHANGED <<faults, edits>>

\* The settings in the CR are those of pool p.
SettingsOf(p) ==
  \A f \in Fields \cap UpdateRequestFields :
    cr.res.cfg[f] # Unset => pools[p].cfg[f] = cr.res.cfg[f]

\* The pool is as the CR says.
InLine == Live(cr.res.id) /\ TagsInLine /\ SettingsOf(cr.res.id)

-----------------------------------------------------------------------------
(* A sync                                                                  *)

\* desired still is the CR with the controller's tags.
CopyIsWhole ==
  /\ mode = "sync" /\ outcome = "none"
  /\ pc # "status" => desired.cfg = cr.res.cfg
  /\ desired.userPoolTags = NoTags

\* The calls of SyncTags still to be made change each tag to the wanted value
\* or leave it alone, and they leave none out.
PlanHolds ==
  LET held == pools[desired.id].tags
      adds == IF pc = "tag" THEN KeysOf(add) ELSE {}
      dels == IF pc \in {"tag", "untag"} THEN del ELSE {}
  IN /\ (adds \union dels) \cap AwsKeys = {}
     /\ \A k \in adds : add[k] = WantedTag(k)
     /\ \A k \in dels : WantedTag(k) = Absent
     /\ \A k \in Keys \ (AwsKeys \union adds \union dels) :
          held[k] = WantedTag(k)

\* A new pool on its way into the CR, with the settings the CR has, or is
\* about to take over from the response.
Brings(p) ==
  /\ ~Live(cr.res.id) /\ Live(p)
  /\ pc = "patch" => /\ latest.cfg = MergeCreated(desired.cfg, pools[p].cfg)
                     /\ pools[p].cfg = NewPool(desired).cfg
                     /\ latest.userPoolTags = NoTags
  /\ pc = "status" => SettingsOf(p)

SyncOnTrack ==
  /\ Acceptable
  /\ pc # "idle" => CopyIsWhole
  /\ pc \notin {"delete", "unmanage"}
  /\ pc \in {"describe", "listtags", "manage", "create"} =>
       desired.tags = EnsureTags(cr.res.tags)
  /\ pc = "listtags" =>
       /\ Live(desired.id)
       /\ latest.cfg = MergeFound(desired.cfg, pools[desired.id].cfg)
  /\ pc \in {"tag", "untag", "update"} =>
       /\ Live(desired.id) /\ next \in {"update", "done"}
       /\ PlanHolds
       /\ next = "done" => pc # "update" /\ SettingsOf(desired.id)
  /\ pc \in {"patch", "status"} =>
       \/ Brings(latest.id)
       \/ /\ InLine
          /\ pc = "patch" => /\ latest.cfg = desired.cfg
                             /\ latest.userPoolTags = NoTags

-----------------------------------------------------------------------------
(* A deletion                                                              *)

DeleteOnTrack ==
  /\ cr.present /\ cr.deleting
  /\ pc # "idle" => mode = "delete" /\ ~queued
  /\ pc \in {"idle", "describe", "listtags", "delete", "unmanage", "status"}
  /\ pc = "listtags" => Live(desired.id)
  /\ pc = "delete" => Live(latest.id)
  /\ pc = "status" => /\ Live(cr.res.id) /\ Protected(cr.res.id)
                      /\ TerminalAWSError(outcome)

-----------------------------------------------------------------------------

\* A pass that nobody disturbs does its job, whatever state it finds.  A sync
\* of a CR the service can accept ends without an error, with the pool in line
\* or with a new pool that has the settings; while it is at work it spoils
\* nothing that is in line already.  A deletion ends with the CR gone, unless
\* the pool is protected.
UndisturbedPass ==
  [][Quiet => /\ SyncOnTrack => SyncOnTrack' /\ (InLine => InLine')
              /\ DeleteOnTrack => DeleteOnTrack' \/ ~cr'.present]_vars

\* How many calls a pass has still to make, at most.
CallsLeft ==
  [idle |-> 0, status |-> 1, unmanage |-> 1, patch |-> 2, delete |-> 2,
   update |-> 3, create |-> 3, untag |-> 4, manage |-> 4, tag |-> 5,
   listtags |-> 6, describe |-> 7]

\* No pass turns in a circle: whatever moves around it, each of its calls
\* brings it nearer to its end, so it makes seven at most.
PassesAdvance ==
  [][pc # "idle" /\ pc' # pc => CallsLeft[pc'] < CallsLeft[pc]]_vars

-----------------------------------------------------------------------------
(* Passes that follow each other                                           *)

\* A deletion nobody works on any more was refused by the service in its last
\* pass: the pool is protected, or a call was answered with an
\* InvalidParameterException (onError's ackerr.Terminal).  No outage, lost
\* answer, crash, failed patch or pool that went away between two calls ends
\* the retries, and a sync that fails for good while the user deletes the CR
\* does not swallow the request for the deletion.
RefusalsAreEarned ==
  cr.deleting /\ ~queued =>
    /\ pc # "idle" =>
         /\ mode = "delete"
         /\ pc \in {"describe", "listtags", "delete", "unmanage", "status"}
         /\ pc = "status" => latest.id = desired.id
    /\ pc = "idle" \/ (pc = "status" /\ TerminalAWSError(outcome)) =>
         KeptByRefusal

\* There is something to do for the worker.
Busy == pc # "idle" \/ (queued /\ cr.present)

\* The worker never has something to do that it cannot do: whatever a call
\* comes back with, the code has a branch for it.  And it does nothing else.
NeverStuck == Busy <=> ENABLED <<Controller>>_vars

\* The worker does not stop while there is something to do.
KeepsWorking == []<>~Busy \/ []<><<Controller>>_vars

\* Users, service and faults come to rest.
ComesToRest == <>[][Quiet]_vars

=============================================================================
