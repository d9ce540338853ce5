----------------------------- MODULE Conditions -----------------------------
(***************************************************************************)
(* updateConditions, onError and onSuccess (sdk.go, manager.go): how the   *)
(* outcome of a call becomes the Terminal and Recoverable conditions of a  *)
(* custom resource.  A condition is absent from Status.Conditions, or      *)
(* there with status True or False; its message is not modelled.           *)
(***************************************************************************)

ConditionTypes == {"Terminal", "Recoverable"}
Statuses == {"absent", "True", "False"}
ConditionSets == [ConditionTypes -> Statuses]
NoConditions == [t \in ConditionTypes |-> "absent"]

\* The errors the paths of the controller return; "none" is success.
\* "other" is any other API error, "int32" a payload that does not fit.
Errors == {"InvalidParameterException", "ResourceNotFoundException",
           "other", "int32"}
Outcomes == Errors \union {"none"}

\* faulty: an error nobody listed is a terminal one
TerminalByDefault(err) == err \in {"InvalidParameterException", "other"}

TerminalAWSError(err) == err = "InvalidParameterException"

\* faulty: the third status Kubernetes has
ClearedToUnknown(status) == IF status = "absent" THEN "absent" ELSE "Unknown"

\* a condition that is there is set to False; an absent one stays absent
Cleared(status) == IF status = "absent" THEN "absent" ELSE "False"

\* faulty: the Terminal condition stays when the error goes away
UpdateConditionsSticky(conds, err) ==
  [t \in ConditionTypes |->
     CASE t = "Terminal" /\ TerminalAWSError(err) -> "True"
       [] t = "Recoverable" /\ ~TerminalAWSError(err) /\ err # "none" -> "True"
       [] OTHER -> conds[t]]

\* The terminal branch leaves the Recoverable condition alone; the other one
\* clears Terminal and sets or clears Recoverable.
UpdateConditions(conds, err) ==
  IF TerminalAWSError(err)
  THEN [conds EXCEPT !["Terminal"] = "True"]
  ELSE [t \in ConditionTypes |->
          IF t = "Recoverable" /\ err # "none"
          THEN "True" ELSE Cleared(conds[t])]

OnError(res, err) == [res EXCEPT !.conds = UpdateConditions(res.conds, err)]
OnSuccess(res) == [res EXCEPT !.conds = UpdateConditions(res.conds, "none")]

=============================================================================
