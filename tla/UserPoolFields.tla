--------------------------- MODULE UserPoolFields ---------------------------
(***************************************************************************)
(* Which field of UserPoolSpec each function of sdk.go and delta.go reads, *)
(* sends, overwrites or compares.  Every name below is one `if` block of   *)
(* the code; the sets are in the code's order.  The generated functions    *)
(* are long because each block copies a nested structure field by field;   *)
(* here a field's value is opaque, except that it may hold an integer that *)
(* does not fit the int32 of the service's request (WideVals).             *)
(*                                                                         *)
(* Tags and UserPoolTags are maps of tags and are kept apart: module Tags. *)
(***************************************************************************)
CONSTANTS
  Fields,      \* the fields of UserPoolSpec an instance tells apart
  FieldVals,   \* their values
  WideVals,    \* the values with an integer outside int32
  Unset        \* the nil pointer

SpecFields == {
  "AccountRecoverySetting", "AdminCreateUserConfig", "AliasAttributes",
  "AutoVerifiedAttributes", "DeletionProtection", "DeviceConfiguration",
  "EmailConfiguration", "EmailVerificationMessage",
  "EmailVerificationSubject", "LambdaConfig", "MFAConfiguration", "Name",
  "Policies", "Schema", "SmsAuthenticationMessage", "SmsConfiguration",
  "SmsVerificationMessage", "UserAttributeUpdateSettings",
  "UserPoolAddOns", "UsernameAttributes", "UsernameConfiguration",
  "VerificationMessageTemplate" }

ASSUME FieldAssumption ==
  /\ Fields \subseteq SpecFields
  /\ WideVals \subseteq FieldVals
  /\ Unset \notin FieldVals

Configs == [Fields -> FieldVals \union {Unset}]
NoConfig == [f \in Fields |-> Unset]

-----------------------------------------------------------------------------
(* sdkFind: what DescribeUserPool's response overwrites.  A field the      *)
(* response lacks is set to nil, so each of these is the response's value. *)

FoundAccountToEmail == {
  "AccountRecoverySetting", "AdminCreateUserConfig", "AliasAttributes",
  "AutoVerifiedAttributes", "DeletionProtection", "DeviceConfiguration",
  "EmailConfiguration", "EmailVerificationMessage",
  "EmailVerificationSubject" }

FoundLambdaToPolicies == {
  "LambdaConfig", "MFAConfiguration", "Name", "Policies" }

FoundSmsToVerification == {
  "SmsAuthenticationMessage", "SmsConfiguration", "SmsVerificationMessage",
  "UserAttributeUpdateSettings", "UserPoolAddOns", "UsernameAttributes",
  "UsernameConfiguration", "VerificationMessageTemplate" }

FoundFields ==
  FoundAccountToEmail \union FoundLambdaToPolicies
    \union FoundSmsToVerification

MergeFound(cfg, response) ==
  [f \in Fields |-> IF f \in FoundFields THEN response[f] ELSE cfg[f]]

(* sdkCreate: what CreateUserPool's response overwrites.                   *)

CreatedAccountToEmail == {
  "AccountRecoverySetting", "AdminCreateUserConfig", "AliasAttributes",
  "AutoVerifiedAttributes", "DeletionProtection", "DeviceConfiguration",
  "EmailConfiguration", "EmailVerificationMessage",
  "EmailVerificationSubject" }

CreatedLambdaToPolicies == {
  "LambdaConfig", "MFAConfiguration", "Name", "Policies" }

CreatedSmsToVerification == {
  "SmsAuthenticationMessage", "SmsConfiguration", "SmsVerificationMessage",
  "UserAttributeUpdateSettings", "UserPoolAddOns", "UsernameAttributes",
  "UsernameConfiguration", "VerificationMessageTemplate" }

CreatedFields ==
  CreatedAccountToEmail \union CreatedLambdaToPolicies
    \union CreatedSmsToVerification

MergeCreated(cfg, response) ==
  [f \in Fields |-> IF f \in CreatedFields THEN response[f] ELSE cfg[f]]

-----------------------------------------------------------------------------
(* newCreateRequestPayload                                                 *)

CreateAccountToEmail == {
  "AccountRecoverySetting", "AdminCreateUserConfig", "AliasAttributes",
  "AutoVerifiedAttributes", "DeletionProtection", "DeviceConfiguration",
  "EmailConfiguration", "EmailVerificationMessage",
  "EmailVerificationSubject" }

CreateLambdaToName == {
  "LambdaConfig", "MFAConfiguration", "Policies", "Name" }

CreateSchemaToVerification == {
  "Schema", "SmsAuthenticationMessage", "SmsConfiguration",
  "SmsVerificationMessage", "UserAttributeUpdateSettings",
  "UserPoolAddOns", "UsernameAttributes", "UsernameConfiguration",
  "VerificationMessageTemplate" }

CreateRequestFields ==
  CreateAccountToEmail \union CreateLambdaToName
    \union CreateSchemaToVerification

(* newUpdateRequestPayload: no AliasAttributes, Name, Schema,              *)
(* UsernameAttributes or UsernameConfiguration                             *)

UpdateAccountToEmail == {
  "AccountRecoverySetting", "AdminCreateUserConfig",
  "AutoVerifiedAttributes", "DeletionProtection", "DeviceConfiguration",
  "EmailConfiguration", "EmailVerificationMessage",
  "EmailVerificationSubject" }

UpdateLambdaToVerification == {
  "LambdaConfig", "MFAConfiguration", "Policies",
  "SmsAuthenticationMessage", "SmsConfiguration", "SmsVerificationMessage",
  "UserAttributeUpdateSettings", "UserPoolAddOns",
  "VerificationMessageTemplate" }

UpdateRequestFields == UpdateAccountToEmail \union UpdateLambdaToVerification

\* the fields whose payload narrows an int64 to int32 and refuses what does
\* not fit: Priority, UnusedAccountValidityDays, MinimumLength and
\* TemporaryPasswordValidityDays
Int32Fields == {"AccountRecoverySetting", "AdminCreateUserConfig", "Policies"}

Payload(cfg, sent) ==
  [f \in Fields |-> IF f \in sent THEN cfg[f] ELSE Unset]

\* the payload function returns "field ... is of type int32"
PayloadError(cfg, sent) ==
  \E f \in Fields \cap Int32Fields \cap sent : cfg[f] \in WideVals

-----------------------------------------------------------------------------
(* newResourceDelta                                                        *)

ComparedAccountToEmail == {
  "AccountRecoverySetting", "AdminCreateUserConfig", "AliasAttributes",
  "AutoVerifiedAttributes", "DeletionProtection", "DeviceConfiguration",
  "EmailConfiguration" }

ComparedEmailToLambda == {
  "EmailVerificationMessage", "EmailVerificationSubject", "LambdaConfig" }

ComparedMFAToSms == {
  "MFAConfiguration", "Name", "Policies", "Schema",
  "SmsAuthenticationMessage", "SmsConfiguration", "SmsVerificationMessage" }

ComparedUserToVerification == {
  "UserAttributeUpdateSettings", "UserPoolAddOns", "UsernameAttributes",
  "UsernameConfiguration", "VerificationMessageTemplate" }

ComparedFields ==
  ComparedAccountToEmail \union ComparedEmailToLambda
    \union ComparedMFAToSms \union ComparedUserToVerification

ConfigDiffers(a, b) == \E f \in Fields \cap ComparedFields : a[f] # b[f]

=============================================================================
