--------------------------- MODULE MCPasswordPolicy ---------------------------
(* A TLC instance of PasswordPolicy: int32 is -4..3. *)
EXTENDS PasswordPolicy

Policy(length, flag, days) ==
  [m \in Members |-> CASE m = "MinimumLength" -> length
                       [] m = "RequireNumbers" -> flag
                       [] m = "TemporaryPasswordValidityDays" -> days]

MCDefaults == Policy(2, 1, 1)

\* nothing; partly and fully set; zeros; both ends of int32 and just beyond
MCPolicies ==
  {Nil, Policy(Nil, Nil, Nil), Policy(3, Nil, Nil), Policy(3, 1, 2),
   Policy(Nil, 0, 0), Policy(-4, 0, Nil), Policy(4, Nil, Nil),
   Policy(-5, 1, Nil), Policy(Nil, Nil, -5), Policy(Nil, 1, 4)}

=============================================================================
