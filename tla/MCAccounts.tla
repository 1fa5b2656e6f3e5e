--------------------------------- MODULE MCAccounts ---------------------------------
EXTENDS Accounts, TLC

CONSTANTS u1, u2, u3, e1, e2, i1, i2, r1, r2

MCEmailOf == (i1 :> e1) @@ (i2 :> e2)

\* The operations that compete for the same state, each group from an account that has
\* reached the point where they do.
Plan(ops, enabled, n) == [ops |-> ops, enabled |-> enabled, tokens |-> n]
MCScenarios == {
    Plan([UpdateEmail |-> 2, VerifyEmail |-> 2, LoginOAuth |-> 1], FALSE, 0),
    Plan([Register |-> 1, UpdateEmail |-> 1, VerifyEmail |-> 1], FALSE, 0),
    Plan([RequestPasswordReset |-> 2, ConfirmPasswordReset |-> 2, Login |-> 1], FALSE, 0),
    Plan([RequestPasswordReset |-> 1, ConfirmPasswordReset |-> 1, ChangePassword |-> 2, Login |-> 1,
          Logout |-> 1], FALSE, 1),
    Plan([SetupTOTP |-> 2, EnableTOTP |-> 2, DisableTOTP |-> 1], FALSE, 0),
    Plan([Login |-> 1, LoginNative |-> 1, Complete2FAWeb |-> 2, Complete2FANative |-> 1,
          DisableTOTP |-> 1, SetupTOTP |-> 1], TRUE, 0),
    Plan([Login |-> 1, Complete2FAWeb |-> 1, ChangePassword |-> 1], TRUE, 0),
    Plan([LoginNative |-> 3, CreateToken |-> 1, RevokeToken |-> 1], FALSE, 2),
    Plan([CreateToken |-> 2, LoginNative |-> 1], FALSE, 1),
    Plan([LoginOAuth |-> 2, LoginOAuthNative |-> 2, UpdateEmail |-> 1], FALSE, 0),
    Plan([LoginOAuth |-> 2, DeleteAccount |-> 1, RevokeSession |-> 1, Login |-> 1], FALSE, 0)}

Symmetry == Permutations({u2, u3}) \cup Permutations({r1, r2})
=====================================================================================
