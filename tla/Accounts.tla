----------------------------------- MODULE Accounts -----------------------------------
(***************************************************************************)
(* Accounts and the ways into them: passwords and social identities,       *)
(* browser sessions, device and personal access tokens, two-factor         *)
(* enrolment with its recovery codes, and the letters that verify an       *)
(* address or reset a password.                                            *)
(*                                                                         *)
(* A request is a handler running among others.  Each of its steps is one  *)
(* statement, or one transaction that locks the row it decides on; between *)
(* two steps anything may happen.  Login challenges and exchange codes are *)
(* held in the process's memory and do not survive a restart.              *)
(*                                                                         *)
(* A password is the number of times it was changed, a two-factor secret   *)
(* and a set of recovery codes are the order in which they were generated, *)
(* and a code "of the authenticator" is right when there is a secret.      *)
(***************************************************************************)
EXTENDS Integers, Sequences, FiniteSets, Bags

CONSTANTS
    Users,              \* accounts that may come to exist
    Owner,              \* the one that exists at the start
    Emails,
    OwnersEmail,
    Identities,         \* users of the sign-in provider
    EmailOf,            \* [Identities -> Emails]: the address the provider vouches for
    Reqs,               \* requests the server handles at a time
    MaxPATsPerUser,
    RecoveryCodeCount,
    Scenarios,          \* bound: [ops: how often each operation is called, enabled, tokens: at the start]
    MaxFaults,          \* bound: statements that fail and restarts
    MaxLapses,          \* bound: letters, sessions, challenges and codes that expire
    None

Operations == {"Register", "Login", "LoginNative", "Complete2FAWeb", "Complete2FANative",
               "LoginOAuth", "LoginOAuthNative", "VerifyEmail", "RequestPasswordReset",
               "ConfirmPasswordReset", "ChangePassword", "UpdateEmail", "CreateToken", "RevokeToken",
               "RevokeSession", "Logout", "SetupTOTP", "EnableTOTP", "DisableTOTP", "DeleteAccount"}

ASSUME AccountsAssumption ==
    /\ Owner \in Users /\ OwnersEmail \in Emails /\ EmailOf \in [Identities -> Emails]
    /\ MaxPATsPerUser \in Nat \ {0} /\ RecoveryCodeCount \in Nat \ {0}
    /\ MaxFaults \in Nat /\ MaxLapses \in Nat
    /\ None \notin Users \cup Emails \cup Identities
    /\ \A s \in Scenarios : DOMAIN s.ops \subseteq Operations /\ s.enabled \in BOOLEAN
                              /\ s.tokens \in 0 .. MaxPATsPerUser

VARIABLES
    users,              \* users
    codes,              \* two_factor_recovery_codes: the unused ones
    letters,            \* email_tokens
    sessions,           \* auth_sessions
    tokens,             \* api_tokens
    challenges,         \* twoFactorStore
    stash,              \* nativeCodeStore: the tokens waiting behind an exchange code
    req,                \* the requests under way
    left,               \* bound: operations still to come
    faults, lapses,     \* bounds
    past                \* history: what the properties are about

db   == <<users, codes, letters, sessions, tokens>>
mem  == <<challenges, stash>>
vars == <<db, mem, req, left, faults, lapses, past>>

-------------------------------------------------------------------------------
Account   == [state : {"none", "live", "deleted"}, email : Emails \cup {None}, verified : BOOLEAN,
              pw : Nat, secret : Nat, enabled : BOOLEAN, sub : Identities \cup {None}]
Letter    == [u : Users, kind : {"verify", "reset"}, to : Emails, late : BOOLEAN,
              state : {"valid", "used", "deleted", "expired"}]
Session   == [u : Users, state : {"live", "revoked", "expired"},
              proven : Nat, opened : Nat]
Token     == [u : Users, kind : {"pat", "device"}, excused : BOOLEAN, active : BOOLEAN]
Challenge == [u : Users, native : BOOLEAN, open : BOOLEAN, pw : Nat]
Pcs       == {"", "authed", "session", "clear", "mail", "consume", "password", "count", "list", "prune",
              "token", "stash", "setup", "enable", "disable", "code", "recover", "address", "link",
              "create", "reread"}
Request   == [op : Operations \cup {"idle"}, pc : Pcs, u : Users \cup {None}, id : Nat,
              email : Emails \cup {None}, who : Identities \cup {None}, saw : Nat,
              count : Nat, victims : Seq(Nat), excused : BOOLEAN]

Idle == [op |-> "idle", pc |-> "", u |-> None, id |-> 0, email |-> None, who |-> None,
         saw |-> 0, count |-> 0, victims |-> <<>>, excused |-> FALSE]
NoAccount == [state |-> "none", email |-> None, verified |-> FALSE, pw |-> 0, secret |-> 0,
              enabled |-> FALSE, sub |-> None]

Live(u)         == users[u].state = "live"
WithEmail(e)    == {u \in Users : Live(u) /\ users[u].email = e}
WithSub(i)      == {u \in Users : Live(u) /\ users[u].sub = i}
SessionsOf(u)   == {s \in DOMAIN sessions : sessions[s].u = u}
LiveSession(s)  == sessions[s].state = "live"
ActiveTokens(u) == {t \in DOMAIN tokens : tokens[t].active /\ tokens[t].u = u}
PATs(u)         == {t \in ActiveTokens(u) : tokens[t].kind = "pat"}
Oldest(S, n)    == LET len == IF n < Cardinality(S) THEN n ELSE Cardinality(S)
                   IN  {v \in [1 .. len -> S] :
                          /\ \A i, j \in DOMAIN v : i < j => v[i] < v[j]
                          /\ \A i \in DOMAIN v, t \in S : t < v[i] => \E j \in DOMAIN v : v[j] = t}
CodeSet(u, g)   == {<<u, g, k>> : k \in 1 .. RecoveryCodeCount}

Init == \E s \in Scenarios :
    /\ users = [u \in Users |-> IF u # Owner THEN NoAccount
                  ELSE [NoAccount EXCEPT !.state = "live", !.email = OwnersEmail, !.verified = TRUE,
                          !.secret = IF s.enabled THEN 1 ELSE 0, !.enabled = s.enabled]]
    /\ codes = IF s.enabled THEN CodeSet(Owner, 1) ELSE {}
    /\ letters = <<>> /\ challenges = <<>> /\ stash = {}
    /\ sessions = <<[u |-> Owner, state |-> "live", proven |-> 0, opened |-> 0]>>
    /\ tokens = [t \in 1 .. s.tokens |->
                   [u |-> Owner, kind |-> IF t = 1 THEN "device" ELSE "pat",
                    excused |-> FALSE, active |-> TRUE]]
    /\ req = [r \in Reqs |-> Idle]
    /\ left = [o \in Operations |-> IF o \in DOMAIN s.ops THEN s.ops[o] ELSE 0]
    /\ faults = 0 /\ lapses = 0
    /\ past = [secrets |-> 1, sets |-> 1, spent |-> EmptyBag, proven |-> {<<Owner, OwnersEmail>>},
               slipped |-> {}, dangling |-> {}, confirmed |-> {1}, overtaken |-> {},
               homes |-> {}, unlinked |-> {}, refused |-> {}]

-------------------------------------------------------------------------------
(* Requests. *)

At(r, pc)    == req[r].pc = pc
Start(r, op) == req[r].op = "idle" /\ left[op] > 0 /\ left' = [left EXCEPT ![op] = @ - 1]
Done(r)      == req' = [req EXCEPT ![r] = Idle]
Goto(r, pc)  == req' = [req EXCEPT ![r].pc = pc]
Fails        == faults < MaxFaults /\ faults' = faults + 1
Spend(x)     == past' = [past EXCEPT !.spent = @ (+) SetToBag({x})]

\* What follows a proven identity: a session, or the minting of a device token.
Admit(op) == IF op \in {"LoginNative", "LoginOAuthNative", "Complete2FANative"} THEN "count" ELSE "session"

\* Login, LoginNative: the right password of an account, and a code still owed when two-factor is on.
Login(r, op, u) ==
    /\ Start(r, op) /\ Live(u)
    /\ IF users[u].enabled
         THEN /\ challenges' = Append(challenges, [u |-> u, native |-> op = "LoginNative", open |-> TRUE,
                                                     pw |-> users[u].pw])
              /\ UNCHANGED req
         ELSE /\ req' = [req EXCEPT ![r] = [Idle EXCEPT !.op = op, !.pc = Admit(op), !.u = u,
                                              !.saw = users[u].pw]]
              /\ UNCHANGED challenges
    /\ UNCHANGED <<db, stash, faults, lapses, past>>

\* CreateAuthSession; the row refers to its user.  `proven` is the password the account had when
\* the sign-in proved whose it is, `opened` the one it has now.
issueSession(r) ==
    /\ At(r, "session")
    /\ sessions' = IF Live(req[r].u)
                     THEN Append(sessions, [u |-> req[r].u, state |-> "live", proven |-> req[r].saw,
                                             opened |-> users[req[r].u].pw])
                     ELSE sessions
    /\ Done(r)
    /\ UNCHANGED <<users, codes, letters, tokens, mem, left, faults, lapses, past>>

\* Fault: no unique index on the address.
RegisterTwice(r, u, e) ==
    /\ Start(r, "Register") /\ users[u].state = "none"
    /\ users' = [users EXCEPT ![u] = [NoAccount EXCEPT !.state = "live", !.email = e]]
    /\ req' = [req EXCEPT ![r] = [Idle EXCEPT !.op = "Register", !.pc = "clear", !.u = u, !.email = e]]
    /\ UNCHANGED <<codes, letters, sessions, tokens, mem, faults, lapses, past>>

Register(r, u, e) ==
    /\ Start(r, "Register") /\ users[u].state = "none"
    /\ IF WithEmail(e) # {}
         THEN UNCHANGED <<users, req>>
         ELSE /\ users' = [users EXCEPT ![u] = [NoAccount EXCEPT !.state = "live", !.email = e]]
              /\ req' = [req EXCEPT ![r] = [Idle EXCEPT !.op = "Register", !.pc = "clear", !.u = u, !.email = e]]
    /\ UNCHANGED <<codes, letters, sessions, tokens, mem, faults, lapses, past>>

-------------------------------------------------------------------------------
(* Letters: newEmailToken replaces the tokens of a kind in two statements. *)

KindOf(op)     == IF op = "RequestPasswordReset" THEN "reset" ELSE "verify"
AfterLetter(r) == IF req[r].op = "Register" THEN Goto(r, "session") ELSE Done(r)

RequestPasswordReset(r, u) ==
    /\ Start(r, "RequestPasswordReset") /\ Live(u)
    /\ req' = [req EXCEPT ![r] = [Idle EXCEPT !.op = "RequestPasswordReset", !.pc = "clear",
                                    !.u = u, !.email = users[u].email]]
    /\ UNCHANGED <<db, mem, faults, lapses, past>>

\* Fault: earlier letters stay good.
KeepUserEmailTokens(r) ==
    /\ At(r, "clear") /\ Goto(r, "mail")
    /\ past' = IF KindOf(req[r].op) = "verify" THEN [past EXCEPT !.dangling = @ \ {req[r].u}] ELSE past
    /\ UNCHANGED <<db, mem, left, faults, lapses>>

DeleteUserEmailTokens(r) ==
    /\ At(r, "clear")
    /\ LET kind == KindOf(req[r].op) IN
       \/ /\ letters' = [i \in DOMAIN letters |->
                           IF letters[i].u = req[r].u /\ letters[i].kind = kind
                             THEN [letters[i] EXCEPT !.state = "deleted"] ELSE letters[i]]
          /\ past' = IF kind = "verify" THEN [past EXCEPT !.dangling = @ \ {req[r].u}] ELSE past
          /\ Goto(r, "mail") /\ UNCHANGED faults
       \/ Fails /\ AfterLetter(r) /\ UNCHANGED <<letters, past>>
    /\ UNCHANGED <<users, codes, sessions, tokens, mem, left, lapses>>

CreateEmailToken(r) ==
    /\ At(r, "mail")
    /\ letters' = IF Live(req[r].u)
                    THEN Append(letters, [u |-> req[r].u, kind |-> KindOf(req[r].op), to |-> req[r].email,
                                          late |-> users[req[r].u].email # req[r].email, state |-> "valid"])
                    ELSE letters
    /\ AfterLetter(r)
    /\ UNCHANGED <<users, codes, sessions, tokens, mem, left, faults, lapses, past>>

\* VerifyEmail, ConfirmPasswordReset: GetValidEmailToken, outside the transaction that consumes it.
GetValidEmailToken(r, op, i) ==
    /\ Start(r, op) /\ letters[i].state = "valid"
    /\ letters[i].kind = IF op = "VerifyEmail" THEN "verify" ELSE "reset"
    /\ req' = [req EXCEPT ![r] = [Idle EXCEPT !.op = op, !.pc = "consume", !.u = letters[i].u, !.id = i]]
    /\ UNCHANGED <<db, mem, faults, lapses, past>>

\* Fault: the token is marked but not tested.
MarkAnyEmailToken(i)  == letters[i].state # "deleted"
MarkEmailTokenUsed(i) == letters[i].state \in {"valid", "expired"}

VerifyEmail(r) ==
    /\ At(r, "consume") /\ req[r].op = "VerifyEmail" /\ Done(r)
    /\ LET i == req[r].id
           u == req[r].u
           slip == letters[i].to # users[u].email /\ (letters[i].late \/ u \in past.dangling) IN
       IF MarkEmailTokenUsed(i) /\ Live(u)
         THEN /\ letters' = [letters EXCEPT ![i].state = "used"]
              /\ users' = [users EXCEPT ![u].verified = TRUE]
              /\ past' = [past EXCEPT !.spent = @ (+) SetToBag({<<"letter", i>>}),
                            !.proven = @ \cup {<<u, letters[i].to>>},
                            !.slipped = IF slip THEN @ \cup {u} ELSE @]
         ELSE UNCHANGED <<letters, users, past>>
    /\ UNCHANGED <<codes, sessions, tokens, mem, left, faults, lapses>>

\* RevokeOtherUserAuthSessions, RevokeAllUserAuthSessions (keep = 0).
RevokeSessions(u, keep) ==
    sessions' = [s \in DOMAIN sessions |->
                   IF sessions[s].u # u \/ ~LiveSession(s) THEN sessions[s]
                   ELSE IF s = keep THEN [sessions[s] EXCEPT !.proven = users[u].pw + 1, !.opened = users[u].pw + 1]
                   ELSE [sessions[s] EXCEPT !.state = "revoked"]]

ConfirmPasswordReset(r) ==
    /\ At(r, "consume") /\ req[r].op = "ConfirmPasswordReset" /\ Done(r)
    /\ LET i == req[r].id
           u == req[r].u IN
       IF MarkEmailTokenUsed(i) /\ Live(u)
         THEN /\ letters' = [letters EXCEPT ![i].state = "used"]
              /\ users' = [users EXCEPT ![u].pw = @ + 1]
              /\ RevokeSessions(u, 0)
              /\ Spend(<<"letter", i>>)
         ELSE UNCHANGED <<letters, users, sessions, past>>
    /\ UNCHANGED <<codes, tokens, mem, left, faults, lapses>>

-------------------------------------------------------------------------------
(* Requests of a signed-in owner: a session, or a device token (id = 0).  *)

Authenticate(r, op) ==
    /\ Start(r, op)
    /\ \/ \E s \in DOMAIN sessions :
            /\ LiveSession(s)
            /\ req' = [req EXCEPT ![r] = [Idle EXCEPT !.op = op, !.pc = "authed", !.u = sessions[s].u, !.id = s]]
       \/ \E t \in DOMAIN tokens :
            /\ tokens[t].active /\ tokens[t].kind = "device"
            /\ req' = [req EXCEPT ![r] = [Idle EXCEPT !.op = op, !.pc = "authed", !.u = tokens[t].u,
                                            !.victims = <<t>>]]
    /\ UNCHANGED <<db, mem, faults, lapses, past>>

Authed(r, op) == At(r, "authed") /\ req[r].op = op

\* The current password is verified before the transaction.
ChangePassword(r) ==
    /\ Authed(r, "ChangePassword")
    /\ IF Live(req[r].u) THEN Goto(r, "password") ELSE Done(r)
    /\ UNCHANGED <<db, mem, left, faults, lapses, past>>

\* Fault: other sessions stay.
UpdateUserPasswordOnly(r) ==
    /\ At(r, "password") /\ Done(r)
    /\ users' = [users EXCEPT ![req[r].u].pw = IF Live(req[r].u) THEN @ + 1 ELSE @]
    /\ UNCHANGED <<codes, letters, sessions, tokens, mem, left, faults, lapses, past>>

UpdateUserPassword(r) ==
    /\ At(r, "password") /\ Done(r)
    /\ IF Live(req[r].u)
         THEN /\ users' = [users EXCEPT ![req[r].u].pw = @ + 1]
              /\ RevokeSessions(req[r].u, req[r].id)
         ELSE UNCHANGED <<users, sessions>>
    /\ UNCHANGED <<codes, letters, tokens, mem, left, faults, lapses, past>>

UpdateEmail(r, e) ==
    /\ Authed(r, "UpdateEmail")
    /\ LET u == req[r].u IN
       IF ~Live(u) \/ WithEmail(e) \ {u} # {}
         THEN Done(r) /\ UNCHANGED <<users, past>>
         ELSE /\ users' = [users EXCEPT ![u].email = e, ![u].verified = FALSE]
              /\ past' = [past EXCEPT !.dangling = @ \cup {u}, !.slipped = @ \ {u}]
              /\ req' = [req EXCEPT ![r].pc = "clear", ![r].email = e]
    /\ UNCHANGED <<codes, letters, sessions, tokens, mem, left, faults, lapses>>

\* Logout, RevokeSession, RevokeToken: one statement each.
Revoke(r) ==
    /\ At(r, "authed") /\ Done(r)
    /\ LET endSession(s) == /\ sessions' = IF LiveSession(s) THEN [sessions EXCEPT ![s].state = "revoked"] ELSE sessions
                            /\ UNCHANGED tokens
           endToken(t)   == tokens' = [tokens EXCEPT ![t].active = FALSE] /\ UNCHANGED sessions
       IN \/ req[r].op = "Logout" /\ req[r].id # 0 /\ endSession(req[r].id)
          \/ req[r].op = "Logout" /\ req[r].id = 0 /\ endToken(req[r].victims[1])
          \/ req[r].op = "RevokeSession" /\ \E s \in SessionsOf(req[r].u) : endSession(s)
          \/ req[r].op = "RevokeToken" /\ \E t \in ActiveTokens(req[r].u) : endToken(t)
    /\ UNCHANGED <<users, codes, letters, mem, left, faults, lapses, past>>

\* HardDeleteUser; the owner's rows go with it.
DeleteAccount(r) ==
    /\ Authed(r, "DeleteAccount") /\ Done(r)
    /\ LET u == req[r].u IN
       /\ users' = IF Live(u) THEN [users EXCEPT ![u] = [NoAccount EXCEPT !.state = "deleted"]] ELSE users
       /\ codes' = {c \in codes : c[1] # u}
       /\ letters' = [i \in DOMAIN letters |-> IF letters[i].u = u THEN [letters[i] EXCEPT !.state = "deleted"] ELSE letters[i]]
       /\ sessions' = [s \in DOMAIN sessions |-> IF sessions[s].u = u THEN [sessions[s] EXCEPT !.state = "revoked"] ELSE sessions[s]]
       /\ tokens' = [t \in DOMAIN tokens |-> IF tokens[t].u = u THEN [tokens[t] EXCEPT !.active = FALSE] ELSE tokens[t]]
    /\ UNCHANGED <<mem, left, faults, lapses, past>>

-------------------------------------------------------------------------------
(* Tokens.  Whoever counted before another token was created is excused    *)
(* for going past the quota, and so is a sign-in whose pruning failed.     *)

\* Fault: one token too many.
CreateTokenPastQuota(r) ==
    /\ Authed(r, "CreateToken")
    /\ LET n == Cardinality(ActiveTokens(req[r].u)) IN
       IF n > MaxPATsPerUser
         THEN Done(r) /\ past' = [past EXCEPT !.refused = @ \cup {Cardinality(PATs(req[r].u))}]
         ELSE Goto(r, "token") /\ UNCHANGED past
    /\ UNCHANGED <<db, mem, left, faults, lapses>>

CreateToken(r) ==
    /\ Authed(r, "CreateToken")
    /\ LET n == Cardinality(ActiveTokens(req[r].u)) IN
       IF n >= MaxPATsPerUser
         THEN Done(r) /\ past' = [past EXCEPT !.refused = @ \cup {Cardinality(PATs(req[r].u))}]
         ELSE Goto(r, "token") /\ UNCHANGED past
    /\ UNCHANGED <<db, mem, left, faults, lapses>>

\* MintDeviceToken: errors of the count, the list and the revocations are ignored.
CountActiveTokens(r) ==
    /\ At(r, "count")
    /\ LET n == Cardinality(ActiveTokens(req[r].u)) IN
       \/ /\ req' = [req EXCEPT ![r].pc = IF n >= MaxPATsPerUser THEN "list" ELSE "token", ![r].count = n]
          /\ UNCHANGED faults
       \/ /\ Fails
          /\ req' = [req EXCEPT ![r].pc = "token", ![r].excused = TRUE]
    /\ UNCHANGED <<db, mem, left, lapses, past>>

ListTokens(r) ==
    /\ At(r, "list")
    /\ \/ /\ \E v \in Oldest(ActiveTokens(req[r].u), req[r].count - MaxPATsPerUser + 1) :
                req' = [req EXCEPT ![r].pc = IF v = <<>> THEN "token" ELSE "prune", ![r].victims = v]
          /\ UNCHANGED faults
       \/ /\ Fails
          /\ req' = [req EXCEPT ![r].pc = "token", ![r].excused = TRUE]
    /\ UNCHANGED <<db, mem, left, lapses, past>>

PruneToken(r) ==
    /\ At(r, "prune")
    /\ LET v == req[r].victims
           gone(excused) == req' = [req EXCEPT ![r].victims = Tail(v), ![r].excused = @ \/ excused,
                                      ![r].pc = IF Len(v) = 1 THEN "token" ELSE "prune"]
       IN \/ tokens' = [tokens EXCEPT ![v[1]].active = FALSE] /\ gone(FALSE) /\ UNCHANGED faults
          \/ Fails /\ gone(TRUE) /\ UNCHANGED tokens
    /\ UNCHANGED <<users, codes, letters, sessions, mem, left, lapses, past>>

CreateAPIToken(r) ==
    /\ At(r, "token")
    /\ LET u    == req[r].u
           kind == IF req[r].op = "CreateToken" THEN "pat" ELSE "device"
           counted(q) == q # r /\ req[q].u = u /\ req[q].pc \in {"list", "prune", "token"}
       IN IF Live(u)
            THEN /\ tokens' = Append(tokens, [u |-> u, kind |-> kind, excused |-> req[r].excused, active |-> TRUE])
                 /\ req' = [q \in Reqs |->
                              IF counted(q) THEN [req[q] EXCEPT !.excused = TRUE]
                              ELSE IF q # r THEN req[q]
                              ELSE IF req[r].op = "LoginOAuthNative"
                                     THEN [req[r] EXCEPT !.pc = "stash", !.id = Len(tokens')]
                              ELSE Idle]
            ELSE Done(r) /\ UNCHANGED tokens
    /\ UNCHANGED <<users, codes, letters, sessions, mem, left, faults, lapses, past>>

StashNativeToken(r) ==
    /\ At(r, "stash") /\ Done(r)
    /\ stash' = stash \cup {req[r].id}
    /\ UNCHANGED <<db, challenges, left, faults, lapses, past>>

ExchangeNativeCode(t) ==
    /\ t \in stash /\ stash' = stash \ {t}
    /\ Spend(<<"exchange", t>>)
    /\ UNCHANGED <<db, challenges, req, left, faults, lapses>>

-------------------------------------------------------------------------------
(* Two-factor enrolment and sign-in. *)

\* SetupTOTP: the check that two-factor is off, and the write of the new secret.
SetupTOTP(r) ==
    /\ Authed(r, "SetupTOTP")
    /\ IF Live(req[r].u) /\ ~users[req[r].u].enabled THEN Goto(r, "setup") ELSE Done(r)
    /\ UNCHANGED <<db, mem, left, faults, lapses, past>>

SetTOTPSecret(r) ==
    /\ At(r, "setup") /\ Done(r)
    /\ LET u == req[r].u IN
       IF Live(u)
         THEN /\ users' = [users EXCEPT ![u].secret = past.secrets + 1]
              /\ past' = [past EXCEPT !.secrets = @ + 1,
                            !.overtaken = IF users[u].enabled THEN @ \cup {u} ELSE @]
         ELSE UNCHANGED <<users, past>>
    /\ UNCHANGED <<codes, letters, sessions, tokens, mem, left, faults, lapses>>

\* Fault: enabled without a code.
EnableUnverified(r) ==
    /\ Authed(r, "EnableTOTP")
    /\ LET u == req[r].u IN
       IF ~Live(u) \/ users[u].enabled \/ users[u].secret = 0
         THEN Done(r)
         ELSE req' = [req EXCEPT ![r].pc = "enable", ![r].saw = users[u].secret]
    /\ UNCHANGED <<db, mem, left, faults, lapses, past>>

\* EnableTOTP: two-factor is off and the code fits the pending secret.
EnableTOTP(r) ==
    /\ Authed(r, "EnableTOTP")
    /\ LET u == req[r].u IN
       \/ Done(r) /\ UNCHANGED past
       \/ /\ Live(u) /\ ~users[u].enabled /\ users[u].secret # 0
          /\ req' = [req EXCEPT ![r].pc = "enable", ![r].saw = users[u].secret]
          /\ past' = [past EXCEPT !.confirmed = @ \cup {users[u].secret}]
    /\ UNCHANGED <<db, mem, left, faults, lapses>>

\* SetTOTPEnabled, DeleteRecoveryCodes, AddRecoveryCode: one transaction, whatever happened since the check.
SetTOTPEnabled(r) ==
    /\ At(r, "enable") /\ Done(r)
    /\ LET u == req[r].u IN
       IF Live(u)
         THEN /\ users' = [users EXCEPT ![u].enabled = TRUE]
              /\ codes' = {c \in codes : c[1] # u} \cup CodeSet(u, past.sets + 1)
              /\ past' = [past EXCEPT !.sets = @ + 1,
                            !.overtaken = IF users[u].secret # req[r].saw THEN @ \cup {u} ELSE @]
         ELSE UNCHANGED <<users, codes, past>>
    /\ UNCHANGED <<letters, sessions, tokens, mem, left, faults, lapses>>

DisableTOTP(r) ==
    /\ Authed(r, "DisableTOTP")
    /\ IF Live(req[r].u) /\ users[req[r].u].enabled THEN Goto(r, "code") ELSE Done(r)
    /\ UNCHANGED <<db, mem, left, faults, lapses, past>>

ClearTOTP(r) ==
    /\ At(r, "disable") /\ Done(r)
    /\ users' = [users EXCEPT ![req[r].u].secret = 0, ![req[r].u].enabled = FALSE]
    /\ codes' = {c \in codes : c[1] # req[r].u}
    /\ past' = [past EXCEPT !.overtaken = @ \ {req[r].u}]
    /\ UNCHANGED <<letters, sessions, tokens, mem, left, faults, lapses>>

\* Complete2FAWeb, Complete2FANative: the challenge is taken first, whatever comes of it.
TakeChallenge(r, op, c) ==
    /\ Start(r, op) /\ challenges[c].open
    /\ challenges' = [challenges EXCEPT ![c].open = FALSE]
    /\ Spend(<<"challenge", c>>)
    /\ req' = IF challenges[c].native = (op = "Complete2FANative")
                 THEN [req EXCEPT ![r] = [Idle EXCEPT !.op = op, !.pc = "code", !.u = challenges[c].u,
                                                 !.saw = challenges[c].pw]]
                 ELSE req
    /\ UNCHANGED <<db, stash, faults, lapses>>

AfterCode(op) == IF op = "DisableTOTP" THEN "disable" ELSE Admit(op)

\* verifyTOTP on the account as read now; a code that does not fit may still be a recovery code.
verifyTOTP(r) ==
    /\ At(r, "code")
    /\ LET u == req[r].u IN
       \/ Done(r)
       \/ Live(u) /\ users[u].secret # 0 /\ Goto(r, AfterCode(req[r].op))
       \/ Live(u) /\ \E c \in codes : /\ c[1] = u
                                       /\ req' = [req EXCEPT ![r].pc = "recover", ![r].victims = <<c[2], c[3]>>]
    /\ UNCHANGED <<db, mem, left, faults, lapses, past>>

UseRecoveryCode(c) == c \in codes /\ codes' = codes \ {c}

Recover(r) ==
    /\ At(r, "recover")
    /\ LET c == <<req[r].u>> \o req[r].victims IN
       \/ UseRecoveryCode(c) /\ Goto(r, AfterCode(req[r].op)) /\ Spend(c)
       \/ c \notin codes /\ Done(r) /\ UNCHANGED <<codes, past>>
    /\ UNCHANGED <<users, letters, sessions, tokens, mem, left, faults, lapses>>

-------------------------------------------------------------------------------
(* Social sign-in: by the provider's id, else by address, else a new account. *)

Resolved(r, u) == /\ req' = [req EXCEPT ![r].pc = Admit(req[r].op), ![r].u = u, ![r].saw = users[u].pw]
                  /\ past' = [past EXCEPT !.homes = @ \cup {<<req[r].who, u>>}]

getByProviderID(r, op, i) ==
    /\ Start(r, op)
    /\ LET known(pc, u, pw) == [Idle EXCEPT !.op = op, !.pc = pc, !.u = u, !.who = i, !.saw = pw] IN
       IF WithSub(i) # {}
         THEN \E u \in WithSub(i) : /\ req' = [req EXCEPT ![r] = known(Admit(op), u, users[u].pw)]
                                    /\ past' = [past EXCEPT !.homes = @ \cup {<<i, u>>}]
         ELSE req' = [req EXCEPT ![r] = known("address", None, 0)] /\ UNCHANGED past
    /\ UNCHANGED <<db, mem, faults, lapses>>

GetUserByEmail(r) ==
    /\ At(r, "address")
    /\ LET found == WithEmail(EmailOf[req[r].who]) IN
       IF found # {} THEN \E u \in found : req' = [req EXCEPT ![r].pc = "link", ![r].u = u, ![r].saw = users[u].pw]
                     ELSE Goto(r, "create")
    /\ UNCHANGED <<db, mem, left, faults, lapses, past>>

\* An identity another account has is refused (unique index); one of this account is replaced.
linkProviderID(r) ==
    /\ At(r, "link")
    /\ LET u == req[r].u
           i == req[r].who IN
       IF ~Live(u) \/ WithSub(i) \ {u} # {}
         THEN Done(r) /\ UNCHANGED <<users, past>>
         ELSE /\ users' = [users EXCEPT ![u].sub = i, ![u].verified = TRUE]
              /\ req' = [req EXCEPT ![r].pc = Admit(req[r].op)]
              /\ past' = [past EXCEPT !.homes = @ \cup {<<i, u>>},
                            !.unlinked = @ \cup ({users[u].sub} \ {None, i}),
                            !.proven = @ \cup {<<u, EmailOf[i]>>},
                            !.slipped = IF users[u].email # EmailOf[i] THEN @ \cup {u} ELSE @]
    /\ UNCHANGED <<codes, letters, sessions, tokens, mem, left, faults, lapses>>

\* Fault: the new account is not linked.
UnlinkedAccount(i) == [NoAccount EXCEPT !.state = "live", !.email = EmailOf[i], !.verified = TRUE]
OAuthAccount(i)    == [NoAccount EXCEPT !.state = "live", !.email = EmailOf[i], !.verified = TRUE, !.sub = i]

\* A unique violation means that another request was first.
createOAuthUser(r, u) ==
    /\ At(r, "create") /\ users[u].state = "none"
    /\ LET i == req[r].who IN
       IF WithSub(i) # {} \/ WithEmail(EmailOf[i]) # {}
         THEN Goto(r, "reread") /\ UNCHANGED <<users, past>>
         ELSE /\ users' = [users EXCEPT ![u] = OAuthAccount(i)]
              /\ req' = [req EXCEPT ![r].pc = Admit(req[r].op), ![r].u = u, ![r].saw = OAuthAccount(i).pw]
              /\ past' = [past EXCEPT !.homes = @ \cup {<<i, u>>}, !.proven = @ \cup {<<u, EmailOf[i]>>}]
    /\ UNCHANGED <<codes, letters, sessions, tokens, mem, left, faults, lapses>>

rereadOAuthUser(r) ==
    /\ At(r, "reread")
    /\ LET found == WithSub(req[r].who) IN
       IF found # {} THEN \E u \in found : Resolved(r, u) ELSE Done(r) /\ UNCHANGED past
    /\ UNCHANGED <<db, mem, left, faults, lapses>>

-------------------------------------------------------------------------------
(* Time and failures. *)

Lapse ==
    /\ lapses < MaxLapses /\ lapses' = lapses + 1
    /\ \/ /\ \E i \in DOMAIN letters : /\ letters[i].state = "valid"
                                       /\ letters' = [letters EXCEPT ![i].state = "expired"]
          /\ UNCHANGED <<sessions, challenges, stash>>
       \/ /\ \E s \in DOMAIN sessions : LiveSession(s) /\ sessions' = [sessions EXCEPT ![s].state = "expired"]
          /\ UNCHANGED <<letters, challenges, stash>>
       \/ /\ \E c \in DOMAIN challenges : /\ challenges[c].open
                                          /\ challenges' = [challenges EXCEPT ![c].open = FALSE]
          /\ UNCHANGED <<letters, sessions, stash>>
       \/ /\ \E t \in stash : stash' = stash \ {t}
          /\ UNCHANGED <<letters, sessions, challenges>>
    /\ UNCHANGED <<users, codes, tokens, req, left, faults, past>>

\* The requests under way are cut off where they are.
Restart ==
    /\ Fails
    /\ \E r \in Reqs : req[r] # Idle
    /\ req' = [r \in Reqs |-> Idle] /\ stash' = {}
    /\ challenges' = [c \in DOMAIN challenges |-> [challenges[c] EXCEPT !.open = FALSE]]
    /\ UNCHANGED <<db, left, lapses, past>>

Begin(r) ==
    \/ \E u \in Users : \/ \E op \in {"Login", "LoginNative"} : Login(r, op, u)
                        \/ RequestPasswordReset(r, u)
                        \/ \E e \in Emails : Register(r, u, e)
    \/ \E op \in {"Complete2FAWeb", "Complete2FANative"}, c \in DOMAIN challenges : TakeChallenge(r, op, c)
    \/ \E op \in {"LoginOAuth", "LoginOAuthNative"}, i \in Identities : getByProviderID(r, op, i)
    \/ \E op \in {"VerifyEmail", "ConfirmPasswordReset"}, i \in DOMAIN letters : GetValidEmailToken(r, op, i)
    \/ \E op \in {"ChangePassword", "UpdateEmail", "CreateToken", "RevokeToken", "RevokeSession", "Logout",
                  "SetupTOTP", "EnableTOTP", "DisableTOTP", "DeleteAccount"} : Authenticate(r, op)

Step(r) ==
    \/ issueSession(r) \/ DeleteUserEmailTokens(r) \/ CreateEmailToken(r) \/ VerifyEmail(r)
    \/ ConfirmPasswordReset(r) \/ ChangePassword(r) \/ UpdateUserPassword(r)
    \/ \E e \in Emails : UpdateEmail(r, e)
    \/ Revoke(r) \/ DeleteAccount(r) \/ CreateToken(r) \/ CountActiveTokens(r) \/ ListTokens(r)
    \/ PruneToken(r) \/ CreateAPIToken(r) \/ StashNativeToken(r)
    \/ SetupTOTP(r) \/ SetTOTPSecret(r) \/ EnableTOTP(r) \/ SetTOTPEnabled(r) \/ DisableTOTP(r)
    \/ ClearTOTP(r) \/ verifyTOTP(r) \/ Recover(r)
    \/ GetUserByEmail(r) \/ linkProviderID(r) \/ rereadOAuthUser(r)
    \/ \E u \in Users : createOAuthUser(r, u)

Next ==
    \/ \E r \in Reqs : Begin(r) \/ Step(r)
    \/ \E t \in stash : ExchangeNativeCode(t)
    \/ Lapse \/ Restart

Spec == Init /\ [][Next]_vars

-------------------------------------------------------------------------------
(* Correctness. *)

\* Every row, challenge and request has the shape the code gives it.
TypeOK ==
    /\ \A u \in Users : users[u] \in Account
    /\ codes \subseteq Users \X (1 .. past.sets) \X (1 .. RecoveryCodeCount)
    /\ \A i \in DOMAIN letters : letters[i] \in Letter
    /\ \A s \in DOMAIN sessions : sessions[s] \in Session
    /\ \A t \in DOMAIN tokens : tokens[t] \in Token
    /\ \A c \in DOMAIN challenges : challenges[c] \in Challenge
    /\ stash \subseteq DOMAIN tokens
    /\ \A r \in Reqs : req[r] \in Request /\ (req[r].op = "idle" <=> req[r] = Idle)
    /\ \A u, v \in Users : Live(u) /\ Live(v) /\ u # v =>
           users[u].email # users[v].email /\ (users[u].sub = None \/ users[u].sub # users[v].sub)

\* Whatever is good for one use is honoured once at most: the token of a letter, a recovery
\* code, a login challenge, an exchange code, however many requests present it together
\* (email_tokens.sql MarkEmailTokenUsed, users.sql UseRecoveryCode, totp.go and
\* native_code.go take).
SpentOnce == \A x \in BagToSet(past.spent) : past.spent[x] = 1

\* The sign-in was under way at a change of the password: it proved whose the account is, or
\* drew its login challenge, before the change, and the session was opened after it.
Overtaken(s) == sessions[s].proven < sessions[s].opened

\* A live session was opened under the present password of its account, and on a proof given
\* under that password, or by whoever changed it; a reset leaves none (auth.go:321 "sets a new
\* password, revokes all sessions").  The exception is a session whose sign-in was overtaken by
\* the change: the revocation found no row to revoke.  It ends, at the latest, at the next one.
SessionsFollowPassword ==
    \A s \in DOMAIN sessions : LiveSession(s) =>
        /\ sessions[s].opened = users[sessions[s].u].pw
        /\ sessions[s].proven = users[sessions[s].u].pw \/ Overtaken(s)

\* An address is marked verified when a letter sent to it came back or a provider vouched
\* for it.  The exceptions are the ones the statements leave: a letter to the old address
\* used before newEmailToken deleted it (or after it failed to), one written after the
\* address had changed again, and an identity linked to an account found by an address it
\* has just given up.
VerifiedByOwner ==
    \A u \in Users : Live(u) /\ users[u].verified =>
        <<u, users[u].email>> \in past.proven \/ u \in past.slipped

\* Two-factor is on only with a secret whose code was entered, and recovery codes exist only
\* while it is on, unless an enrolment that had found two-factor off, or another secret,
\* finished after it changed (SetupTOTP and EnableTOTP check before they write).
EnrolmentConfirmed ==
    \A u \in Users : Live(u) =>
        /\ users[u].enabled => users[u].secret \in past.confirmed \/ u \in past.overtaken
        /\ (\E c \in codes : c[1] = u) => users[u].enabled

\* The quota of tokens is passed only by requests that counted before another one's token was
\* created, and by sign-ins whose pruning failed (auth.go:224, 382).
TokensBounded ==
    \A u \in Users :
        Cardinality(ActiveTokens(u)) <=
            MaxPATsPerUser + Cardinality({t \in ActiveTokens(u) : tokens[t].excused})

\* One identity, one account: sign-ins of an identity reach the account it reached first,
\* concurrent first sign-ins included (auth_oauth.go:146 "the other request won the insert,
\* so read it back"), unless that account was deleted or linked to another identity since.
SameAccount ==
    \A i \in Identities \ past.unlinked : \A u, v \in Users :
        <<i, u>> \in past.homes /\ <<i, v>> \in past.homes /\ Live(u) /\ Live(v) => u = v

\* auth.go:205 "not counted against the per-user PAT quota": a personal token is refused for
\* the quota only when the account's personal tokens fill it.  The code counts device tokens
\* along with them.
DeviceTokensUncounted == \A n \in past.refused : n >= MaxPATsPerUser

=======================================================================================
