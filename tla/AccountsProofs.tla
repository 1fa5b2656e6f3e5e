---------------------------- MODULE AccountsProofs ----------------------------
(***************************************************************************)
(* Proofs about Accounts, for any number of accounts, requests, tokens and *)
(* codes, and any operations from any of the starting points.              *)
(***************************************************************************)
EXTENDS Accounts, FiniteSetTheorems, SequenceTheorems, TLAPS

-------------------------------------------------------------------------------
(* Rows of a table.                                                        *)

\* A table with a row more.
LEMMA RowAdded ==
    ASSUME NEW S, NEW table \in Seq(S), NEW row \in S
    PROVE  /\ Append(table, row) \in Seq(S)
           /\ Len(table) \in Nat /\ Len(Append(table, row)) = Len(table) + 1
           /\ DOMAIN Append(table, row) = DOMAIN table \cup {Len(table) + 1}
           /\ Len(table) + 1 \notin DOMAIN table
           /\ Append(table, row)[Len(table) + 1] = row
           /\ \A i \in DOMAIN table : Append(table, row)[i] = table[i]
  BY LenProperties

\* A table with some rows rewritten.
LEMMA RowsRewritten ==
    ASSUME NEW S, NEW table \in Seq(S), NEW new \in [DOMAIN table -> S]
    PROVE  new \in Seq(S) /\ DOMAIN new = DOMAIN table /\ Len(new) = Len(table)
<1>1. DOMAIN table = 1 .. Len(table) /\ Len(table) \in Nat
  BY LenProperties
<1>2. new \in Seq(S)
  BY <1>1, SeqDef
<1>3. DOMAIN new = 1 .. Len(new) /\ Len(new) \in Nat
  BY <1>2, LenProperties
<1> QED  BY <1>1, <1>2, <1>3

\* A table with one row rewritten.
LEMMA RowRewritten ==
    ASSUME NEW S, NEW table \in Seq(S), NEW i \in DOMAIN table, NEW row \in S
    PROVE  /\ [table EXCEPT ![i] = row] \in Seq(S)
           /\ DOMAIN [table EXCEPT ![i] = row] = DOMAIN table
           /\ Len([table EXCEPT ![i] = row]) = Len(table)
           /\ [table EXCEPT ![i] = row][i] = row
           /\ \A j \in DOMAIN table \ {i} : [table EXCEPT ![i] = row][j] = table[j]
<1>1. [table EXCEPT ![i] = row] \in [DOMAIN table -> S]
  BY LenProperties
<1> QED  BY <1>1, RowsRewritten

\* The rows of a table.
LEMMA RowIn ==
    ASSUME NEW S, NEW table \in Seq(S), NEW i \in DOMAIN table
    PROVE  table[i] \in S /\ i \in Nat \ {0}
  BY LenProperties

-------------------------------------------------------------------------------
(* Types.                                                                  *)

\* What a request has in hand at each step.
Fits(q, ls, ss, ts, conf) ==
    /\ q.op = "idle" \/ q.pc = "" => q = Idle
    /\ q.pc \notin {"", "address", "create", "reread"} => q.u \in Users
    /\ q.pc \in {"address", "link", "create", "reread"} => q.who \in Identities
    /\ q.pc \in {"clear", "mail"} => q.email \in Emails
    /\ q.pc = "consume" => /\ q.id \in DOMAIN ls /\ ls[q.id].u = q.u
                           /\ q.op = "VerifyEmail" => ls[q.id].kind = "verify"
    /\ q.pc = "authed" => IF q.id = 0 THEN q.victims # <<>> /\ q.victims[1] \in DOMAIN ts
                                      ELSE q.id \in DOMAIN ss
    /\ q.pc = "list" => q.count >= MaxPATsPerUser
    /\ q.pc = "prune" => q.victims # <<>> /\ \A i \in DOMAIN q.victims : q.victims[i] \in DOMAIN ts
    /\ q.pc = "stash" => q.id \in DOMAIN ts
    /\ q.pc = "enable" => q.saw \in conf

History(spent) ==
    [secrets : Nat \ {0}, sets : Nat \ {0}, spent : {spent}, proven : SUBSET (Users \X Emails),
     slipped : SUBSET Users, dangling : SUBSET Users, confirmed : SUBSET Nat, overtaken : SUBSET Users,
     homes : SUBSET (Identities \X Users), unlinked : SUBSET Identities, refused : SUBSET Nat]

Addressed == \A u \in Users : Live(u) => users[u].email \in Emails

\* The unique indexes on the address and on the provider's id.
Unique ==
    \A u, v \in Users : Live(u) /\ Live(v) /\ u # v =>
        users[u].email # users[v].email /\ (users[u].sub = None \/ users[u].sub # users[v].sub)

UsersOK    == users \in [Users -> Account] /\ Addressed /\ Unique
CodesOK    == codes \subseteq Users \X (1 .. past.sets) \X (1 .. RecoveryCodeCount)
TablesOK   == letters \in Seq(Letter) /\ sessions \in Seq(Session) /\ tokens \in Seq(Token)
                  /\ challenges \in Seq(Challenge) /\ stash \subseteq DOMAIN tokens
PastOK     == past \in History(past.spent)
RequestsOK == /\ req \in [Reqs -> Request]
              /\ \A r \in Reqs : Fits(req[r], letters, sessions, tokens, past.confirmed)

TypeInv == UsersOK /\ CodesOK /\ TablesOK /\ PastOK /\ RequestsOK

\* A slot without a request.
LEMMA IdleFits ==
    /\ Idle \in Request /\ Idle.op = "idle" /\ Idle.pc = ""
    /\ \A ls, ss, ts, conf : Fits(Idle, ls, ss, ts, conf)
<1>1. Idle \in Request
  <2>1. <<>> \in Seq(Nat)
    BY EmptySeq
  <2> QED  BY <2>1 DEF Idle, Request, Pcs
<1>2. Idle.op = "idle" /\ Idle.pc = ""
  BY DEF Idle
<1> QED  BY <1>1, <1>2 DEF Fits

\* The inductive form implies the checked one.
LEMMA TypeInvGivesTypeOK == TypeInv => TypeOK
<1> SUFFICES ASSUME TypeInv PROVE TypeOK
  OBVIOUS
<1>1. /\ \A i \in DOMAIN letters : letters[i] \in Letter
      /\ \A s \in DOMAIN sessions : sessions[s] \in Session
      /\ \A t \in DOMAIN tokens : tokens[t] \in Token
      /\ \A c \in DOMAIN challenges : challenges[c] \in Challenge
  BY RowIn DEF TypeInv, TablesOK
<1>2. \A r \in Reqs : req[r] \in Request /\ (req[r].op = "idle" <=> req[r] = Idle)
  BY IdleFits DEF TypeInv, RequestsOK, Fits
<1>3. (\A u \in Users : users[u] \in Account) /\ Unique
  BY DEF TypeInv, UsersOK
<1> QED  BY <1>1, <1>2, <1>3 DEF TypeInv, CodesOK, TablesOK, TypeOK, Unique

LEMMA NoAccountType == NoAccount \in Account /\ NoAccount.state = "none" /\ NoAccount.pw = 0
                          /\ NoAccount.enabled = FALSE /\ NoAccount.verified = FALSE /\ NoAccount.sub = None
  BY DEF NoAccount, Account

-------------------------------------------------------------------------------
(* The initial states.                                                     *)

LEMMA InitTypes == Init => TypeInv
<1> SUFFICES ASSUME Init PROVE TypeInv
  OBVIOUS
<1>1. PICK s \in Scenarios :
        /\ users = [u \in Users |-> IF u # Owner THEN NoAccount
                      ELSE [NoAccount EXCEPT !.state = "live", !.email = OwnersEmail, !.verified = TRUE,
                              !.secret = IF s.enabled THEN 1 ELSE 0, !.enabled = s.enabled]]
        /\ codes = IF s.enabled THEN CodeSet(Owner, 1) ELSE {}
        /\ tokens = [t \in 1 .. s.tokens |->
                       [u |-> Owner, kind |-> IF t = 1 THEN "device" ELSE "pat",
                        excused |-> FALSE, active |-> TRUE]]
  BY DEF Init
<1>2. /\ letters = <<>> /\ challenges = <<>> /\ stash = {}
      /\ sessions = <<[u |-> Owner, state |-> "live", proven |-> 0, opened |-> 0]>>
      /\ req = [r \in Reqs |-> Idle]
      /\ past = [secrets |-> 1, sets |-> 1, spent |-> EmptyBag, proven |-> {<<Owner, OwnersEmail>>},
                 slipped |-> {}, dangling |-> {}, confirmed |-> {1}, overtaken |-> {},
                 homes |-> {}, unlinked |-> {}, refused |-> {}]
  BY DEF Init
<1>3. s.enabled \in BOOLEAN /\ s.tokens \in Nat /\ Owner \in Users /\ OwnersEmail \in Emails
  BY AccountsAssumption
<1>4. UsersOK
  <2> DEFINE own == [NoAccount EXCEPT !.state = "live", !.email = OwnersEmail, !.verified = TRUE,
                        !.secret = IF s.enabled THEN 1 ELSE 0, !.enabled = s.enabled]
  <2>1. own \in Account /\ own.email = OwnersEmail
    BY <1>3 DEF NoAccount, Account
  <2>2. users \in [Users -> Account] /\ users[Owner] = own /\ \A u \in Users \ {Owner} : users[u] = NoAccount
    BY <1>1, <1>3, <2>1, NoAccountType
  <2> HIDE DEF own
  <2>3. \A u \in Users : Live(u) => u = Owner
    BY <2>2, NoAccountType DEF Live
  <2>4. Addressed
    BY <1>3, <2>1, <2>2, <2>3 DEF Addressed
  <2>5. Unique
    BY <2>3 DEF Unique
  <2> QED  BY <2>2, <2>4, <2>5 DEF UsersOK
<1>5. PastOK
  BY <1>2, <1>3 DEF PastOK, History
<1>6. CodesOK
  <2>1. past.sets = 1
    BY <1>2
  <2> QED  BY <1>1, <1>3, <2>1 DEF CodesOK, CodeSet
<1>7. TablesOK
  <2>1. letters \in Seq(Letter) /\ challenges \in Seq(Challenge)
    BY <1>2, EmptySeq
  <2>2. [u |-> Owner, state |-> "live", proven |-> 0, opened |-> 0] \in Session
    BY <1>3 DEF Session
  <2>3. sessions \in Seq(Session)
    BY <1>2, <2>2
  <2>4. tokens \in [1 .. s.tokens -> Token]
    BY <1>1, <1>3 DEF Token
  <2>5. tokens \in Seq(Token)
    BY <1>3, <2>4, SeqDef
  <2> QED  BY <1>2, <2>1, <2>3, <2>5 DEF TablesOK
<1>8. RequestsOK
  BY <1>2, IdleFits DEF RequestsOK
<1> QED  BY <1>4, <1>5, <1>6, <1>7, <1>8 DEF TypeInv

-------------------------------------------------------------------------------
(* Which actions write which variable.                                                   *)

UsersWritten(r) ==
    \/ \E u \in Users, e \in Emails : Register(r, u, e)
    \/ \E e \in Emails : UpdateEmail(r, e)
    \/ \E u \in Users : createOAuthUser(r, u)
    \/ VerifyEmail(r) \/ ConfirmPasswordReset(r) \/ UpdateUserPassword(r) \/ DeleteAccount(r)
    \/ SetTOTPSecret(r) \/ SetTOTPEnabled(r) \/ ClearTOTP(r) \/ linkProviderID(r)
CodesWritten(r)    == DeleteAccount(r) \/ SetTOTPEnabled(r) \/ ClearTOTP(r) \/ Recover(r)
LettersWritten(r)  == \/ DeleteUserEmailTokens(r) \/ CreateEmailToken(r) \/ VerifyEmail(r)
                      \/ ConfirmPasswordReset(r) \/ DeleteAccount(r)
SessionsWritten(r) == \/ issueSession(r) \/ ConfirmPasswordReset(r) \/ UpdateUserPassword(r) \/ Revoke(r)
                      \/ DeleteAccount(r)
TokensWritten(r)   == Revoke(r) \/ DeleteAccount(r) \/ PruneToken(r) \/ CreateAPIToken(r)
ChallengesWritten(r) ==
    \/ \E op \in {"Login", "LoginNative"}, u \in Users : Login(r, op, u)
    \/ \E op \in {"Complete2FAWeb", "Complete2FANative"}, c \in DOMAIN challenges : TakeChallenge(r, op, c)
PastWritten(r) ==
    \/ DeleteUserEmailTokens(r) \/ VerifyEmail(r) \/ ConfirmPasswordReset(r)
    \/ \E e \in Emails : UpdateEmail(r, e)
    \/ CreateToken(r) \/ SetTOTPSecret(r) \/ EnableTOTP(r) \/ SetTOTPEnabled(r) \/ ClearTOTP(r) \/ Recover(r)
    \/ \E op \in {"Complete2FAWeb", "Complete2FANative"}, c \in DOMAIN challenges : TakeChallenge(r, op, c)
    \/ \E op \in {"LoginOAuth", "LoginOAuthNative"}, i \in Identities : getByProviderID(r, op, i)
    \/ linkProviderID(r) \/ rereadOAuthUser(r)
    \/ \E u \in Users : createOAuthUser(r, u)

Written(r) ==
    /\ UNCHANGED users \/ UsersWritten(r)
    /\ UNCHANGED codes \/ CodesWritten(r)
    /\ UNCHANGED letters \/ LettersWritten(r)
    /\ UNCHANGED sessions \/ SessionsWritten(r)
    /\ UNCHANGED tokens \/ TokensWritten(r)
    /\ UNCHANGED challenges \/ ChallengesWritten(r)
    /\ UNCHANGED stash \/ StashNativeToken(r)
    /\ UNCHANGED past \/ PastWritten(r)

\* A request writes what its statement names, and nothing else.
LEMMA Writers ==
    ASSUME NEW r \in Reqs, Begin(r) \/ Step(r)
    PROVE  Written(r)
<1> USE DEF db, mem
<1>1. ASSUME NEW op \in {"Login", "LoginNative"}, NEW u \in Users, Login(r, op, u) PROVE Written(r)
  <2>1. UNCHANGED <<db, stash, past>>
    BY <1>1 DEF Login
  <2> QED  BY <1>1, <2>1 DEF Written, ChallengesWritten
<1>2. ASSUME NEW u \in Users, RequestPasswordReset(r, u) PROVE Written(r)
  <2>1. UNCHANGED <<db, mem, past>>
    BY <1>2 DEF RequestPasswordReset
  <2> QED  BY <2>1 DEF Written
<1>3. ASSUME NEW u \in Users, NEW e \in Emails, Register(r, u, e) PROVE Written(r)
  <2>1. UNCHANGED <<codes, letters, sessions, tokens, mem, past>>
    BY <1>3 DEF Register
  <2> QED  BY <1>3, <2>1 DEF Written, UsersWritten
<1>4. ASSUME NEW op \in {"Complete2FAWeb", "Complete2FANative"}, NEW c \in DOMAIN challenges, TakeChallenge(r, op, c)
      PROVE  Written(r)
  <2>1. UNCHANGED <<db, stash>>
    BY <1>4 DEF TakeChallenge
  <2> QED  BY <1>4, <2>1 DEF Written, ChallengesWritten, PastWritten
<1>5. ASSUME NEW op \in {"LoginOAuth", "LoginOAuthNative"}, NEW i \in Identities, getByProviderID(r, op, i)
      PROVE  Written(r)
  <2>1. UNCHANGED <<db, mem>>
    BY <1>5 DEF getByProviderID
  <2> QED  BY <1>5, <2>1 DEF Written, PastWritten
<1>6. ASSUME NEW op, NEW i \in DOMAIN letters, GetValidEmailToken(r, op, i) PROVE Written(r)
  <2>1. UNCHANGED <<db, mem, past>>
    BY <1>6 DEF GetValidEmailToken
  <2> QED  BY <2>1 DEF Written
<1>7. ASSUME NEW op, Authenticate(r, op) PROVE Written(r)
  <2>1. UNCHANGED <<db, mem, past>>
    BY <1>7 DEF Authenticate
  <2> QED  BY <2>1 DEF Written
<1>8. CASE issueSession(r)
  <2>1. UNCHANGED <<users, codes, letters, tokens, mem, past>>
    BY <1>8 DEF issueSession
  <2> QED  BY <1>8, <2>1 DEF Written, SessionsWritten
<1>9. CASE DeleteUserEmailTokens(r)
  <2>1. UNCHANGED <<users, codes, sessions, tokens, mem>>
    BY <1>9 DEF DeleteUserEmailTokens
  <2> QED  BY <1>9, <2>1 DEF Written, LettersWritten, PastWritten
<1>10. CASE CreateEmailToken(r)
  <2>1. UNCHANGED <<users, codes, sessions, tokens, mem, past>>
    BY <1>10 DEF CreateEmailToken
  <2> QED  BY <1>10, <2>1 DEF Written, LettersWritten
<1>11. CASE VerifyEmail(r)
  <2>1. UNCHANGED <<codes, sessions, tokens, mem>>
    BY <1>11 DEF VerifyEmail
  <2> QED  BY <1>11, <2>1 DEF Written, UsersWritten, LettersWritten, PastWritten
<1>12. CASE ConfirmPasswordReset(r)
  <2>1. UNCHANGED <<codes, tokens, mem>>
    BY <1>12 DEF ConfirmPasswordReset
  <2> QED  BY <1>12, <2>1 DEF Written, UsersWritten, LettersWritten, SessionsWritten, PastWritten
<1>13. CASE ChangePassword(r) \/ SetupTOTP(r) \/ DisableTOTP(r) \/ verifyTOTP(r) \/ GetUserByEmail(r)
  <2>1. UNCHANGED <<db, mem, past>>
    BY <1>13 DEF ChangePassword, SetupTOTP, DisableTOTP, verifyTOTP, GetUserByEmail
  <2> QED  BY <2>1 DEF Written
<1>14. CASE UpdateUserPassword(r)
  <2>1. UNCHANGED <<codes, letters, tokens, mem, past>>
    BY <1>14 DEF UpdateUserPassword
  <2> QED  BY <1>14, <2>1 DEF Written, UsersWritten, SessionsWritten
<1>15. ASSUME NEW e \in Emails, UpdateEmail(r, e) PROVE Written(r)
  <2>1. UNCHANGED <<codes, letters, sessions, tokens, mem>>
    BY <1>15 DEF UpdateEmail
  <2> QED  BY <1>15, <2>1 DEF Written, UsersWritten, PastWritten
<1>16. CASE Revoke(r)
  <2>1. UNCHANGED <<users, codes, letters, mem, past>>
    BY <1>16 DEF Revoke
  <2> QED  BY <1>16, <2>1 DEF Written, SessionsWritten, TokensWritten
<1>17. CASE DeleteAccount(r)
  <2>1. UNCHANGED <<mem, past>>
    BY <1>17 DEF DeleteAccount
  <2> QED  BY <1>17, <2>1 DEF Written, UsersWritten, CodesWritten, LettersWritten, SessionsWritten, TokensWritten
<1>18. CASE CreateToken(r)
  <2>1. UNCHANGED <<db, mem>>
    BY <1>18 DEF CreateToken
  <2> QED  BY <1>18, <2>1 DEF Written, PastWritten
<1>19. CASE CountActiveTokens(r) \/ ListTokens(r)
  <2>1. UNCHANGED <<db, mem, past>>
    BY <1>19 DEF CountActiveTokens, ListTokens
  <2> QED  BY <2>1 DEF Written
<1>20. CASE PruneToken(r)
  <2>1. UNCHANGED <<users, codes, letters, sessions, mem, past>>
    BY <1>20 DEF PruneToken
  <2> QED  BY <1>20, <2>1 DEF Written, TokensWritten
<1>21. CASE CreateAPIToken(r)
  <2>1. UNCHANGED <<users, codes, letters, sessions, mem, past>>
    BY <1>21 DEF CreateAPIToken
  <2> QED  BY <1>21, <2>1 DEF Written, TokensWritten
<1>22. CASE StashNativeToken(r)
  <2>1. UNCHANGED <<db, challenges, past>>
    BY <1>22 DEF StashNativeToken
  <2> QED  BY <1>22, <2>1 DEF Written
<1>23. CASE SetTOTPSecret(r)
  <2>1. UNCHANGED <<codes, letters, sessions, tokens, mem>>
    BY <1>23 DEF SetTOTPSecret
  <2> QED  BY <1>23, <2>1 DEF Written, UsersWritten, PastWritten
<1>24. CASE EnableTOTP(r)
  <2>1. UNCHANGED <<db, mem>>
    BY <1>24 DEF EnableTOTP
  <2> QED  BY <1>24, <2>1 DEF Written, PastWritten
<1>25. CASE SetTOTPEnabled(r) \/ ClearTOTP(r)
  <2>1. UNCHANGED <<letters, sessions, tokens, mem>>
    BY <1>25 DEF SetTOTPEnabled, ClearTOTP
  <2> QED  BY <1>25, <2>1 DEF Written, UsersWritten, CodesWritten, PastWritten
<1>26. CASE Recover(r)
  <2>1. UNCHANGED <<users, letters, sessions, tokens, mem>>
    BY <1>26 DEF Recover
  <2> QED  BY <1>26, <2>1 DEF Written, CodesWritten, PastWritten
<1>27. CASE linkProviderID(r)
  <2>1. UNCHANGED <<codes, letters, sessions, tokens, mem>>
    BY <1>27 DEF linkProviderID
  <2> QED  BY <1>27, <2>1 DEF Written, UsersWritten, PastWritten
<1>28. CASE rereadOAuthUser(r)
  <2>1. UNCHANGED <<db, mem>>
    BY <1>28 DEF rereadOAuthUser
  <2> QED  BY <1>28, <2>1 DEF Written, PastWritten
<1>29. ASSUME NEW u \in Users, createOAuthUser(r, u) PROVE Written(r)
  <2>1. UNCHANGED <<codes, letters, sessions, tokens, mem>>
    BY <1>29 DEF createOAuthUser
  <2> QED  BY <1>29, <2>1 DEF Written, UsersWritten, PastWritten
<1>30. CASE Begin(r)
  BY <1>1, <1>2, <1>3, <1>4, <1>5, <1>6, <1>7, <1>30 DEF Begin
<1>31. CASE Step(r)
  BY <1>8, <1>9, <1>10, <1>11, <1>12, <1>13, <1>14, <1>15, <1>16, <1>17, <1>18, <1>19, <1>20, <1>21, <1>22,
     <1>23, <1>24, <1>25, <1>26, <1>27, <1>28, <1>29, <1>31 DEF Step
<1> QED  BY <1>30, <1>31

-------------------------------------------------------------------------------
(* A row keeps its owner, and what was spent or ended stays so.                          *)

Spent(letter) == letter.state \in {"used", "deleted"}

SameLetters(old, new) ==
    DOMAIN old \subseteq DOMAIN new /\ \A i \in DOMAIN old :
        /\ new[i].u = old[i].u /\ new[i].kind = old[i].kind /\ new[i].to = old[i].to /\ new[i].late = old[i].late
        /\ Spent(old[i]) => Spent(new[i])
SameSessions(old, new) ==
    DOMAIN old \subseteq DOMAIN new /\ \A s \in DOMAIN old :
        new[s].u = old[s].u /\ (new[s].state = "live" => old[s].state = "live")
SameTokens(old, new) ==
    DOMAIN old \subseteq DOMAIN new /\ \A t \in DOMAIN old :
        /\ new[t].u = old[t].u /\ new[t].kind = old[t].kind /\ new[t].excused = old[t].excused
        /\ new[t].active => old[t].active
SameChallenges(old, new) ==
    DOMAIN old \subseteq DOMAIN new /\ \A c \in DOMAIN old :
        new[c].u = old[c].u /\ new[c].pw = old[c].pw /\ (new[c].open => old[c].open)

\* A row that is left alone.
LEMMA SameRefl ==
    /\ \A a : SameLetters(a, a) /\ SameSessions(a, a) /\ SameTokens(a, a) /\ SameChallenges(a, a)
  BY DEF SameLetters, SameSessions, SameTokens, SameChallenges

\* The rows as records.
LEMMA RowTypes ==
    ASSUME TypeInv
    PROVE  /\ \A i \in DOMAIN letters : letters[i] \in Letter
           /\ \A s \in DOMAIN sessions : sessions[s] \in Session
           /\ \A t \in DOMAIN tokens : tokens[t] \in Token
           /\ \A c \in DOMAIN challenges : challenges[c] \in Challenge
  BY RowIn DEF TypeInv, TablesOK

\* One letter used or expired, of the table.
LEMMA OneLetter ==
    ASSUME letters \in Seq(Letter), NEW i \in DOMAIN letters, ~Spent(letters[i]), NEW state \in {"used", "expired"},
           letters' = [letters EXCEPT ![i].state = state]
    PROVE  /\ letters' \in Seq(Letter) /\ SameLetters(letters, letters')
           /\ letters'[i].state = state
           /\ \A j \in DOMAIN letters \ {i} : letters'[j] = letters[j]
           /\ DOMAIN letters' = DOMAIN letters
<1> DEFINE row == [letters[i] EXCEPT !.state = state]
<1>1. letters[i] \in Letter
  BY RowIn
<1>2. /\ row \in Letter /\ row.u = letters[i].u /\ row.kind = letters[i].kind
      /\ row.to = letters[i].to /\ row.late = letters[i].late /\ row.state = state
  BY <1>1 DEF Letter
<1>3. letters' = [letters EXCEPT ![i] = row]
  OBVIOUS
<1> HIDE DEF row
<1>4. /\ letters' \in Seq(Letter) /\ DOMAIN letters' = DOMAIN letters /\ letters'[i] = row
      /\ \A j \in DOMAIN letters \ {i} : letters'[j] = letters[j]
  BY <1>2, <1>3, RowRewritten
<1> QED  BY <1>2, <1>4 DEF SameLetters

\* All letters of some kind deleted.
LEMMA LettersDropped ==
    ASSUME letters \in Seq(Letter), NEW D,
           letters' = [i \in DOMAIN letters |->
                         IF i \in D THEN [letters[i] EXCEPT !.state = "deleted"] ELSE letters[i]]
    PROVE  /\ letters' \in Seq(Letter) /\ SameLetters(letters, letters') /\ DOMAIN letters' = DOMAIN letters
           /\ \A i \in DOMAIN letters : letters'[i].state = IF i \in D THEN "deleted" ELSE letters[i].state
<1>1. \A i \in DOMAIN letters : letters[i] \in Letter
  BY RowIn
<1>2. \A i \in DOMAIN letters :
        /\ letters'[i] \in Letter /\ letters'[i].u = letters[i].u /\ letters'[i].kind = letters[i].kind
        /\ letters'[i].to = letters[i].to /\ letters'[i].late = letters[i].late
        /\ letters'[i].state = IF i \in D THEN "deleted" ELSE letters[i].state
  BY <1>1 DEF Letter
<1>3. letters' \in [DOMAIN letters -> Letter]
  BY <1>2
<1>4. letters' \in Seq(Letter) /\ DOMAIN letters' = DOMAIN letters
  BY <1>3, RowsRewritten
<1> QED  BY <1>2, <1>4 DEF SameLetters, Spent

LEMMA LettersStep ==
    ASSUME TypeInv, NEW r \in Reqs, LettersWritten(r)
    PROVE  letters' \in Seq(Letter) /\ SameLetters(letters, letters')
<1>0. letters \in Seq(Letter) /\ req[r] \in Request /\ Fits(req[r], letters, sessions, tokens, past.confirmed)
  BY DEF TypeInv, TablesOK, RequestsOK
<1>1. CASE DeleteUserEmailTokens(r)
  <2> DEFINE D == {i \in DOMAIN letters : letters[i].u = req[r].u /\ letters[i].kind = KindOf(req[r].op)}
  <2>1. \/ letters' = letters
        \/ letters' = [i \in DOMAIN letters |->
                         IF i \in D THEN [letters[i] EXCEPT !.state = "deleted"] ELSE letters[i]]
    BY <1>1 DEF DeleteUserEmailTokens
  <2> HIDE DEF D
  <2> QED  BY <1>0, <2>1, LettersDropped, SameRefl
<1>2. CASE CreateEmailToken(r)
  <2> DEFINE row == [u |-> req[r].u, kind |-> KindOf(req[r].op), to |-> req[r].email,
                     late |-> users[req[r].u].email # req[r].email, state |-> "valid"]
  <2>1. At(r, "mail") /\ letters' \in {letters, Append(letters, row)}
    BY <1>2 DEF CreateEmailToken
  <2>2. row \in Letter
    BY <1>0, <2>1 DEF At, Fits, Letter, KindOf
  <2> HIDE DEF row
  <2> QED  BY <1>0, <2>1, <2>2, RowAdded, SameRefl DEF SameLetters
<1>3. CASE VerifyEmail(r) \/ ConfirmPasswordReset(r)
  <2>1. /\ At(r, "consume")
        /\ \/ letters' = letters
           \/ MarkEmailTokenUsed(req[r].id) /\ letters' = [letters EXCEPT ![req[r].id].state = "used"]
    BY <1>3 DEF VerifyEmail, ConfirmPasswordReset
  <2>2. req[r].id \in DOMAIN letters
    BY <1>0, <2>1 DEF Fits, At
  <2>3. MarkEmailTokenUsed(req[r].id) => ~Spent(letters[req[r].id])
    BY DEF MarkEmailTokenUsed, Spent
  <2> QED  BY <1>0, <2>1, <2>2, <2>3, OneLetter, SameRefl
<1>4. CASE DeleteAccount(r)
  <2> DEFINE D == {i \in DOMAIN letters : letters[i].u = req[r].u}
  <2>1. letters' = [i \in DOMAIN letters |->
                      IF i \in D THEN [letters[i] EXCEPT !.state = "deleted"] ELSE letters[i]]
    BY <1>4 DEF DeleteAccount
  <2> HIDE DEF D
  <2> QED  BY <1>0, <2>1, LettersDropped
<1> QED  BY <1>1, <1>2, <1>3, <1>4 DEF LettersWritten

\* One session ended.
LEMMA OneSession ==
    ASSUME sessions \in Seq(Session), NEW s \in DOMAIN sessions, NEW state \in {"revoked", "expired"},
           sessions' = [sessions EXCEPT ![s].state = state]
    PROVE  /\ sessions' \in Seq(Session) /\ SameSessions(sessions, sessions') /\ DOMAIN sessions' = DOMAIN sessions
           /\ sessions'[s].state = state
           /\ \A x \in DOMAIN sessions \ {s} : sessions'[x] = sessions[x]
<1> DEFINE row == [sessions[s] EXCEPT !.state = state]
<1>1. sessions[s] \in Session
  BY RowIn
<1>2. row \in Session /\ row.u = sessions[s].u /\ row.state = state
  BY <1>1 DEF Session
<1>3. sessions' = [sessions EXCEPT ![s] = row]
  OBVIOUS
<1> HIDE DEF row
<1>4. /\ sessions' \in Seq(Session) /\ DOMAIN sessions' = DOMAIN sessions /\ sessions'[s] = row
      /\ \A x \in DOMAIN sessions \ {s} : sessions'[x] = sessions[x]
  BY <1>2, <1>3, RowRewritten
<1> QED  BY <1>2, <1>4 DEF SameSessions

\* What a change of the password does to the sessions of its account.
LEMMA RevokedSessions ==
    ASSUME TypeInv, NEW u \in Users, NEW keep, RevokeSessions(u, keep)
    PROVE  /\ sessions' \in Seq(Session) /\ SameSessions(sessions, sessions') /\ DOMAIN sessions' = DOMAIN sessions
           /\ \A s \in DOMAIN sessions :
                 /\ sessions[s].u # u \/ ~LiveSession(s) => sessions'[s] = sessions[s]
                 /\ sessions[s].u = u /\ LiveSession(s) =>
                       IF s = keep THEN sessions'[s].proven = users[u].pw + 1 /\ sessions'[s].opened = users[u].pw + 1
                       ELSE sessions'[s].state = "revoked"
<1>1. sessions \in Seq(Session) /\ users[u].pw + 1 \in Nat /\ \A s \in DOMAIN sessions : sessions[s] \in Session
  BY RowTypes DEF TypeInv, TablesOK, UsersOK, Account
<1>2. DOMAIN sessions' = DOMAIN sessions /\ \A s \in DOMAIN sessions :
        /\ sessions[s].u # u \/ ~LiveSession(s) => sessions'[s] = sessions[s]
        /\ sessions[s].u = u /\ LiveSession(s) /\ s = keep =>
              sessions'[s] = [sessions[s] EXCEPT !.proven = users[u].pw + 1, !.opened = users[u].pw + 1]
        /\ sessions[s].u = u /\ LiveSession(s) /\ s # keep =>
              sessions'[s] = [sessions[s] EXCEPT !.state = "revoked"]
  BY DEF RevokeSessions
<1>3. \A s \in DOMAIN sessions :
        /\ sessions'[s] \in Session /\ sessions'[s].u = sessions[s].u
        /\ sessions'[s].state = "live" => sessions[s].state = "live"
        /\ sessions[s].u = u /\ LiveSession(s) =>
              IF s = keep THEN sessions'[s].proven = users[u].pw + 1 /\ sessions'[s].opened = users[u].pw + 1
                       ELSE sessions'[s].state = "revoked"
  <2> SUFFICES ASSUME NEW s \in DOMAIN sessions
               PROVE  /\ sessions'[s] \in Session /\ sessions'[s].u = sessions[s].u
                      /\ sessions'[s].state = "live" => sessions[s].state = "live"
                      /\ sessions[s].u = u /\ LiveSession(s) =>
                            IF s = keep THEN sessions'[s].proven = users[u].pw + 1 /\ sessions'[s].opened = users[u].pw + 1
                                        ELSE sessions'[s].state = "revoked"
    OBVIOUS
  <2> DEFINE n == users[u].pw + 1
             taken == [sessions[s] EXCEPT !.proven = n, !.opened = n]
             ended == [sessions[s] EXCEPT !.state = "revoked"]
  <2>1. sessions[s] \in Session /\ n \in Nat
    BY <1>1
  <2>2. /\ sessions[s].u # u \/ ~LiveSession(s) => sessions'[s] = sessions[s]
        /\ sessions[s].u = u /\ LiveSession(s) => sessions'[s] = IF s = keep THEN taken ELSE ended
    BY <1>2
  <2> HIDE DEF n
  <2>3. taken \in Session /\ taken.u = sessions[s].u /\ taken.proven = n /\ taken.opened = n /\ taken.state = sessions[s].state
    BY <2>1 DEF Session
  <2>4. ended \in Session /\ ended.u = sessions[s].u /\ ended.state = "revoked"
    BY <2>1 DEF Session
  <2> HIDE DEF taken, ended
  <2>5. /\ sessions'[s] \in Session /\ sessions'[s].u = sessions[s].u
        /\ sessions'[s].state = "live" => sessions[s].state = "live"
        /\ sessions[s].u = u /\ LiveSession(s) =>
              IF s = keep THEN sessions'[s].proven = n /\ sessions'[s].opened = n ELSE sessions'[s].state = "revoked"
    BY <2>1, <2>2, <2>3, <2>4 DEF LiveSession
  <2> QED  BY <2>5 DEF n
<1>4. sessions' \in [DOMAIN sessions -> Session]
  BY <1>2, <1>3 DEF RevokeSessions
<1>5. sessions' \in Seq(Session)
  BY <1>1, <1>4, RowsRewritten
<1> QED  BY <1>2, <1>3, <1>5 DEF SameSessions

LEMMA SessionsStep ==
    ASSUME TypeInv, NEW r \in Reqs, SessionsWritten(r)
    PROVE  sessions' \in Seq(Session) /\ SameSessions(sessions, sessions')
<1>0. /\ sessions \in Seq(Session) /\ users \in [Users -> Account]
      /\ req[r] \in Request /\ Fits(req[r], letters, sessions, tokens, past.confirmed)
  BY DEF TypeInv, TablesOK, RequestsOK, UsersOK
<1>1. CASE issueSession(r)
  <2> DEFINE row == [u |-> req[r].u, state |-> "live", proven |-> req[r].saw, opened |-> users[req[r].u].pw]
  <2>1. At(r, "session") /\ sessions' \in {sessions, Append(sessions, row)}
    BY <1>1 DEF issueSession
  <2>2. row \in Session
    BY <1>0, <2>1 DEF At, Fits, Session, Account, Request
  <2> HIDE DEF row
  <2> QED  BY <1>0, <2>1, <2>2, RowAdded, SameRefl DEF SameSessions
<1>2. CASE ConfirmPasswordReset(r) \/ UpdateUserPassword(r)
  <2>1. req[r].u \in Users
    BY <1>0, <1>2 DEF ConfirmPasswordReset, UpdateUserPassword, Fits, At
  <2>2. sessions' = sessions \/ RevokeSessions(req[r].u, 0) \/ RevokeSessions(req[r].u, req[r].id)
    BY <1>2 DEF ConfirmPasswordReset, UpdateUserPassword
  <2> QED  BY <1>0, <2>1, <2>2, RevokedSessions, SameRefl
<1>3. CASE Revoke(r)
  <2>1. PICK s : sessions' = sessions \/ (s \in DOMAIN sessions /\ sessions' = [sessions EXCEPT ![s].state = "revoked"])
    <3>1. At(r, "authed") /\ (req[r].id # 0 => req[r].id \in DOMAIN sessions)
      BY <1>0, <1>3 DEF Revoke, Fits, At
    <3> QED  BY <1>3, <3>1 DEF Revoke, SessionsOf
  <2> QED  BY <1>0, <2>1, OneSession, SameRefl
<1>4. CASE DeleteAccount(r)
  <2>1. sessions' = [s \in DOMAIN sessions |->
                       IF sessions[s].u = req[r].u THEN [sessions[s] EXCEPT !.state = "revoked"] ELSE sessions[s]]
    BY <1>4 DEF DeleteAccount
  <2>0. \A s \in DOMAIN sessions : sessions[s] \in Session
    BY RowTypes
  <2>2. \A s \in DOMAIN sessions :
          /\ sessions'[s] \in Session /\ sessions'[s].u = sessions[s].u
          /\ sessions'[s].state = "live" => sessions[s].state = "live"
    BY <2>0, <2>1 DEF Session
  <2>3. sessions' \in [DOMAIN sessions -> Session]
    BY <2>1, <2>2
  <2> QED  BY <1>0, <2>2, <2>3, RowsRewritten DEF SameSessions
<1> QED  BY <1>1, <1>2, <1>3, <1>4 DEF SessionsWritten

\* One token ended.
LEMMA OneToken ==
    ASSUME tokens \in Seq(Token), NEW t \in DOMAIN tokens, tokens' = [tokens EXCEPT ![t].active = FALSE]
    PROVE  /\ tokens' \in Seq(Token) /\ SameTokens(tokens, tokens') /\ DOMAIN tokens' = DOMAIN tokens
           /\ ~tokens'[t].active /\ \A x \in DOMAIN tokens \ {t} : tokens'[x] = tokens[x]
<1>1. \A x \in DOMAIN tokens : tokens[x] \in Token
  BY RowIn
<1>2. /\ tokens'[t] \in Token /\ tokens'[t].u = tokens[t].u /\ tokens'[t].kind = tokens[t].kind
      /\ tokens'[t].excused = tokens[t].excused /\ ~tokens'[t].active
  BY <1>1 DEF Token
<1>3. DOMAIN tokens' = DOMAIN tokens /\ \A x \in DOMAIN tokens \ {t} : tokens'[x] = tokens[x]
  OBVIOUS
<1>4. tokens' \in [DOMAIN tokens -> Token]
  BY <1>1, <1>2, <1>3
<1>5. tokens' \in Seq(Token)
  BY <1>4, RowsRewritten
<1> QED  BY <1>2, <1>3, <1>5 DEF SameTokens

\* A token created.
LEMMA NewToken ==
    ASSUME tokens \in Seq(Token), NEW row \in Token, tokens' = Append(tokens, row)
    PROVE  /\ tokens' \in Seq(Token) /\ SameTokens(tokens, tokens')
           /\ Len(tokens') = Len(tokens) + 1 /\ Len(tokens') \in Nat /\ Len(tokens') \notin DOMAIN tokens
           /\ DOMAIN tokens' = DOMAIN tokens \cup {Len(tokens')} /\ tokens'[Len(tokens')] = row
           /\ \A t \in DOMAIN tokens : tokens'[t] = tokens[t]
  BY RowAdded DEF SameTokens

LEMMA TokensStep ==
    ASSUME TypeInv, NEW r \in Reqs, TokensWritten(r)
    PROVE  tokens' \in Seq(Token) /\ SameTokens(tokens, tokens')
<1>0. /\ tokens \in Seq(Token) /\ req[r] \in Request
      /\ Fits(req[r], letters, sessions, tokens, past.confirmed)
  BY DEF TypeInv, TablesOK, RequestsOK
<1>1. CASE Revoke(r) \/ PruneToken(r)
  <2>1. PICK t : tokens' = tokens \/ (t \in DOMAIN tokens /\ tokens' = [tokens EXCEPT ![t].active = FALSE])
    <3>1. CASE Revoke(r)
      <4>1. At(r, "authed") /\ (req[r].id = 0 => req[r].victims[1] \in DOMAIN tokens)
        BY <1>0, <3>1 DEF Revoke, Fits, At
      <4> QED  BY <3>1, <4>1 DEF Revoke, ActiveTokens
    <3>2. CASE PruneToken(r)
      <4>1. req[r].victims # <<>> /\ \A i \in DOMAIN req[r].victims : req[r].victims[i] \in DOMAIN tokens
        BY <1>0, <3>2 DEF PruneToken, Fits, At
      <4>2. req[r].victims[1] \in DOMAIN tokens
        BY <1>0, <4>1, EmptySeq, LenProperties DEF Request
      <4> QED  BY <3>2, <4>2 DEF PruneToken
    <3> QED  BY <1>1, <3>1, <3>2
  <2> QED  BY <1>0, <2>1, OneToken, SameRefl
<1>2. CASE DeleteAccount(r)
  <2>1. tokens' = [t \in DOMAIN tokens |-> IF tokens[t].u = req[r].u THEN [tokens[t] EXCEPT !.active = FALSE] ELSE tokens[t]]
    BY <1>2 DEF DeleteAccount
  <2>2. \A t \in DOMAIN tokens : tokens[t] \in Token
    BY <1>0, RowIn
  <2>3. \A t \in DOMAIN tokens :
          /\ tokens'[t] \in Token /\ tokens'[t].u = tokens[t].u /\ tokens'[t].kind = tokens[t].kind
          /\ tokens'[t].excused = tokens[t].excused /\ (tokens'[t].active => tokens[t].active)
    BY <2>1, <2>2 DEF Token
  <2>4. tokens' \in [DOMAIN tokens -> Token]
    BY <2>1, <2>3
  <2>5. tokens' \in Seq(Token) /\ DOMAIN tokens' = DOMAIN tokens
    BY <1>0, <2>4, RowsRewritten
  <2> QED  BY <2>3, <2>5 DEF SameTokens
<1>3. CASE CreateAPIToken(r)
  <2> DEFINE row == [u |-> req[r].u, kind |-> IF req[r].op = "CreateToken" THEN "pat" ELSE "device",
                     excused |-> req[r].excused, active |-> TRUE]
  <2>1. At(r, "token") /\ tokens' \in {tokens, Append(tokens, row)}
    BY <1>3 DEF CreateAPIToken
  <2>2. row \in Token
    BY <1>0, <2>1 DEF At, Fits, Token, Request
  <2> HIDE DEF row
  <2> QED  BY <1>0, <2>1, <2>2, NewToken, SameRefl
<1> QED  BY <1>1, <1>2, <1>3 DEF TokensWritten

\* One challenge taken or expired.
LEMMA OneChallenge ==
    ASSUME challenges \in Seq(Challenge), NEW c \in DOMAIN challenges,
           challenges' = [challenges EXCEPT ![c].open = FALSE]
    PROVE  /\ challenges' \in Seq(Challenge) /\ SameChallenges(challenges, challenges')
           /\ ~challenges'[c].open /\ DOMAIN challenges' = DOMAIN challenges
<1>1. \A x \in DOMAIN challenges : challenges[x] \in Challenge
  BY RowIn
<1>2. challenges'[c] \in Challenge /\ challenges'[c].u = challenges[c].u /\ challenges'[c].pw = challenges[c].pw /\ ~challenges'[c].open
  BY <1>1 DEF Challenge
<1>3. DOMAIN challenges' = DOMAIN challenges /\ \A x \in DOMAIN challenges \ {c} : challenges'[x] = challenges[x]
  OBVIOUS
<1>4. challenges' \in [DOMAIN challenges -> Challenge]
  BY <1>1, <1>2, <1>3
<1>5. challenges' \in Seq(Challenge)
  BY <1>4, RowsRewritten
<1> QED  BY <1>2, <1>3, <1>5 DEF SameChallenges

LEMMA ChallengesStep ==
    ASSUME TypeInv, NEW r \in Reqs, ChallengesWritten(r)
    PROVE  challenges' \in Seq(Challenge) /\ SameChallenges(challenges, challenges')
<1>0. challenges \in Seq(Challenge)
  BY DEF TypeInv, TablesOK
<1>1. ASSUME NEW op \in {"Login", "LoginNative"}, NEW u \in Users, Login(r, op, u)
      PROVE  challenges' \in Seq(Challenge) /\ SameChallenges(challenges, challenges')
  <2> DEFINE row == [u |-> u, native |-> op = "LoginNative", open |-> TRUE, pw |-> users[u].pw]
  <2>0. users[u].pw \in Nat
    BY DEF TypeInv, UsersOK, Account
  <2>1. challenges' \in {challenges, Append(challenges, row)} /\ row \in Challenge
    BY <1>1, <2>0 DEF Login, Challenge
  <2> HIDE DEF row
  <2> QED  BY <1>0, <2>1, RowAdded, SameRefl DEF SameChallenges
<1>2. ASSUME NEW op, NEW c \in DOMAIN challenges, TakeChallenge(r, op, c)
      PROVE  challenges' \in Seq(Challenge) /\ SameChallenges(challenges, challenges')
  BY <1>0, <1>2, OneChallenge DEF TakeChallenge
<1> QED  BY <1>1, <1>2 DEF ChallengesWritten

-------------------------------------------------------------------------------
(* The accounts.                                                                         *)

\* One account rewritten: with an address and an identity nobody else has.
LEMMA OneUser ==
    ASSUME UsersOK, NEW u \in Users, NEW row \in Account, users' = [users EXCEPT ![u] = row],
           row.state = "live" =>
              /\ row.email \in Emails
              /\ \A v \in Users \ {u} : Live(v) =>
                    users[v].email # row.email /\ (row.sub = None \/ users[v].sub # row.sub)
    PROVE  UsersOK'
<1>1. users' \in [Users -> Account] /\ users'[u] = row /\ \A v \in Users \ {u} : users'[v] = users[v]
  BY DEF UsersOK
<1>2. Addressed'
  BY <1>1 DEF UsersOK, Addressed, Live
<1>3. Unique'
  <2> SUFFICES ASSUME NEW v \in Users, NEW w \in Users, Live(v)', Live(w)', v # w
               PROVE  /\ users'[v].email # users'[w].email
                      /\ users'[v].sub = None \/ users'[v].sub # users'[w].sub
    BY DEF Unique, Live
  <2>1. CASE v # u /\ w # u
    BY <1>1, <2>1 DEF UsersOK, Unique, Live
  <2>2. CASE v = u
    BY <1>1, <2>2 DEF Live
  <2>3. CASE w = u
    BY <1>1, <2>3 DEF Live
  <2> QED  BY <2>1, <2>2, <2>3
<1> QED  BY <1>1, <1>2, <1>3 DEF UsersOK

\* One account rewritten, with the address and the identity it had.
LEMMA SameNames ==
    ASSUME UsersOK, NEW u \in Users, NEW row \in Account, users' = [users EXCEPT ![u] = row],
           row.state = "live" => Live(u) /\ row.email = users[u].email /\ row.sub = users[u].sub
    PROVE  UsersOK'
<1>1. row.state = "live" =>
         /\ row.email \in Emails
         /\ \A v \in Users \ {u} : Live(v) =>
               users[v].email # row.email /\ (row.sub = None \/ users[v].sub # row.sub)
  BY DEF UsersOK, Addressed, Unique
<1> QED  BY <1>1, OneUser

LEMMA UsersStep ==
    ASSUME TypeInv, NEW r \in Reqs, UsersWritten(r)
    PROVE  UsersOK'
<1>0. /\ UsersOK /\ users \in [Users -> Account] /\ req[r] \in Request
      /\ Fits(req[r], letters, sessions, tokens, past.confirmed)
      /\ past.secrets + 1 \in Nat
  BY DEF TypeInv, RequestsOK, UsersOK, PastOK, History
<1>00. UNCHANGED users => UsersOK'
  BY <1>0 DEF UsersOK, Addressed, Unique, Live
<1>1. ASSUME NEW u \in Users, NEW e \in Emails, Register(r, u, e) PROVE UsersOK'
  <2> DEFINE row == [NoAccount EXCEPT !.state = "live", !.email = e]
  <2>1. users' = users \/ (WithEmail(e) = {} /\ users' = [users EXCEPT ![u] = row])
    BY <1>1 DEF Register
  <2>2. row \in Account /\ row.email = e /\ row.sub = None
    BY DEF NoAccount, Account
  <2> HIDE DEF row
  <2>3. WithEmail(e) = {} => \A v \in Users : Live(v) => users[v].email # e
    BY DEF WithEmail
  <2>4. CASE users' = users
    BY <1>00, <2>4
  <2>5. CASE WithEmail(e) = {} /\ users' = [users EXCEPT ![u] = row]
    BY <1>0, <2>2, <2>3, <2>5, OneUser
  <2> QED  BY <2>1, <2>4, <2>5
<1>2. ASSUME NEW e \in Emails, UpdateEmail(r, e) PROVE UsersOK'
  <2> DEFINE u == req[r].u
             row == [users[u] EXCEPT !.email = e, !.verified = FALSE]
  <2>1. \/ users' = users
        \/ /\ Live(u) /\ WithEmail(e) \ {u} = {}
           /\ users' = [users EXCEPT ![u] = row]
    BY <1>2 DEF UpdateEmail
  <2>2. u \in Users
    BY <1>0, <1>2 DEF UpdateEmail, Authed, At, Fits
  <2>3. row \in Account /\ row.email = e /\ row.sub = users[u].sub
    BY <1>0, <2>2, ZenonT(40) DEF Account
  <2> HIDE DEF row, u
  <2>4. CASE users' = users
    BY <1>00, <2>4
  <2>5. CASE Live(u) /\ WithEmail(e) \ {u} = {} /\ users' = [users EXCEPT ![u] = row]
    <3>1. \A v \in Users \ {u} : Live(v) => users[v].email # e
      BY <2>5 DEF WithEmail
    <3>2. \A v \in Users \ {u} : Live(v) => (users[u].sub = None \/ users[v].sub # users[u].sub)
      BY <1>0, <2>2, <2>5 DEF UsersOK, Unique
    <3> QED  BY <1>0, <2>2, <2>3, <2>5, <3>1, <3>2, OneUser
  <2> QED  BY <2>1, <2>4, <2>5
<1>3. ASSUME NEW u \in Users, createOAuthUser(r, u) PROVE UsersOK'
  <2> DEFINE i == req[r].who
             row == OAuthAccount(i)
  <2>1. \/ users' = users
        \/ WithSub(i) = {} /\ WithEmail(EmailOf[i]) = {} /\ users' = [users EXCEPT ![u] = row]
    BY <1>3 DEF createOAuthUser
  <2>2. i \in Identities
    BY <1>0, <1>3 DEF createOAuthUser, At, Fits
  <2>3. row \in Account /\ row.email = EmailOf[i] /\ EmailOf[i] \in Emails /\ row.sub = i
    BY <2>2, AccountsAssumption DEF OAuthAccount, NoAccount, Account
  <2> HIDE DEF row, i
  <2>4. CASE users' = users
    BY <1>00, <2>4
  <2>5. CASE WithSub(i) = {} /\ WithEmail(EmailOf[i]) = {} /\ users' = [users EXCEPT ![u] = row]
    <3>1. \A v \in Users : Live(v) => users[v].email # EmailOf[i] /\ users[v].sub # i
      BY <2>5 DEF WithEmail, WithSub
    <3> QED  BY <1>0, <2>3, <2>5, <3>1, OneUser
  <2> QED  BY <2>1, <2>4, <2>5
<1>4. CASE linkProviderID(r)
  <2> DEFINE u == req[r].u
             i == req[r].who
             row == [users[u] EXCEPT !.sub = i, !.verified = TRUE]
  <2>1. \/ users' = users
        \/ /\ Live(u) /\ WithSub(i) \ {u} = {}
           /\ users' = [users EXCEPT ![u] = row]
    BY <1>4 DEF linkProviderID
  <2>2. u \in Users /\ i \in Identities
    BY <1>0, <1>4 DEF linkProviderID, At, Fits
  <2>3. row \in Account /\ row.email = users[u].email /\ row.sub = i
    BY <1>0, <2>2, ZenonT(40) DEF Account
  <2> HIDE DEF row, u, i
  <2>4. CASE users' = users
    BY <1>00, <2>4
  <2>5. CASE Live(u) /\ WithSub(i) \ {u} = {} /\ users' = [users EXCEPT ![u] = row]
    <3>1. \A v \in Users \ {u} : Live(v) => users[v].sub # i
      BY <2>5 DEF WithSub
    <3>2. \A v \in Users \ {u} : Live(v) => users[v].email # users[u].email
      BY <1>0, <2>2, <2>5 DEF UsersOK, Unique
    <3>3. users[u].email \in Emails
      BY <1>0, <2>2, <2>5 DEF UsersOK, Addressed
    <3> QED  BY <1>0, <2>2, <2>3, <2>5, <3>1, <3>2, <3>3, OneUser
  <2> QED  BY <2>1, <2>4, <2>5
<1>5. CASE VerifyEmail(r)
  <2> DEFINE u == req[r].u
             row == [users[u] EXCEPT !.verified = TRUE]
  <2>1. users' \in {users, [users EXCEPT ![u] = row]} /\ u \in Users
    BY <1>0, <1>5 DEF VerifyEmail, At, Fits
  <2>2. row \in Account /\ row.email = users[u].email /\ row.sub = users[u].sub /\ row.state = users[u].state
    BY <1>0, <2>1, ZenonT(40) DEF Account
  <2> HIDE DEF row, u
  <2> QED  BY <1>0, <1>00, <2>1, <2>2, SameNames DEF Live
<1>6. CASE ConfirmPasswordReset(r) \/ UpdateUserPassword(r)
  <2> DEFINE u == req[r].u
             row == [users[u] EXCEPT !.pw = users[u].pw + 1]
  <2>1. users' \in {users, [users EXCEPT ![u] = row]} /\ u \in Users
    BY <1>0, <1>6 DEF ConfirmPasswordReset, UpdateUserPassword, At, Fits
  <2>2. row \in Account /\ row.email = users[u].email /\ row.sub = users[u].sub /\ row.state = users[u].state
    BY <1>0, <2>1 DEF Account
  <2> HIDE DEF row, u
  <2> QED  BY <1>0, <1>00, <2>1, <2>2, SameNames DEF Live
<1>7. CASE DeleteAccount(r)
  <2> DEFINE u == req[r].u
             row == [NoAccount EXCEPT !.state = "deleted"]
  <2>1. users' \in {users, [users EXCEPT ![u] = row]} /\ u \in Users
    BY <1>0, <1>7 DEF DeleteAccount, Authed, At, Fits
  <2>2. row \in Account /\ row.state = "deleted"
    BY DEF NoAccount, Account
  <2> HIDE DEF row, u
  <2> QED  BY <1>0, <1>00, <2>1, <2>2, SameNames
<1>8. CASE SetTOTPSecret(r)
  <2> DEFINE u == req[r].u
             row == [users[u] EXCEPT !.secret = past.secrets + 1]
  <2>1. users' \in {users, [users EXCEPT ![u] = row]} /\ u \in Users
    BY <1>0, <1>8 DEF SetTOTPSecret, At, Fits
  <2>2. row \in Account /\ row.email = users[u].email /\ row.sub = users[u].sub /\ row.state = users[u].state
    BY <1>0, <2>1 DEF Account
  <2> HIDE DEF row, u
  <2> QED  BY <1>0, <1>00, <2>1, <2>2, SameNames DEF Live
<1>9. CASE SetTOTPEnabled(r)
  <2> DEFINE u == req[r].u
             row == [users[u] EXCEPT !.enabled = TRUE]
  <2>1. users' \in {users, [users EXCEPT ![u] = row]} /\ u \in Users
    BY <1>0, <1>9 DEF SetTOTPEnabled, At, Fits
  <2>2. row \in Account /\ row.email = users[u].email /\ row.sub = users[u].sub /\ row.state = users[u].state
    BY <1>0, <2>1, ZenonT(40) DEF Account
  <2> HIDE DEF row, u
  <2> QED  BY <1>0, <1>00, <2>1, <2>2, SameNames DEF Live
<1>10. CASE ClearTOTP(r)
  <2> DEFINE u == req[r].u
             row == [users[u] EXCEPT !.secret = 0, !.enabled = FALSE]
  <2>1. users' \in {users, [users EXCEPT ![u] = row]} /\ u \in Users
    BY <1>0, <1>10 DEF ClearTOTP, At, Fits
  <2>2. row \in Account /\ row.email = users[u].email /\ row.sub = users[u].sub /\ row.state = users[u].state
    <3>1. users[u] \in Account
      BY <1>0, <2>1
    <3> HIDE DEF u
    <3> QED  BY <3>1 DEF Account
  <2> HIDE DEF row, u
  <2> QED  BY <1>0, <1>00, <2>1, <2>2, SameNames DEF Live
<1> QED  BY <1>1, <1>2, <1>3, <1>4, <1>5, <1>6, <1>7, <1>8, <1>9, <1>10 DEF UsersWritten

-------------------------------------------------------------------------------
(* The history and the recovery codes.                                                   *)

\* What the history only gains.
Remembers == past.confirmed \subseteq past'.confirmed /\ past.sets <= past'.sets

\* A history that is written.
LEMMA PastRecorded ==
    ASSUME TypeInv, NEW spent, past' \in History(spent), past'.spent = spent,
           past.confirmed \subseteq past'.confirmed, past'.sets \in {past.sets, past.sets + 1}
    PROVE  PastOK' /\ Remembers
<1>1. past.sets \in Nat
  BY DEF TypeInv, PastOK, History
<1> QED  BY <1>1 DEF PastOK, Remembers

LEMMA PastStep ==
    ASSUME TypeInv, NEW r \in Reqs, PastWritten(r)
    PROVE  PastOK' /\ Remembers
<1>0. /\ users \in [Users -> Account] /\ req[r] \in Request
      /\ Fits(req[r], letters, sessions, tokens, past.confirmed)
  BY DEF TypeInv, RequestsOK, UsersOK
<1>p. past \in History(past.spent)
  BY DEF TypeInv, PastOK
<1>00. ASSUME past' = past PROVE PastOK' /\ Remembers
  BY <1>p, <1>00, PastRecorded
<1>1. CASE DeleteUserEmailTokens(r)
  <2>1. past' \in {past, [past EXCEPT !.dangling = past.dangling \ {req[r].u}]}
    BY <1>1 DEF DeleteUserEmailTokens
  <2>2. ASSUME past' = [past EXCEPT !.dangling = past.dangling \ {req[r].u}] PROVE PastOK' /\ Remembers
    <3>1. past' \in History(past.spent) /\ past'.spent = past.spent
          /\ past'.confirmed = past.confirmed /\ past'.sets = past.sets
      BY <1>p, <2>2 DEF History
    <3> QED  BY <3>1, PastRecorded
  <2> QED  BY <1>00, <2>1, <2>2
<1>2. CASE VerifyEmail(r)
  <2> DEFINE u == req[r].u
             i == req[r].id
             spent == past.spent (+) SetToBag({<<"letter", i>>})
             proven == past.proven \cup {<<u, letters[i].to>>}
             slip == letters[i].to # users[u].email /\ (letters[i].late \/ u \in past.dangling)
             slipped == IF slip THEN past.slipped \cup {u} ELSE past.slipped
  <2>1. At(r, "consume")
    BY <1>2 DEF VerifyEmail
  <2>2. u \in Users /\ i \in DOMAIN letters
    BY <1>0, <2>1 DEF At, Fits
  <2>3. letters[i].to \in Emails
    BY <2>2, RowTypes DEF Letter
  <2>4. past' = past \/ past' = [past EXCEPT !.spent = spent, !.proven = proven, !.slipped = slipped]
    BY <1>2 DEF VerifyEmail
  <2>5. slipped \in SUBSET Users
    <3>1. past.slipped \in SUBSET Users
      BY <1>p DEF History
    <3> QED  BY <2>2, <3>1
  <2>6. proven \in SUBSET (Users \X Emails)
    <3>1. past.proven \in SUBSET (Users \X Emails)
      BY <1>p DEF History
    <3> QED  BY <2>2, <2>3, <3>1
  <2> HIDE DEF spent, proven, slipped, slip, u, i
  <2>7. ASSUME past' = [past EXCEPT !.spent = spent, !.proven = proven, !.slipped = slipped]
        PROVE  PastOK' /\ Remembers
    <3>1. past' \in History(spent) /\ past'.spent = spent
      BY <1>p, <2>5, <2>6, <2>7 DEF History
    <3>2. past'.confirmed = past.confirmed /\ past'.sets = past.sets
      BY <1>p, <2>7 DEF History
    <3> QED  BY <3>1, <3>2, PastRecorded
  <2> QED  BY <1>00, <2>4, <2>7
<1>3. ASSUME NEW spent, past' = [past EXCEPT !.spent = spent] PROVE PastOK' /\ Remembers
  <2>1. past' \in History(spent) /\ past'.spent = spent
        /\ past'.confirmed = past.confirmed /\ past'.sets = past.sets
    BY <1>p, <1>3 DEF History
  <2> QED  BY <2>1, PastRecorded
<1>4. CASE ConfirmPasswordReset(r) \/ Recover(r)
  <2>1. PICK x : past' = past \/ Spend(x)
    BY <1>4 DEF ConfirmPasswordReset, Recover
  <2>2. ASSUME Spend(x) PROVE PastOK' /\ Remembers
    BY <1>3, <2>2 DEF Spend
  <2> QED  BY <1>00, <2>1, <2>2
<1>5. ASSUME NEW op, NEW c, TakeChallenge(r, op, c) PROVE PastOK' /\ Remembers
  BY <1>3, <1>5 DEF TakeChallenge, Spend
<1>6. ASSUME NEW e \in Emails, UpdateEmail(r, e) PROVE PastOK' /\ Remembers
  <2> DEFINE dangling == past.dangling \cup {req[r].u}
             slipped == past.slipped \ {req[r].u}
  <2>1. req[r].u \in Users
    BY <1>0, <1>6 DEF UpdateEmail, Authed, At, Fits
  <2>2. past' = past \/ past' = [past EXCEPT !.dangling = dangling, !.slipped = slipped]
    BY <1>6 DEF UpdateEmail
  <2>3. dangling \in SUBSET Users /\ slipped \in SUBSET Users
    BY <1>p, <2>1 DEF History
  <2> HIDE DEF dangling, slipped
  <2>4. ASSUME past' = [past EXCEPT !.dangling = dangling, !.slipped = slipped] PROVE PastOK' /\ Remembers
    <3>1. past' \in History(past.spent)
      BY <1>p, <2>3, <2>4 DEF History
    <3>2. past'.spent = past.spent /\ past'.confirmed = past.confirmed /\ past'.sets = past.sets
      BY <1>p, <2>4 DEF History
    <3> QED  BY <3>1, <3>2, PastRecorded
  <2> QED  BY <1>00, <2>2, <2>4
<1>7. CASE CreateToken(r)
  <2>1. IsFiniteSet(PATs(req[r].u))
    <3>1. IsFiniteSet(DOMAIN tokens)
      BY LenProperties, FS_Interval DEF TypeInv, TablesOK
    <3>2. PATs(req[r].u) \in SUBSET DOMAIN tokens
      BY DEF PATs, ActiveTokens
    <3> QED  BY <3>1, <3>2, FS_Subset
  <2>2. Cardinality(PATs(req[r].u)) \in Nat
    BY <2>1, FS_CardinalityType
  <2>3. PICK n \in Nat : past' = past \/ past' = [past EXCEPT !.refused = past.refused \cup {n}]
    BY <1>7, <2>2 DEF CreateToken
  <2>4. ASSUME past' = [past EXCEPT !.refused = past.refused \cup {n}] PROVE PastOK' /\ Remembers
    <3>1. past' \in History(past.spent) /\ past'.spent = past.spent
          /\ past'.confirmed = past.confirmed /\ past'.sets = past.sets
      BY <1>p, <2>4 DEF History
    <3> QED  BY <3>1, PastRecorded
  <2> QED  BY <1>00, <2>3, <2>4
<1>8. CASE SetTOTPSecret(r)
  <2> DEFINE overtaken == IF users[req[r].u].enabled THEN past.overtaken \cup {req[r].u} ELSE past.overtaken
             secrets == past.secrets + 1
  <2>1. past' = past \/ past' = [past EXCEPT !.secrets = secrets, !.overtaken = overtaken]
    BY <1>8 DEF SetTOTPSecret
  <2>2. overtaken \in SUBSET Users
    <3>1. req[r].u \in Users /\ past.overtaken \in SUBSET Users
      BY <1>0, <1>p, <1>8 DEF SetTOTPSecret, At, Fits, History
    <3> QED  BY <3>1
  <2>3. secrets \in Nat \ {0}
    BY <1>p DEF History
  <2> HIDE DEF overtaken, secrets
  <2>4. ASSUME past' = [past EXCEPT !.secrets = secrets, !.overtaken = overtaken] PROVE PastOK' /\ Remembers
    <3>1. past' \in History(past.spent)
      BY <1>p, <2>2, <2>3, <2>4 DEF History
    <3>2. past'.spent = past.spent /\ past'.confirmed = past.confirmed /\ past'.sets = past.sets
      BY <1>p, <2>4 DEF History
    <3> QED  BY <3>1, <3>2, PastRecorded
  <2> QED  BY <1>00, <2>1, <2>4
<1>9. CASE EnableTOTP(r)
  <2>1. users[req[r].u].secret \in Nat
    BY <1>0, <1>9 DEF EnableTOTP, Authed, At, Fits, Account
  <2>2. PICK n \in Nat : past' = past \/ past' = [past EXCEPT !.confirmed = past.confirmed \cup {n}]
    BY <1>9, <2>1 DEF EnableTOTP
  <2>3. ASSUME past' = [past EXCEPT !.confirmed = past.confirmed \cup {n}] PROVE PastOK' /\ Remembers
    <3>1. past' \in History(past.spent) /\ past'.spent = past.spent
          /\ past.confirmed \subseteq past'.confirmed /\ past'.sets = past.sets
      BY <1>p, <2>3 DEF History
    <3> QED  BY <3>1, PastRecorded
  <2> QED  BY <1>00, <2>2, <2>3
<1>10. CASE SetTOTPEnabled(r)
  <2> DEFINE overtaken == IF users[req[r].u].secret # req[r].saw THEN past.overtaken \cup {req[r].u} ELSE past.overtaken
             sets == past.sets + 1
  <2>1. past' = past \/ past' = [past EXCEPT !.sets = sets, !.overtaken = overtaken]
    BY <1>10 DEF SetTOTPEnabled
  <2>2. overtaken \in SUBSET Users
    <3>1. req[r].u \in Users /\ past.overtaken \in SUBSET Users
      BY <1>0, <1>p, <1>10 DEF SetTOTPEnabled, At, Fits, History
    <3> QED  BY <3>1
  <2>3. sets \in Nat \ {0} /\ sets = past.sets + 1
    BY <1>p DEF History
  <2> HIDE DEF overtaken, sets
  <2>4. ASSUME past' = [past EXCEPT !.sets = sets, !.overtaken = overtaken] PROVE PastOK' /\ Remembers
    <3>1. past' \in History(past.spent)
      BY <1>p, <2>2, <2>3, <2>4 DEF History
    <3>2. past'.spent = past.spent /\ past'.confirmed = past.confirmed /\ past'.sets = sets
      BY <1>p, <2>4 DEF History
    <3> QED  BY <2>3, <3>1, <3>2, PastRecorded
  <2> QED  BY <1>00, <2>1, <2>4
<1>11. CASE ClearTOTP(r)
  <2>1. past' \in History(past.spent) /\ past'.spent = past.spent
        /\ past'.confirmed = past.confirmed /\ past'.sets = past.sets
    BY <1>p, <1>11 DEF ClearTOTP, History
  <2> QED  BY <2>1, PastRecorded
<1>12. ASSUME NEW u \in Users, NEW i \in Identities, past' = [past EXCEPT !.homes = @ \cup {<<i, u>>}]
       PROVE  PastOK' /\ Remembers
  <2>1. past' \in History(past.spent) /\ past'.spent = past.spent
        /\ past'.confirmed = past.confirmed /\ past'.sets = past.sets
    BY <1>p, <1>12 DEF History
  <2> QED  BY <2>1, PastRecorded
<1>13. ASSUME NEW op, NEW i \in Identities, getByProviderID(r, op, i) PROVE PastOK' /\ Remembers
  <2>1. past' = past \/ \E u \in Users : past' = [past EXCEPT !.homes = @ \cup {<<i, u>>}]
    BY <1>13 DEF getByProviderID, WithSub
  <2> QED  BY <1>00, <1>12, <2>1
<1>14. CASE linkProviderID(r)
  <2> DEFINE u == req[r].u
             i == req[r].who
             homes == past.homes \cup {<<i, u>>}
             proven == past.proven \cup {<<u, EmailOf[i]>>}
             unlinked == past.unlinked \cup ({users[u].sub} \ {None, i})
             slipped == IF users[u].email # EmailOf[i] THEN past.slipped \cup {u} ELSE past.slipped
  <2>1. At(r, "link")
    BY <1>14 DEF linkProviderID
  <2>2. u \in Users /\ i \in Identities /\ EmailOf[i] \in Emails
    BY <1>0, <2>1, AccountsAssumption DEF At, Fits
  <2>3. \/ past' = past
        \/ past' = [past EXCEPT !.homes = homes, !.unlinked = unlinked, !.proven = proven, !.slipped = slipped]
    BY <1>14 DEF linkProviderID
  <2>4. /\ past.homes \in SUBSET (Identities \X Users) /\ past.proven \in SUBSET (Users \X Emails)
        /\ past.unlinked \in SUBSET Identities /\ past.slipped \in SUBSET Users
    BY <1>p DEF History
  <2>5. homes \in SUBSET (Identities \X Users) /\ proven \in SUBSET (Users \X Emails)
    BY <2>2, <2>4
  <2>6. slipped \in SUBSET Users
    BY <2>2, <2>4
  <2>7. unlinked \in SUBSET Identities
    <3>1. users[u].sub \in Identities \cup {None}
      BY <1>0, <2>2 DEF Account
    <3> QED  BY <2>4, <3>1
  <2> HIDE DEF homes, proven, unlinked, slipped, u, i
  <2>8. ASSUME past' = [past EXCEPT !.homes = homes, !.unlinked = unlinked, !.proven = proven, !.slipped = slipped]
        PROVE  PastOK' /\ Remembers
    <3>1. past' \in History(past.spent)
      BY <1>p, <2>5, <2>6, <2>7, <2>8 DEF History
    <3>2. past'.spent = past.spent /\ past'.confirmed = past.confirmed /\ past'.sets = past.sets
      BY <1>p, <2>8 DEF History
    <3> QED  BY <3>1, <3>2, PastRecorded
  <2> QED  BY <1>00, <2>3, <2>8
<1>15. CASE rereadOAuthUser(r)
  <2>1. req[r].who \in Identities
    BY <1>0, <1>15 DEF rereadOAuthUser, At, Fits
  <2>2. past' = past \/ \E u \in Users : past' = [past EXCEPT !.homes = @ \cup {<<req[r].who, u>>}]
    BY <1>15 DEF rereadOAuthUser, Resolved, WithSub
  <2> QED  BY <1>00, <1>12, <2>1, <2>2
<1>16. ASSUME NEW u \in Users, createOAuthUser(r, u) PROVE PastOK' /\ Remembers
  <2> DEFINE homes == past.homes \cup {<<req[r].who, u>>}
             proven == past.proven \cup {<<u, EmailOf[req[r].who]>>}
  <2>1. req[r].who \in Identities /\ EmailOf[req[r].who] \in Emails
    BY <1>0, <1>16, AccountsAssumption DEF createOAuthUser, At, Fits
  <2>2. past' = past \/ past' = [past EXCEPT !.homes = homes, !.proven = proven]
    BY <1>16 DEF createOAuthUser
  <2>3. past.homes \in SUBSET (Identities \X Users) /\ past.proven \in SUBSET (Users \X Emails)
    BY <1>p DEF History
  <2>4. homes \in SUBSET (Identities \X Users) /\ proven \in SUBSET (Users \X Emails)
    BY <2>1, <2>3
  <2> HIDE DEF homes, proven
  <2>5. ASSUME past' = [past EXCEPT !.homes = homes, !.proven = proven] PROVE PastOK' /\ Remembers
    <3>1. past' \in History(past.spent)
      BY <1>p, <2>4, <2>5 DEF History
    <3>2. past'.spent = past.spent /\ past'.confirmed = past.confirmed /\ past'.sets = past.sets
      BY <1>p, <2>5 DEF History
    <3> QED  BY <3>1, <3>2, PastRecorded
  <2> QED  BY <1>00, <2>2, <2>5
<1> QED
  BY <1>1, <1>2, <1>4, <1>5, <1>6, <1>7, <1>8, <1>9, <1>10, <1>11, <1>13, <1>14, <1>15, <1>16 DEF PastWritten

\* The codes are of sets that were generated.
LEMMA CodesStep ==
    ASSUME TypeInv, NEW r \in Reqs, CodesWritten(r)
    PROVE  CodesOK'
<1>0. CodesOK /\ past.sets \in Nat \ {0} /\ Fits(req[r], letters, sessions, tokens, past.confirmed)
  BY DEF TypeInv, PastOK, History, RequestsOK
<1>p. past \in History(past.spent)
  BY DEF TypeInv, PastOK
<1>1. CASE DeleteAccount(r) \/ ClearTOTP(r) \/ Recover(r)
  <2>1. codes' \subseteq codes
    BY <1>1 DEF DeleteAccount, ClearTOTP, Recover, UseRecoveryCode
  <2>2. past'.sets = past.sets
    <3>1. CASE DeleteAccount(r)
      BY <3>1 DEF DeleteAccount
    <3>2. CASE ClearTOTP(r)
      BY <1>p, <3>2 DEF ClearTOTP, History
    <3>3. CASE Recover(r)
      BY <1>p, <3>3 DEF Recover, Spend, History
    <3> QED  BY <1>1, <3>1, <3>2, <3>3
  <2> QED  BY <1>0, <2>1, <2>2 DEF CodesOK
<1>2. CASE SetTOTPEnabled(r)
  <2>1. req[r].u \in Users
    BY <1>0, <1>2 DEF SetTOTPEnabled, At, Fits
  <2>2. \/ codes' = codes /\ past' = past
        \/ codes' \subseteq codes \cup CodeSet(req[r].u, past.sets + 1) /\ past'.sets = past.sets + 1
    BY <1>2, <1>p DEF SetTOTPEnabled, History
  <2>3. CodeSet(req[r].u, past.sets + 1) \subseteq Users \X (1 .. past.sets + 1) \X (1 .. RecoveryCodeCount)
    BY <1>0, <2>1, AccountsAssumption DEF CodeSet
  <2>4. codes \subseteq Users \X (1 .. past.sets + 1) \X (1 .. RecoveryCodeCount)
    BY <1>0, AccountsAssumption DEF CodesOK
  <2> QED  BY <1>0, <2>2, <2>3, <2>4 DEF CodesOK
<1> QED  BY <1>1, <1>2 DEF CodesWritten

-------------------------------------------------------------------------------
(* The requests.                                                                         *)

Growth == /\ SameLetters(letters, letters') /\ SameSessions(sessions, sessions')
          /\ SameTokens(tokens, tokens') /\ Remembers
FitsNext(q) == Fits(q, letters', sessions', tokens', past'.confirmed)

\* What a request has in hand stays good when the tables grow.
LEMMA FitsGrows ==
    ASSUME Growth, NEW q, Fits(q, letters, sessions, tokens, past.confirmed)
    PROVE  FitsNext(q)
<1>1. /\ \A i \in DOMAIN letters : i \in DOMAIN letters' /\ letters'[i].u = letters[i].u /\ letters'[i].kind = letters[i].kind
      /\ \A s \in DOMAIN sessions : s \in DOMAIN sessions'
      /\ \A t \in DOMAIN tokens : t \in DOMAIN tokens'
      /\ \A n \in past.confirmed : n \in past'.confirmed
  BY DEF Growth, SameLetters, SameSessions, SameTokens, Remembers
<1> QED  BY <1>1 DEF Fits, FitsNext

\* One request replaced.
LEMMA Replaced ==
    ASSUME RequestsOK, Growth, NEW r \in Reqs, NEW row \in Request, FitsNext(row),
           req' = [req EXCEPT ![r] = row]
    PROVE  RequestsOK'
<1>1. req' \in [Reqs -> Request] /\ req'[r] = row /\ \A q \in Reqs \ {r} : req'[q] = req[q]
  BY DEF RequestsOK
<1>2. \A q \in Reqs : FitsNext(req[q])
  BY FitsGrows DEF RequestsOK
<1>3. \A q \in Reqs : FitsNext(req'[q])
  BY <1>1, <1>2
<1> QED  BY <1>1, <1>3 DEF RequestsOK, FitsNext

LEMMA Finished ==
    ASSUME RequestsOK, Growth, NEW r \in Reqs, Done(r)
    PROVE  RequestsOK'
  BY IdleFits, Replaced DEF Done, FitsNext

LEMMA NotMoved ==
    ASSUME RequestsOK, Growth, req' = req
    PROVE  RequestsOK'
  BY FitsGrows DEF RequestsOK, FitsNext

\* A request that goes on to a step that needs no more than an account.
LEMMA Onward ==
    ASSUME RequestsOK, Growth, NEW r \in Reqs, req[r].u \in Users, req[r].pc # "",
           NEW pc \in {"session", "password", "count", "token", "setup", "disable", "code"}, Goto(r, pc)
    PROVE  RequestsOK'
<1> DEFINE row == [req[r] EXCEPT !.pc = pc]
<1>1. req[r] \in Request /\ Fits(req[r], letters, sessions, tokens, past.confirmed)
  BY DEF RequestsOK
<1>2. row \in Request /\ row.pc = pc /\ row.u = req[r].u /\ row.op = req[r].op
  BY <1>1 DEF Request, Pcs
<1>3. req[r].op # "idle"
  BY <1>1, IdleFits DEF Fits
<1>4. req' = [req EXCEPT ![r] = row]
  BY DEF Goto
<1> HIDE DEF row
<1>5. FitsNext(row)
  BY <1>2, <1>3 DEF FitsNext, Fits
<1> QED  BY <1>2, <1>4, <1>5, Replaced

\* A request that begins.
LEMMA BeginRequests ==
    ASSUME TypeInv, Growth, NEW r \in Reqs, Begin(r)
    PROVE  RequestsOK'
<1>0. RequestsOK /\ users \in [Users -> Account] /\ Addressed
  BY DEF TypeInv, UsersOK
<1>e. <<>> \in Seq(Nat)
  BY EmptySeq
<1>1. ASSUME NEW op \in {"Login", "LoginNative"}, NEW u \in Users, Login(r, op, u) PROVE RequestsOK'
  <2> DEFINE pw == users[u].pw
             row == [Idle EXCEPT !.op = op, !.pc = Admit(op), !.u = u, !.saw = pw]
  <2>1. req' = req \/ req' = [req EXCEPT ![r] = row]
    BY <1>1 DEF Login
  <2>2. Admit(op) \in {"session", "count"} /\ pw \in Nat
    BY <1>0 DEF Admit, Account
  <2> HIDE DEF pw
  <2>3. row \in Request /\ row.op = op /\ row.pc = Admit(op) /\ row.u = u
    BY <1>e, <2>2 DEF Idle, Request, Pcs, Operations
  <2> HIDE DEF row
  <2>4. FitsNext(row)
    BY <2>2, <2>3 DEF FitsNext, Fits
  <2> QED  BY <1>0, <2>1, <2>3, <2>4, Replaced, NotMoved
<1>2. ASSUME NEW u \in Users, RequestPasswordReset(r, u) PROVE RequestsOK'
  <2> DEFINE e == users[u].email
             row == [Idle EXCEPT !.op = "RequestPasswordReset", !.pc = "clear", !.u = u, !.email = e]
  <2>1. req' = [req EXCEPT ![r] = row] /\ e \in Emails
    BY <1>0, <1>2 DEF RequestPasswordReset, Addressed
  <2> HIDE DEF e
  <2>2. row \in Request /\ row.op = "RequestPasswordReset" /\ row.pc = "clear" /\ row.u = u /\ row.email = e
    BY <1>e, <2>1 DEF Idle, Request, Pcs, Operations
  <2> HIDE DEF row
  <2>3. FitsNext(row)
    BY <2>1, <2>2 DEF FitsNext, Fits
  <2> QED  BY <1>0, <2>1, <2>2, <2>3, Replaced
<1>3. ASSUME NEW u \in Users, NEW e \in Emails, Register(r, u, e) PROVE RequestsOK'
  <2> DEFINE row == [Idle EXCEPT !.op = "Register", !.pc = "clear", !.u = u, !.email = e]
  <2>1. req' = req \/ req' = [req EXCEPT ![r] = row]
    BY <1>3 DEF Register
  <2>2. row \in Request /\ row.op = "Register" /\ row.pc = "clear" /\ row.u = u /\ row.email = e
    BY <1>e DEF Idle, Request, Pcs, Operations
  <2> HIDE DEF row
  <2>3. FitsNext(row)
    BY <2>2 DEF FitsNext, Fits
  <2> QED  BY <1>0, <2>1, <2>2, <2>3, Replaced, NotMoved
<1>4. ASSUME NEW op \in {"Complete2FAWeb", "Complete2FANative"}, NEW c \in DOMAIN challenges, TakeChallenge(r, op, c)
      PROVE  RequestsOK'
  <2> DEFINE u == challenges[c].u
             pw == challenges[c].pw
             row == [Idle EXCEPT !.op = op, !.pc = "code", !.u = u, !.saw = pw]
  <2>1. req' = req \/ req' = [req EXCEPT ![r] = row]
    BY <1>4 DEF TakeChallenge
  <2>2. u \in Users /\ pw \in Nat
    BY RowTypes DEF Challenge
  <2> HIDE DEF u, pw
  <2>3. row \in Request /\ row.op = op /\ row.pc = "code" /\ row.u = u
    BY <1>e, <2>2 DEF Idle, Request, Pcs, Operations
  <2> HIDE DEF row
  <2>4. FitsNext(row)
    BY <2>2, <2>3 DEF FitsNext, Fits
  <2> QED  BY <1>0, <2>1, <2>3, <2>4, Replaced, NotMoved
<1>5. ASSUME NEW op \in {"LoginOAuth", "LoginOAuthNative"}, NEW i \in Identities, getByProviderID(r, op, i)
      PROVE  RequestsOK'
  <2> DEFINE row(pc, u, n) == [Idle EXCEPT !.op = op, !.pc = pc, !.u = u, !.who = i, !.saw = n]
  <2>1. \/ \E u \in Users : req' = [req EXCEPT ![r] = row(Admit(op), u, users[u].pw)]
        \/ req' = [req EXCEPT ![r] = row("address", None, 0)]
    BY <1>5 DEF getByProviderID, WithSub
  <2>2. Admit(op) \in {"session", "count"} /\ \A u \in Users : users[u].pw \in Nat
    BY <1>0 DEF Admit, Account
  <2>3. ASSUME NEW u \in Users \cup {None}, NEW pc \in {"session", "count", "address"}, NEW n \in Nat
        PROVE  /\ row(pc, u, n) \in Request /\ row(pc, u, n).op = op /\ row(pc, u, n).pc = pc
               /\ row(pc, u, n).u = u /\ row(pc, u, n).who = i
    BY <1>e DEF Idle, Request, Pcs, Operations
  <2> HIDE DEF row
  <2>4. ASSUME NEW u \in Users PROVE FitsNext(row(Admit(op), u, users[u].pw))
    <3> DEFINE q == row(Admit(op), u, users[u].pw)
    <3>1. q.op = op /\ q.pc = Admit(op) /\ q.u = u
      BY <2>2, <2>3
    <3> HIDE DEF q
    <3>2. FitsNext(q)
      BY <2>2, <3>1 DEF FitsNext, Fits
    <3> QED  BY <3>2 DEF q
  <2>5. FitsNext(row("address", None, 0))
    <3> DEFINE q == row("address", None, 0)
    <3>1. q.op = op /\ q.pc = "address" /\ q.who = i
      BY <2>3
    <3> HIDE DEF q
    <3>2. FitsNext(q)
      BY <3>1 DEF FitsNext, Fits
    <3> QED  BY <3>2 DEF q
  <2>6. ASSUME NEW u \in Users, req' = [req EXCEPT ![r] = row(Admit(op), u, users[u].pw)] PROVE RequestsOK'
    BY <1>0, <2>2, <2>3, <2>4, <2>6, Replaced, ZenonT(40)
  <2>7. CASE req' = [req EXCEPT ![r] = row("address", None, 0)]
    BY <1>0, <2>3, <2>5, <2>7, Replaced
  <2> QED  BY <2>1, <2>6, <2>7
<1>6. ASSUME NEW op \in {"VerifyEmail", "ConfirmPasswordReset"}, NEW i \in DOMAIN letters, GetValidEmailToken(r, op, i)
      PROVE  RequestsOK'
  <2> DEFINE u == letters[i].u
             row == [Idle EXCEPT !.op = op, !.pc = "consume", !.u = u, !.id = i]
  <2>1. req' = [req EXCEPT ![r] = row] /\ (op = "VerifyEmail" => letters[i].kind = "verify")
    BY <1>6 DEF GetValidEmailToken
  <2>2. u \in Users /\ i \in Nat
    BY RowTypes, RowIn DEF Letter, TypeInv, TablesOK
  <2>3. u = letters[i].u
    OBVIOUS
  <2> HIDE DEF u
  <2>4. row \in Request /\ row.op = op /\ row.pc = "consume" /\ row.u = u /\ row.id = i
    BY <1>e, <2>2 DEF Idle, Request, Pcs, Operations
  <2> HIDE DEF row
  <2>5. i \in DOMAIN letters' /\ letters'[i].u = u /\ letters'[i].kind = letters[i].kind
    BY <2>3 DEF Growth, SameLetters
  <2>6. FitsNext(row)
    BY <2>1, <2>2, <2>4, <2>5 DEF FitsNext, Fits
  <2> QED  BY <1>0, <2>1, <2>4, <2>6, Replaced
<1>7. ASSUME NEW op \in Operations, Authenticate(r, op) PROVE RequestsOK'
  <2> DEFINE bySession(s) == [Idle EXCEPT !.op = op, !.pc = "authed", !.u = sessions[s].u, !.id = s]
             byToken(t) == [Idle EXCEPT !.op = op, !.pc = "authed", !.u = tokens[t].u, !.victims = <<t>>]
  <2>1. \/ \E s \in DOMAIN sessions : req' = [req EXCEPT ![r] = bySession(s)]
        \/ \E t \in DOMAIN tokens : req' = [req EXCEPT ![r] = byToken(t)]
    BY <1>7 DEF Authenticate
  <2>2. op # "idle"
    BY DEF Operations
  <2>3. ASSUME NEW s \in DOMAIN sessions, req' = [req EXCEPT ![r] = bySession(s)] PROVE RequestsOK'
    <3> DEFINE row == bySession(s)
    <3>1. sessions[s].u \in Users /\ s \in Nat \ {0} /\ s \in DOMAIN sessions'
      BY RowTypes, RowIn DEF Session, TypeInv, TablesOK, Growth, SameSessions
    <3>2. row \in Request /\ row.op = op /\ row.pc = "authed" /\ row.u \in Users /\ row.id = s
      BY <1>e, <3>1 DEF Idle, Request, Pcs
    <3> HIDE DEF bySession
    <3>3. FitsNext(row)
      BY <2>2, <3>1, <3>2 DEF FitsNext, Fits
    <3> QED  BY <1>0, <2>3, <3>2, <3>3, Replaced
  <2>4. ASSUME NEW t \in DOMAIN tokens, req' = [req EXCEPT ![r] = byToken(t)] PROVE RequestsOK'
    <3> DEFINE row == byToken(t)
    <3>1. tokens[t].u \in Users /\ t \in Nat /\ t \in DOMAIN tokens'
      BY RowTypes, RowIn DEF Token, TypeInv, TablesOK, Growth, SameTokens
    <3>2. <<t>> \in Seq(Nat) /\ <<t>> # <<>> /\ <<t>>[1] = t
      BY <3>1
    <3>3. row \in Request /\ row.op = op /\ row.pc = "authed" /\ row.u \in Users /\ row.id = 0 /\ row.victims = <<t>>
      BY <3>1, <3>2 DEF Idle, Request, Pcs
    <3> HIDE DEF byToken
    <3>4. FitsNext(row)
      BY <2>2, <3>1, <3>2, <3>3 DEF FitsNext, Fits
    <3> QED  BY <1>0, <2>4, <3>3, <3>4, Replaced
  <2> QED  BY <2>1, <2>3, <2>4
<1>8. {"ChangePassword", "UpdateEmail", "CreateToken", "RevokeToken", "RevokeSession", "Logout",
       "SetupTOTP", "EnableTOTP", "DisableTOTP", "DeleteAccount"} \subseteq Operations
  BY DEF Operations
<1> QED  BY <1>1, <1>2, <1>3, <1>4, <1>5, <1>6, <1>7, <1>8 DEF Begin

\* How many tokens to revoke.
LEMMA Difference ==
    ASSUME NEW c \in Nat, NEW m \in Nat, c >= m
    PROVE  c - m + 1 \in Nat \ {0} /\ c - m \in Nat
  OBVIOUS

\* The active tokens of an account.
LEMMA ActiveFinite ==
    ASSUME TypeInv
    PROVE  \A u : IsFiniteSet(ActiveTokens(u))
<1>1. IsFiniteSet(DOMAIN tokens)
  BY LenProperties, FS_Interval DEF TypeInv, TablesOK
<1>2. \A u : ActiveTokens(u) \in SUBSET DOMAIN tokens
  BY DEF ActiveTokens
<1> QED  BY <1>1, <1>2, FS_Subset

\* The oldest few of a set.
LEMMA OldestType ==
    ASSUME NEW S, IsFiniteSet(S), NEW n \in Nat, NEW v \in Oldest(S, n)
    PROVE  v \in Seq(S) /\ Len(v) = IF n < Cardinality(S) THEN n ELSE Cardinality(S)
<1> DEFINE size == Cardinality(S)
           len == IF n < size THEN n ELSE size
<1>1. size \in Nat
  BY FS_CardinalityType
<1>2. v \in [1 .. len -> S]
  BY DEF Oldest
<1> HIDE DEF size
<1>3. len \in Nat
  BY <1>1
<1> HIDE DEF len
<1>4. v \in Seq(S)
  BY <1>2, <1>3, SeqDef
<1>5. Len(v) = len
  BY <1>2, <1>3, <1>4, LenProperties
<1> QED  BY <1>4, <1>5 DEF len, size

\* What is left of the tokens to revoke.
LEMMA TailOf ==
    ASSUME NEW v \in Seq(Nat), v # <<>>
    PROVE  /\ Tail(v) \in Seq(Nat) /\ Len(v) \in Nat \ {0} /\ Len(Tail(v)) = Len(v) - 1
           /\ (Len(v) # 1 <=> Tail(v) # <<>>) /\ v[1] \in Nat /\ 1 \in DOMAIN v
           /\ \A i \in DOMAIN Tail(v) : i + 1 \in DOMAIN v /\ Tail(v)[i] = v[i + 1]
           /\ \A i \in DOMAIN v : i # 1 => i - 1 \in DOMAIN Tail(v) /\ Tail(v)[i - 1] = v[i]
<1>1. Len(v) \in Nat /\ Len(v) # 0 /\ DOMAIN v = 1 .. Len(v)
  BY EmptySeq, LenProperties
<1>2. Tail(v) \in Seq(Nat) /\ Len(Tail(v)) = Len(v) - 1 /\ DOMAIN Tail(v) = 1 .. (Len(v) - 1)
      /\ \A i \in 1 .. (Len(v) - 1) : Tail(v)[i] = v[i + 1]
  BY <1>1, HeadTailProperties, LenProperties
<1>3. Len(v) # 1 <=> Tail(v) # <<>>
  <2>1. Tail(v) = <<>> <=> Len(Tail(v)) = 0
    BY <1>2, EmptySeq, Zenon
  <2> QED  BY <1>1, <1>2, <2>1, SMTT(30)
<1>4. v[1] \in Nat /\ 1 \in DOMAIN v
  BY <1>1
<1>5. \A i \in DOMAIN v : i # 1 => i - 1 \in DOMAIN Tail(v) /\ Tail(v)[i - 1] = v[i]
  BY <1>1, <1>2
<1>6. \A i \in DOMAIN Tail(v) : i + 1 \in DOMAIN v /\ Tail(v)[i] = v[i + 1]
  BY <1>1, <1>2
<1> QED  BY <1>1, <1>2, <1>3, <1>4, <1>5, <1>6

LEMMA NewLength ==
    ASSUME tokens \in Seq(Token), tokens' \in Seq(Token), NEW row, tokens' = Append(tokens, row)
    PROVE  Len(tokens') \in DOMAIN tokens'
<1>1. Len(tokens') = Len(tokens) + 1 /\ Len(tokens) \in Nat
  BY LenProperties
<1> QED  BY <1>1, LenProperties

\* A request that goes on.
LEMMA StepRequests ==
    ASSUME TypeInv, Growth, NEW r \in Reqs, Step(r), TablesOK', PastOK'
    PROVE  RequestsOK'
<1>0. /\ RequestsOK /\ users \in [Users -> Account] /\ req[r] \in Request
      /\ Fits(req[r], letters, sessions, tokens, past.confirmed)
  BY DEF TypeInv, UsersOK, RequestsOK
<1>o. req[r].pc # "" => req[r].op # "idle"
  BY <1>0, IdleFits, ZenonT(40) DEF Fits
<1>1. CASE issueSession(r) \/ VerifyEmail(r) \/ ConfirmPasswordReset(r) \/ UpdateUserPassword(r) \/ Revoke(r)
           \/ DeleteAccount(r) \/ StashNativeToken(r) \/ SetTOTPSecret(r) \/ SetTOTPEnabled(r) \/ ClearTOTP(r)
  <2>1. Done(r)
    BY <1>1 DEF issueSession, VerifyEmail, ConfirmPasswordReset, UpdateUserPassword, Revoke, DeleteAccount,
                StashNativeToken, SetTOTPSecret, SetTOTPEnabled, ClearTOTP
  <2> QED  BY <1>0, <2>1, Finished, SMTT(30)
<1>2. ASSUME req[r].u \in Users, req[r].pc # "", AfterLetter(r) PROVE RequestsOK'
  BY <1>0, <1>2, Onward, Finished DEF AfterLetter
<1>3. CASE DeleteUserEmailTokens(r)
  <2>1. At(r, "clear") /\ (AfterLetter(r) \/ Goto(r, "mail"))
    BY <1>3 DEF DeleteUserEmailTokens
  <2>2. req[r].u \in Users /\ req[r].email \in Emails /\ req[r].pc # ""
    BY <1>0, <2>1 DEF At, Fits
  <2>3. ASSUME Goto(r, "mail") PROVE RequestsOK'
    <3> DEFINE row == [req[r] EXCEPT !.pc = "mail"]
    <3>1. row \in Request /\ row.pc = "mail" /\ row.op = req[r].op /\ row.u = req[r].u /\ row.email = req[r].email
      BY <1>0 DEF Request, Pcs
    <3>2. req' = [req EXCEPT ![r] = row]
      BY <2>3 DEF Goto
    <3> HIDE DEF row
    <3>3. FitsNext(row)
      BY <1>o, <2>2, <3>1 DEF FitsNext, Fits
    <3> QED  BY <1>0, <3>1, <3>2, <3>3, Replaced
  <2> QED  BY <1>2, <2>1, <2>2, <2>3
<1>4. CASE CreateEmailToken(r)
  <2>1. At(r, "mail") /\ AfterLetter(r)
    BY <1>4 DEF CreateEmailToken
  <2>2. req[r].u \in Users /\ req[r].pc # ""
    BY <1>0, <2>1 DEF At, Fits
  <2> QED  BY <1>2, <2>1, <2>2
<1>5. CASE ChangePassword(r) \/ SetupTOTP(r) \/ DisableTOTP(r) \/ CreateToken(r)
  <2>1. /\ At(r, "authed")
        /\ Goto(r, "password") \/ Goto(r, "setup") \/ Goto(r, "code") \/ Goto(r, "token") \/ Done(r)
    BY <1>5 DEF ChangePassword, SetupTOTP, DisableTOTP, CreateToken, Authed
  <2>2. req[r].u \in Users /\ req[r].pc # ""
    BY <1>0, <2>1 DEF At, Fits
  <2> QED  BY <1>0, <2>1, <2>2, Onward, Finished
<1>6. ASSUME NEW e \in Emails, UpdateEmail(r, e) PROVE RequestsOK'
  <2> DEFINE row == [req[r] EXCEPT !.pc = "clear", !.email = e]
  <2>1. At(r, "authed") /\ (Done(r) \/ req' = [req EXCEPT ![r] = row])
    BY <1>0, <1>6 DEF UpdateEmail, Authed, RequestsOK
  <2>2. req[r].u \in Users /\ req[r].pc # ""
    BY <1>0, <2>1 DEF At, Fits
  <2>3. row \in Request /\ row.pc = "clear" /\ row.op = req[r].op /\ row.u = req[r].u /\ row.email = e
    BY <1>0 DEF Request, Pcs
  <2> HIDE DEF row
  <2>4. FitsNext(row)
    BY <1>o, <2>2, <2>3 DEF FitsNext, Fits
  <2> QED  BY <1>0, <2>1, <2>3, <2>4, Replaced, Finished
<1>7. CASE EnableTOTP(r)
  <2> DEFINE n == users[req[r].u].secret
             row == [req[r] EXCEPT !.pc = "enable", !.saw = n]
  <2>1. At(r, "authed") /\ (Done(r) \/ (req' = [req EXCEPT ![r] = row] /\ past' = [past EXCEPT !.confirmed = @ \cup {n}]))
    BY <1>0, <1>7 DEF EnableTOTP, Authed, RequestsOK
  <2>2. req[r].u \in Users /\ req[r].pc # ""
    BY <1>0, <2>1 DEF At, Fits
  <2>3. n \in Nat
    BY <1>0, <2>2 DEF Account
  <2> HIDE DEF n
  <2>4. row \in Request /\ row.pc = "enable" /\ row.op = req[r].op /\ row.u = req[r].u /\ row.saw = n
    BY <1>0, <2>3 DEF Request, Pcs
  <2> HIDE DEF row
  <2>5. ASSUME past' = [past EXCEPT !.confirmed = @ \cup {n}] PROVE n \in past'.confirmed
    BY <2>5 DEF TypeInv, PastOK, History
  <2>6. ASSUME past' = [past EXCEPT !.confirmed = @ \cup {n}] PROVE FitsNext(row)
    BY <1>o, <2>2, <2>4, <2>5, <2>6 DEF FitsNext, Fits
  <2> QED  BY <1>0, <2>1, <2>4, <2>6, Replaced, Finished
<1>8. CASE verifyTOTP(r)
  <2>1. /\ At(r, "code") /\ \/ Done(r)
                            \/ Goto(r, AfterCode(req[r].op))
                            \/ \E c \in codes : c[1] = req[r].u /\ req' = [req EXCEPT ![r].pc = "recover", ![r].victims = <<c[2], c[3]>>]
    BY <1>8 DEF verifyTOTP
  <2>2. req[r].u \in Users /\ req[r].pc # ""
    BY <1>0, <2>1 DEF At, Fits
  <2>3. AfterCode(req[r].op) \in {"disable", "count", "session"}
    BY DEF AfterCode, Admit
  <2>4. ASSUME NEW c \in codes, req' = [req EXCEPT ![r].pc = "recover", ![r].victims = <<c[2], c[3]>>]
        PROVE  RequestsOK'
    <3> DEFINE v == <<c[2], c[3]>>
               row == [req[r] EXCEPT !.pc = "recover", !.victims = v]
    <3>1. req' = [req EXCEPT ![r] = row]
      BY <1>0, <2>4 DEF RequestsOK
    <3>2. v \in Seq(Nat)
      <4>1. c \in Users \X (1 .. past.sets) \X (1 .. RecoveryCodeCount)
        BY DEF TypeInv, CodesOK
      <4>2. c[2] \in Nat /\ c[3] \in Nat
        BY <4>1
      <4> QED  BY <4>2
    <3> HIDE DEF v
    <3>3. row \in Request /\ row.pc = "recover" /\ row.op = req[r].op /\ row.u = req[r].u
      BY <1>0, <3>2 DEF Request, Pcs
    <3> HIDE DEF row
    <3>4. FitsNext(row)
      BY <1>o, <2>2, <3>3 DEF FitsNext, Fits
    <3> QED  BY <1>0, <3>1, <3>3, <3>4, Replaced
  <2> QED  BY <1>0, <2>1, <2>2, <2>3, <2>4, Onward, Finished
<1>9. CASE Recover(r)
  <2>1. At(r, "recover") /\ (Done(r) \/ Goto(r, AfterCode(req[r].op)))
    BY <1>9 DEF Recover
  <2>2. req[r].u \in Users /\ req[r].pc # ""
    BY <1>0, <2>1 DEF At, Fits
  <2>3. AfterCode(req[r].op) \in {"disable", "count", "session"}
    BY DEF AfterCode, Admit
  <2> QED  BY <1>0, <2>1, <2>2, <2>3, Onward, Finished
<1>10. CASE CountActiveTokens(r)
  <2> DEFINE n == Cardinality(ActiveTokens(req[r].u))
             counted == [req[r] EXCEPT !.pc = IF n >= MaxPATsPerUser THEN "list" ELSE "token", !.count = n]
             failed == [req[r] EXCEPT !.pc = "token", !.excused = TRUE]
  <2>1. At(r, "count") /\ (req' = [req EXCEPT ![r] = counted] \/ req' = [req EXCEPT ![r] = failed])
    BY <1>0, <1>10 DEF CountActiveTokens, RequestsOK
  <2>2. req[r].u \in Users /\ req[r].pc # ""
    BY <1>0, <2>1 DEF At, Fits
  <2>3. n \in Nat
    BY ActiveFinite, FS_CardinalityType
  <2> HIDE DEF n
  <2>4. /\ counted \in Request /\ counted.op = req[r].op /\ counted.u = req[r].u /\ counted.count = n
        /\ counted.pc = IF n >= MaxPATsPerUser THEN "list" ELSE "token"
    BY <1>0, <2>3 DEF Request, Pcs
  <2>5. failed \in Request /\ failed.pc = "token" /\ failed.op = req[r].op /\ failed.u = req[r].u
    BY <1>0 DEF Request, Pcs
  <2> HIDE DEF counted, failed
  <2>6. FitsNext(counted)
    BY <1>o, <2>2, <2>4 DEF FitsNext, Fits
  <2>7. FitsNext(failed)
    BY <1>o, <2>2, <2>5 DEF FitsNext, Fits
  <2> QED  BY <1>0, <2>1, <2>4, <2>5, <2>6, <2>7, Replaced
<1>11. CASE ListTokens(r)
  <2> DEFINE row(v) == [req[r] EXCEPT !.pc = IF v = <<>> THEN "token" ELSE "prune", !.victims = v]
             failed == [req[r] EXCEPT !.pc = "token", !.excused = TRUE]
  <2>1. /\ At(r, "list")
        /\ \/ \E v \in Oldest(ActiveTokens(req[r].u), req[r].count - MaxPATsPerUser + 1) : req' = [req EXCEPT ![r] = row(v)]
           \/ req' = [req EXCEPT ![r] = failed]
    BY <1>0, <1>11 DEF ListTokens, RequestsOK
  <2>2. req[r].u \in Users /\ req[r].pc # "" /\ req[r].count >= MaxPATsPerUser
    BY <1>0, <2>1 DEF At, Fits
  <2>3. failed \in Request /\ failed.pc = "token" /\ failed.op = req[r].op /\ failed.u = req[r].u
    BY <1>0 DEF Request, Pcs
  <2> HIDE DEF failed
  <2>4. FitsNext(failed)
    BY <1>o, <2>2, <2>3 DEF FitsNext, Fits
  <2>5. ASSUME NEW v \in Oldest(ActiveTokens(req[r].u), req[r].count - MaxPATsPerUser + 1), req' = [req EXCEPT ![r] = row(v)]
        PROVE  RequestsOK'
    <3> DEFINE q == row(v)
    <3>1. v \in Seq(Nat) /\ \A i \in DOMAIN v : v[i] \in DOMAIN tokens
      <4>1. req[r].count - MaxPATsPerUser + 1 \in Nat
        <5>1. req[r].count \in Nat /\ MaxPATsPerUser \in Nat
          BY <1>0, AccountsAssumption DEF Request
        <5> QED  BY <2>2, <5>1, Difference
      <4>2. v \in Seq(ActiveTokens(req[r].u))
        BY <4>1, ActiveFinite, OldestType
      <4>3. ActiveTokens(req[r].u) \subseteq DOMAIN tokens /\ DOMAIN tokens \subseteq Nat
        BY LenProperties DEF ActiveTokens, TypeInv, TablesOK
      <4> QED  BY <4>2, <4>3, RowIn, SeqDef
    <3>2. q \in Request /\ q.op = req[r].op /\ q.u = req[r].u /\ q.victims = v /\ q.pc = IF v = <<>> THEN "token" ELSE "prune"
      BY <1>0, <3>1 DEF Request, Pcs
    <3> HIDE DEF row
    <3>3. \A i \in DOMAIN v : v[i] \in DOMAIN tokens'
      BY <3>1 DEF Growth, SameTokens
    <3> HIDE DEF q
    <3>4. FitsNext(q)
      BY <1>o, <2>2, <3>2, <3>3 DEF FitsNext, Fits
    <3>5. req' = [req EXCEPT ![r] = q]
      BY <2>5 DEF q
    <3> QED  BY <1>0, <3>2, <3>4, <3>5, Replaced
  <2> HIDE DEF row
  <2> QED  BY <1>0, <2>1, <2>3, <2>4, <2>5, Replaced
<1>12. CASE PruneToken(r)
  <2> DEFINE v == req[r].victims
             excused == IF tokens' = tokens THEN TRUE ELSE req[r].excused
             row(x) == [req[r] EXCEPT !.victims = Tail(v), !.excused = x, !.pc = IF Len(v) = 1 THEN "token" ELSE "prune"]
  <2>1. At(r, "prune") /\ \E x \in BOOLEAN : req' = [req EXCEPT ![r] = row(x)]
    <3>1. req[r].excused \in BOOLEAN
      BY <1>0 DEF Request
    <3>2. At(r, "prune") /\ (req' = [req EXCEPT ![r] = row(req[r].excused \/ FALSE)] \/ req' = [req EXCEPT ![r] = row(req[r].excused \/ TRUE)])
      BY <1>0, <1>12 DEF PruneToken, RequestsOK
    <3> HIDE DEF row
    <3> QED  BY <3>1, <3>2
  <2>2. /\ req[r].u \in Users /\ req[r].pc # "" /\ v \in Seq(Nat) /\ v # <<>>
        /\ \A i \in DOMAIN v : v[i] \in DOMAIN tokens
    BY <1>0, <2>1 DEF At, Fits, Request
  <2>3. PICK x \in BOOLEAN : req' = [req EXCEPT ![r] = row(x)]
    BY <2>1
  <2> DEFINE q == row(x)
  <2>4. /\ Tail(v) \in Seq(Nat) /\ (Len(v) # 1 => Tail(v) # <<>>)
        /\ \A i \in DOMAIN Tail(v) : Tail(v)[i] \in DOMAIN tokens
    BY <2>2, TailOf, ZenonT(40)
  <2> HIDE DEF v
  <2>5. /\ q \in Request /\ q.op = req[r].op /\ q.u = req[r].u /\ q.victims = Tail(v)
        /\ q.pc = IF Len(v) = 1 THEN "token" ELSE "prune"
    BY <1>0, <2>4, ZenonT(40) DEF Request, Pcs
  <2>6. \A i \in DOMAIN Tail(v) : Tail(v)[i] \in DOMAIN tokens'
    BY <2>4 DEF Growth, SameTokens
  <2> HIDE DEF row
  <2>7. req' = [req EXCEPT ![r] = q]
    BY <2>3
  <2> HIDE DEF q
  <2>8. FitsNext(q)
    BY <1>o, <2>2, <2>4, <2>5, <2>6 DEF FitsNext, Fits
  <2> QED  BY <1>0, <2>5, <2>7, <2>8, Replaced
<1>13. CASE CreateAPIToken(r)
  <2> DEFINE u == req[r].u
             n == Len(tokens')
             counted(q) == q # r /\ req[q].u = u /\ req[q].pc \in {"list", "prune", "token"}
             stashing == [req[r] EXCEPT !.pc = "stash", !.id = n]
             created == \E row : tokens' = Append(tokens, row)
             mine == IF req[r].op = "LoginOAuthNative" THEN stashing ELSE Idle
  <2>1. /\ At(r, "token")
        /\ \/ Done(r)
           \/ /\ created
              /\ req' = [q \in Reqs |-> IF counted(q) THEN [req[q] EXCEPT !.excused = TRUE]
                                        ELSE IF q # r THEN req[q] ELSE mine]
    BY <1>13 DEF CreateAPIToken
  <2>2. req[r].u \in Users /\ req[r].pc # ""
    BY <1>0, <2>1 DEF At, Fits
  <2>3. n \in Nat /\ (created => n \in DOMAIN tokens')
    BY LenProperties, NewLength DEF TypeInv, TablesOK
  <2> HIDE DEF n
  <2>4. stashing \in Request /\ stashing.op = req[r].op /\ stashing.u = req[r].u /\ stashing.pc = "stash" /\ stashing.id = n
    BY <1>0, <2>3 DEF Request, Pcs
  <2> HIDE DEF stashing
  <2>5. created => FitsNext(stashing)
    BY <1>o, <2>2, <2>3, <2>4 DEF FitsNext, Fits
  <2>6. created => mine \in Request /\ FitsNext(mine)
    BY <2>4, <2>5, IdleFits DEF FitsNext
  <2> HIDE DEF mine
  <2>7. ASSUME NEW q \in Reqs, counted(q)
        PROVE  [req[q] EXCEPT !.excused = TRUE] \in Request /\ FitsNext([req[q] EXCEPT !.excused = TRUE])
    <3> DEFINE row == [req[q] EXCEPT !.excused = TRUE]
    <3>1. req[q] \in Request /\ FitsNext(req[q])
      BY <1>0, FitsGrows DEF RequestsOK
    <3>2. req[q].pc \in {"list", "prune", "token"} /\ req[q].op # "idle"
      BY <2>7, <3>1, IdleFits DEF FitsNext, Fits
    <3>3. /\ row \in Request /\ row.op = req[q].op /\ row.pc = req[q].pc /\ row.u = req[q].u
          /\ row.count = req[q].count /\ row.victims = req[q].victims
      BY <3>1 DEF Request
    <3> HIDE DEF row
    <3>4. FitsNext(row)
      BY <3>1, <3>2, <3>3 DEF FitsNext, Fits
    <3> QED  BY <3>3, <3>4 DEF row
  <2>8. \A q \in Reqs : req[q] \in Request /\ FitsNext(req[q])
    BY <1>0, FitsGrows DEF RequestsOK
  <2> HIDE DEF counted, created
  <2>9. ASSUME created, req' = [q \in Reqs |-> IF counted(q) THEN [req[q] EXCEPT !.excused = TRUE]
                                               ELSE IF q # r THEN req[q] ELSE mine]
        PROVE  RequestsOK'
    <3>1. \A q \in Reqs : req'[q] \in Request /\ FitsNext(req'[q])
      BY <2>6, <2>7, <2>8, <2>9
    <3>2. req' \in [Reqs -> Request]
      BY <2>9, <3>1
    <3> QED  BY <3>1, <3>2 DEF RequestsOK, FitsNext
  <2> QED  BY <1>0, <2>1, <2>9, Finished
<1>14. CASE GetUserByEmail(r)
  <2> DEFINE linked(u) == [req[r] EXCEPT !.pc = "link", !.u = u, !.saw = users[u].pw]
             creating == [req[r] EXCEPT !.pc = "create"]
  <2>1. /\ At(r, "address")
        /\ (\E u \in Users : req' = [req EXCEPT ![r] = linked(u)]) \/ req' = [req EXCEPT ![r] = creating]
    BY <1>0, <1>14 DEF GetUserByEmail, Goto, WithEmail, RequestsOK
  <2>2. req[r].who \in Identities /\ req[r].pc # ""
    BY <1>0, <2>1 DEF At, Fits
  <2>3. creating \in Request /\ creating.pc = "create" /\ creating.op = req[r].op /\ creating.who = req[r].who
    BY <1>0 DEF Request, Pcs
  <2>4. ASSUME NEW u \in Users, req' = [req EXCEPT ![r] = linked(u)] PROVE RequestsOK'
    <3> DEFINE q == linked(u)
    <3>0. users[u].pw \in Nat
      BY <1>0 DEF Account
    <3>1. q \in Request /\ q.pc = "link" /\ q.op = req[r].op /\ q.u = u /\ q.who = req[r].who
      BY <1>0, <3>0 DEF Request, Pcs
    <3>2. req' = [req EXCEPT ![r] = q]
      BY <2>4
    <3> HIDE DEF q
    <3>3. FitsNext(q)
      BY <1>o, <2>2, <3>1 DEF FitsNext, Fits
    <3> QED  BY <1>0, <3>1, <3>2, <3>3, Replaced
  <2> HIDE DEF creating, linked
  <2>5. FitsNext(creating)
    BY <1>o, <2>2, <2>3 DEF FitsNext, Fits
  <2> QED  BY <1>0, <2>1, <2>3, <2>4, <2>5, Replaced
<1>15. ASSUME NEW u \in Users, NEW n \in Nat, At(r, "create") \/ At(r, "reread"),
              req' = [req EXCEPT ![r].pc = Admit(req[r].op), ![r].u = u, ![r].saw = n]
       PROVE  RequestsOK'
  <2> DEFINE q == [req[r] EXCEPT !.pc = Admit(req[r].op), !.u = u, !.saw = n]
  <2>1. Admit(req[r].op) \in {"session", "count"}
    BY DEF Admit
  <2>2. req' = [req EXCEPT ![r] = q]
    BY <1>0, <1>15 DEF RequestsOK
  <2>3. q \in Request /\ q.pc = Admit(req[r].op) /\ q.op = req[r].op /\ q.u = u
    BY <1>0, <2>1 DEF Request, Pcs
  <2> HIDE DEF q
  <2>4. FitsNext(q)
    BY <1>o, <1>15, <2>1, <2>3 DEF FitsNext, Fits, At
  <2> QED  BY <1>0, <2>2, <2>3, <2>4, Replaced
<1>16. CASE linkProviderID(r)
  <2>1. At(r, "link") /\ (Done(r) \/ Goto(r, Admit(req[r].op)))
    BY <1>16 DEF linkProviderID, Goto
  <2>2. req[r].u \in Users /\ req[r].pc # ""
    BY <1>0, <2>1 DEF At, Fits
  <2>3. Admit(req[r].op) \in {"session", "count"}
    BY DEF Admit
  <2> QED  BY <1>0, <2>1, <2>2, <2>3, Onward, Finished
<1>17. ASSUME NEW u \in Users, createOAuthUser(r, u) PROVE RequestsOK'
  <2> DEFINE q == [req[r] EXCEPT !.pc = "reread"]
  <2>1. /\ At(r, "create")
        /\ \/ req' = [req EXCEPT ![r] = q]
           \/ req' = [req EXCEPT ![r].pc = Admit(req[r].op), ![r].u = u, ![r].saw = 0]
    BY <1>0, <1>17 DEF createOAuthUser, Goto, RequestsOK, OAuthAccount, NoAccount
  <2>2. req[r].who \in Identities /\ req[r].pc # ""
    BY <1>0, <2>1 DEF At, Fits
  <2>3. q \in Request /\ q.pc = "reread" /\ q.op = req[r].op /\ q.who = req[r].who
    BY <1>0 DEF Request, Pcs
  <2> HIDE DEF q
  <2>4. FitsNext(q)
    BY <1>o, <2>2, <2>3 DEF FitsNext, Fits
  <2> QED  BY <1>0, <1>15, <2>1, <2>3, <2>4, Replaced
<1>18. CASE rereadOAuthUser(r)
  <2>1. /\ At(r, "reread")
        /\ \/ \E u \in Users : req' = [req EXCEPT ![r].pc = Admit(req[r].op), ![r].u = u, ![r].saw = users[u].pw]
           \/ Done(r)
    BY <1>18 DEF rereadOAuthUser, Resolved, WithSub
  <2>2. \A u \in Users : users[u].pw \in Nat
    BY <1>0 DEF Account
  <2> QED  BY <1>0, <1>15, <2>1, <2>2, Finished
<1> QED
  BY <1>1, <1>3, <1>4, <1>5, <1>6, <1>7, <1>8, <1>9, <1>10, <1>11, <1>12, <1>13, <1>14, <1>16, <1>17, <1>18 DEF Step

-------------------------------------------------------------------------------
(* Type correctness.                                                                     *)

\* A step of a request keeps the types, and rows that were there are there.
LEMMA RequestStep ==
    ASSUME TypeInv, NEW r \in Reqs, Begin(r) \/ Step(r)
    PROVE  TypeInv' /\ Growth /\ SameChallenges(challenges, challenges')
<1>0. /\ UsersOK /\ CodesOK /\ TablesOK /\ PastOK /\ RequestsOK
      /\ req[r] \in Request /\ Fits(req[r], letters, sessions, tokens, past.confirmed)
  BY DEF TypeInv, RequestsOK
<1>w. Written(r)
  BY Writers
<1>1. UsersOK'
  <2>1. CASE UNCHANGED users
    BY <1>0, <2>1 DEF UsersOK, Addressed, Unique, Live
  <2> QED  BY <1>w, <2>1, UsersStep DEF Written
<1>2. letters' \in Seq(Letter) /\ SameLetters(letters, letters')
  BY <1>0, <1>w, LettersStep, SameRefl DEF Written, TablesOK
<1>3. sessions' \in Seq(Session) /\ SameSessions(sessions, sessions')
  BY <1>0, <1>w, SessionsStep, SameRefl DEF Written, TablesOK
<1>4. tokens' \in Seq(Token) /\ SameTokens(tokens, tokens')
  BY <1>0, <1>w, TokensStep, SameRefl DEF Written, TablesOK
<1>5. challenges' \in Seq(Challenge) /\ SameChallenges(challenges, challenges')
  BY <1>0, <1>w, ChallengesStep, SameRefl DEF Written, TablesOK
<1>6. PastOK' /\ Remembers
  <2>1. CASE UNCHANGED past
    <3>1. past \in History(past.spent)
      BY <1>0 DEF PastOK
    <3> QED  BY <2>1, <3>1, PastRecorded
  <2> QED  BY <1>w, <2>1, PastStep DEF Written
<1>7. CodesOK'
  <2>1. CASE UNCHANGED codes
    <3>1. past.sets \in Nat /\ past'.sets \in Nat /\ past.sets <= past'.sets
      BY <1>0, <1>6 DEF PastOK, History, Remembers
    <3>2. 1 .. past.sets \subseteq 1 .. past'.sets
      BY <3>1
    <3> QED  BY <1>0, <2>1, <3>2 DEF CodesOK
  <2> QED  BY <1>w, <2>1, CodesStep DEF Written
<1>8. stash' \subseteq DOMAIN tokens'
  <2>1. CASE UNCHANGED stash
    BY <1>0, <1>4, <2>1 DEF TablesOK, SameTokens
  <2>2. CASE StashNativeToken(r)
    <3>1. stash' = stash \cup {req[r].id} /\ req[r].id \in DOMAIN tokens
      BY <1>0, <2>2 DEF StashNativeToken, At, Fits
    <3> QED  BY <1>0, <1>4, <3>1 DEF TablesOK, SameTokens
  <2> QED  BY <1>w, <2>1, <2>2 DEF Written
<1>9. TablesOK' /\ Growth
  BY <1>2, <1>3, <1>4, <1>5, <1>6, <1>8 DEF TablesOK, Growth
<1>10. RequestsOK'
  BY <1>6, <1>9, BeginRequests, StepRequests
<1> QED  BY <1>1, <1>5, <1>6, <1>7, <1>9, <1>10 DEF TypeInv

\* A letter or a session that expires.
LEMMA LapseStep ==
    ASSUME TypeInv, Lapse
    PROVE  TypeInv' /\ Growth /\ SameChallenges(challenges, challenges')
<1>0. /\ UsersOK /\ CodesOK /\ TablesOK /\ PastOK /\ RequestsOK
  BY DEF TypeInv
<1>u. UNCHANGED <<users, codes, tokens, req, past>> /\ stash' \subseteq stash
  BY DEF Lapse
<1>1. letters' \in Seq(Letter) /\ SameLetters(letters, letters')
  <2>1. letters' = letters \/ \E i \in DOMAIN letters : letters[i].state = "valid" /\ letters' = [letters EXCEPT ![i].state = "expired"]
    BY DEF Lapse
  <2> QED  BY <1>0, <2>1, OneLetter, SameRefl DEF TablesOK, Spent
<1>2. sessions' \in Seq(Session) /\ SameSessions(sessions, sessions')
  <2>1. sessions' = sessions \/ \E s \in DOMAIN sessions : sessions' = [sessions EXCEPT ![s].state = "expired"]
    BY DEF Lapse
  <2> QED  BY <1>0, <2>1, OneSession, SameRefl DEF TablesOK
<1>3. challenges' \in Seq(Challenge) /\ SameChallenges(challenges, challenges')
  <2>1. challenges' = challenges \/ \E c \in DOMAIN challenges : challenges' = [challenges EXCEPT ![c].open = FALSE]
    BY DEF Lapse
  <2> QED  BY <1>0, <2>1, OneChallenge, SameRefl DEF TablesOK
<1>4. UsersOK' /\ CodesOK' /\ PastOK' /\ Remembers
  <2>1. past \in History(past.spent)
    BY <1>0 DEF PastOK
  <2>2. PastOK' /\ Remembers
    BY <1>u, <2>1, PastRecorded
  <2> QED  BY <1>0, <1>u, <2>2 DEF UsersOK, Addressed, Unique, Live, CodesOK
<1>5. TablesOK' /\ Growth
  BY <1>0, <1>u, <1>1, <1>2, <1>3, <1>4, SameRefl DEF TablesOK, Growth
<1>6. RequestsOK'
  BY <1>0, <1>u, <1>5, NotMoved
<1> QED  BY <1>3, <1>4, <1>5, <1>6 DEF TypeInv

\* A restart.
LEMMA RestartStep ==
    ASSUME TypeInv, Restart
    PROVE  TypeInv' /\ Growth /\ SameChallenges(challenges, challenges')
<1>0. /\ UsersOK /\ CodesOK /\ TablesOK /\ PastOK /\ RequestsOK
  BY DEF TypeInv
<1>u. UNCHANGED <<users, codes, letters, sessions, tokens, past>> /\ stash' = {} /\ req' = [r \in Reqs |-> Idle]
  BY DEF Restart, db
<1>1. challenges' \in Seq(Challenge) /\ SameChallenges(challenges, challenges')
  <2>1. challenges' = [c \in DOMAIN challenges |-> [challenges[c] EXCEPT !.open = FALSE]]
    BY DEF Restart
  <2>2. \A c \in DOMAIN challenges : challenges[c] \in Challenge
    BY RowTypes
  <2>3. \A c \in DOMAIN challenges :
          challenges'[c] \in Challenge /\ challenges'[c].u = challenges[c].u /\ challenges'[c].pw = challenges[c].pw /\ ~challenges'[c].open
    BY <2>1, <2>2 DEF Challenge
  <2>4. challenges' \in [DOMAIN challenges -> Challenge]
    BY <2>1, <2>3
  <2> QED  BY <1>0, <2>3, <2>4, RowsRewritten DEF SameChallenges, TablesOK
<1>2. UsersOK' /\ CodesOK' /\ PastOK' /\ Remembers
  <2>1. past \in History(past.spent)
    BY <1>0 DEF PastOK
  <2>2. PastOK' /\ Remembers
    BY <1>u, <2>1, PastRecorded
  <2> QED  BY <1>0, <1>u, <2>2 DEF UsersOK, Addressed, Unique, Live, CodesOK
<1>3. TablesOK' /\ Growth
  BY <1>0, <1>u, <1>1, <1>2, SameRefl DEF TablesOK, Growth
<1>4. RequestsOK'
  BY <1>u, IdleFits DEF RequestsOK
<1> QED  BY <1>1, <1>2, <1>3, <1>4 DEF TypeInv

\* An exchange code redeemed.
LEMMA ExchangeStep ==
    ASSUME TypeInv, NEW t, ExchangeNativeCode(t)
    PROVE  TypeInv' /\ Growth /\ SameChallenges(challenges, challenges')
<1>0. /\ UsersOK /\ CodesOK /\ TablesOK /\ PastOK /\ RequestsOK
  BY DEF TypeInv
<1>u. UNCHANGED <<users, codes, letters, sessions, tokens, challenges, req>> /\ stash' \subseteq stash
  BY DEF ExchangeNativeCode, db
<1>1. past \in History(past.spent)
  BY <1>0 DEF PastOK
<1>2. PICK spent : past' = [past EXCEPT !.spent = spent]
  BY DEF ExchangeNativeCode, Spend
<1>3. past' \in History(spent) /\ past'.spent = spent /\ past'.confirmed = past.confirmed /\ past'.sets = past.sets
  BY <1>1, <1>2 DEF History
<1>4. PastOK' /\ Remembers
  BY <1>3, PastRecorded
<1>5. UsersOK' /\ CodesOK'
  BY <1>0, <1>u, <1>3 DEF UsersOK, Addressed, Unique, Live, CodesOK
<1>6. TablesOK' /\ Growth
  BY <1>0, <1>u, <1>4, SameRefl DEF TablesOK, Growth
<1>7. RequestsOK'
  BY <1>0, <1>u, <1>6, NotMoved
<1> QED  BY <1>4, <1>5, <1>6, <1>7, <1>u, SameRefl DEF TypeInv

\* Any step.
LEMMA TypeStep ==
    ASSUME TypeInv, [Next]_vars
    PROVE  TypeInv' /\ Growth /\ SameChallenges(challenges, challenges')
<1>1. CASE UNCHANGED vars
  <2>1. UNCHANGED <<users, codes, letters, sessions, tokens, challenges, stash, req, past>>
    BY <1>1 DEF vars, db, mem
  <2>2. past \in History(past.spent)
    BY DEF TypeInv, PastOK
  <2>3. PastOK' /\ Remembers
    BY <2>1, <2>2, PastRecorded
  <2>4. Growth /\ SameChallenges(challenges, challenges')
    BY <2>1, <2>3, SameRefl DEF Growth
  <2>5. UsersOK' /\ CodesOK' /\ TablesOK'
    BY <2>1 DEF TypeInv, UsersOK, Addressed, Unique, Live, CodesOK, TablesOK
  <2>6. RequestsOK'
    BY <2>1, <2>4, NotMoved DEF TypeInv
  <2> QED  BY <2>3, <2>4, <2>5, <2>6 DEF TypeInv
<1> QED  BY <1>1, RequestStep, LapseStep, RestartStep, ExchangeStep DEF Next

LEMMA TypesHold == Spec => []TypeInv
<1>1. TypeInv /\ [Next]_vars => TypeInv'
  BY TypeStep
<1> QED  BY InitTypes, <1>1, PTL DEF Spec

\* Whatever the requests do, together or one after the other, and whatever expires or fails:
\* every row, challenge and request under way has the shape the code gives it, and no two
\* live accounts share an address or an identity (the unique indexes of users).
THEOREM TypeCorrect == Spec => []TypeOK
  BY TypesHold, TypeInvGivesTypeOK, PTL

-------------------------------------------------------------------------------
(* Which actions write which part of the history, and how requests move on.              *)

Recorded(r) ==
    /\ past'.spent = past.spent \/ VerifyEmail(r) \/ ConfirmPasswordReset(r) \/ Recover(r)
         \/ \E op \in {"Complete2FAWeb", "Complete2FANative"}, c \in DOMAIN challenges : TakeChallenge(r, op, c)
    /\ past'.sets = past.sets \/ SetTOTPEnabled(r)
    /\ past'.dangling = past.dangling \/ DeleteUserEmailTokens(r) \/ \E e \in Emails : UpdateEmail(r, e)
    /\ past'.slipped = past.slipped \/ VerifyEmail(r) \/ linkProviderID(r) \/ \E e \in Emails : UpdateEmail(r, e)
    /\ past'.overtaken = past.overtaken \/ SetTOTPSecret(r) \/ SetTOTPEnabled(r) \/ ClearTOTP(r)
    /\ past'.homes = past.homes \/ linkProviderID(r) \/ rereadOAuthUser(r)
         \/ (\E u \in Users : createOAuthUser(r, u))
         \/ \E op \in {"LoginOAuth", "LoginOAuthNative"}, i \in Identities : getByProviderID(r, op, i)
    /\ past.proven \subseteq past'.proven /\ past.unlinked \subseteq past'.unlinked

\* A part of the history changes only where it is written.
LEMMA Recording ==
    ASSUME TypeInv, NEW r \in Reqs, Begin(r) \/ Step(r)
    PROVE  Recorded(r)
<1>p. past \in History(past.spent)
  BY DEF TypeInv, PastOK
<1>00. ASSUME past' = past PROVE Recorded(r)
  BY <1>00 DEF Recorded
<1>1. CASE DeleteUserEmailTokens(r)
  <2>1. ASSUME past' = [past EXCEPT !.dangling = past.dangling \ {req[r].u}] PROVE Recorded(r)
    BY <1>p, <1>1, <2>1 DEF History, Recorded
  <2> QED  BY <1>00, <1>1, <2>1 DEF DeleteUserEmailTokens
<1>2. CASE VerifyEmail(r)
  <2> DEFINE u == req[r].u
             i == req[r].id
             spent == past.spent (+) SetToBag({<<"letter", i>>})
             proven == {<<u, letters[i].to>>}
             slip == letters[i].to # users[u].email /\ (letters[i].late \/ u \in past.dangling)
             slipped == IF slip THEN past.slipped \cup {u} ELSE past.slipped
  <2>1. \/ past' = past
        \/ past' = [past EXCEPT !.spent = spent, !.proven = past.proven \cup proven, !.slipped = slipped]
    BY <1>2 DEF VerifyEmail
  <2> HIDE DEF spent, proven, slipped
  <2>2. ASSUME past' = [past EXCEPT !.spent = spent, !.proven = past.proven \cup proven, !.slipped = slipped]
        PROVE  Recorded(r)
    BY <1>p, <1>2, <2>2 DEF History, Recorded
  <2> QED  BY <1>00, <2>1, <2>2
<1>3. CASE ConfirmPasswordReset(r) \/ Recover(r) \/ \E op \in {"Complete2FAWeb", "Complete2FANative"}, c \in DOMAIN challenges : TakeChallenge(r, op, c)
  <2>1. PICK spent : past' = past \/ past' = [past EXCEPT !.spent = spent]
    BY <1>3 DEF ConfirmPasswordReset, Recover, TakeChallenge, Spend
  <2>2. ASSUME past' = [past EXCEPT !.spent = spent] PROVE Recorded(r)
    BY <1>p, <1>3, <2>2 DEF History, Recorded
  <2> QED  BY <1>00, <2>1, <2>2
<1>4. ASSUME NEW e \in Emails, UpdateEmail(r, e) PROVE Recorded(r)
  <2>1. PICK dangling, slipped : past' = past \/ past' = [past EXCEPT !.dangling = dangling, !.slipped = slipped]
    BY <1>4 DEF UpdateEmail
  <2>2. ASSUME past' = [past EXCEPT !.dangling = dangling, !.slipped = slipped] PROVE Recorded(r)
    BY <1>p, <1>4, <2>2 DEF History, Recorded
  <2> QED  BY <1>00, <2>1, <2>2
<1>5. CASE CreateToken(r)
  <2>1. PICK refused : past' = past \/ past' = [past EXCEPT !.refused = refused]
    BY <1>5 DEF CreateToken
  <2>2. ASSUME past' = [past EXCEPT !.refused = refused] PROVE Recorded(r)
    BY <1>p, <2>2 DEF History, Recorded
  <2> QED  BY <1>00, <2>1, <2>2
<1>6. CASE SetTOTPSecret(r)
  <2>1. PICK secrets, overtaken : past' = past \/ past' = [past EXCEPT !.secrets = secrets, !.overtaken = overtaken]
    BY <1>6 DEF SetTOTPSecret
  <2>2. ASSUME past' = [past EXCEPT !.secrets = secrets, !.overtaken = overtaken] PROVE Recorded(r)
    BY <1>p, <1>6, <2>2 DEF History, Recorded
  <2> QED  BY <1>00, <2>1, <2>2
<1>7. CASE EnableTOTP(r)
  <2>1. PICK confirmed : past' = past \/ past' = [past EXCEPT !.confirmed = confirmed]
    BY <1>7 DEF EnableTOTP
  <2>2. ASSUME past' = [past EXCEPT !.confirmed = confirmed] PROVE Recorded(r)
    BY <1>p, <2>2 DEF History, Recorded
  <2> QED  BY <1>00, <2>1, <2>2
<1>8. CASE SetTOTPEnabled(r)
  <2>1. PICK sets, overtaken : past' = past \/ past' = [past EXCEPT !.sets = sets, !.overtaken = overtaken]
    BY <1>8 DEF SetTOTPEnabled
  <2>2. ASSUME past' = [past EXCEPT !.sets = sets, !.overtaken = overtaken] PROVE Recorded(r)
    BY <1>p, <1>8, <2>2 DEF History, Recorded
  <2> QED  BY <1>00, <2>1, <2>2
<1>9. CASE ClearTOTP(r)
  BY <1>p, <1>9 DEF ClearTOTP, History, Recorded
<1>10. CASE \/ rereadOAuthUser(r)
            \/ \E op \in {"LoginOAuth", "LoginOAuthNative"}, i \in Identities : getByProviderID(r, op, i)
  <2>1. PICK homes : past' = past \/ past' = [past EXCEPT !.homes = homes]
    BY <1>10 DEF getByProviderID, rereadOAuthUser, Resolved
  <2>2. ASSUME past' = [past EXCEPT !.homes = homes] PROVE Recorded(r)
    BY <1>p, <1>10, <2>2 DEF History, Recorded
  <2> QED  BY <1>00, <2>1, <2>2
<1>11. CASE linkProviderID(r)
  <2> DEFINE u == req[r].u
             i == req[r].who
             homes == past.homes \cup {<<i, u>>}
             proven == {<<u, EmailOf[i]>>}
             unlinked == {users[u].sub} \ {None, i}
             slipped == IF users[u].email # EmailOf[i] THEN past.slipped \cup {u} ELSE past.slipped
  <2>1. \/ past' = past
        \/ past' = [past EXCEPT !.homes = homes, !.unlinked = past.unlinked \cup unlinked,
                      !.proven = past.proven \cup proven, !.slipped = slipped]
    BY <1>11 DEF linkProviderID
  <2> HIDE DEF homes, proven, unlinked, slipped
  <2>2. ASSUME past' = [past EXCEPT !.homes = homes, !.unlinked = past.unlinked \cup unlinked,
                          !.proven = past.proven \cup proven, !.slipped = slipped]
        PROVE  Recorded(r)
    BY <1>p, <1>11, <2>2 DEF History, Recorded
  <2> QED  BY <1>00, <2>1, <2>2
<1>12. ASSUME NEW u \in Users, createOAuthUser(r, u) PROVE Recorded(r)
  <2>1. PICK homes, proven : past' = past \/ past' = [past EXCEPT !.homes = homes, !.proven = past.proven \cup proven]
    BY <1>12 DEF createOAuthUser
  <2>2. ASSUME past' = [past EXCEPT !.homes = homes, !.proven = past.proven \cup proven] PROVE Recorded(r)
    BY <1>p, <1>12, <2>2 DEF History, Recorded
  <2> QED  BY <1>00, <2>1, <2>2
<1>13. UNCHANGED past \/ PastWritten(r)
  BY Writers DEF Written
<1> QED
  BY <1>00, <1>1, <1>2, <1>3, <1>4, <1>5, <1>6, <1>7, <1>8, <1>9, <1>10, <1>11, <1>12, <1>13 DEF PastWritten

\* The steps of the minting of a token.
Minting(r) == CreateToken(r) \/ CountActiveTokens(r) \/ ListTokens(r) \/ PruneToken(r) \/ CreateAPIToken(r)

\* A request moves alone, but for the creation of a token, and only the minting leads to its steps.
Moves(r) ==
    /\ CreateAPIToken(r) \/ \A q \in Reqs \ {r} : req'[q] = req[q]
    /\ Minting(r) \/ req'[r].pc \notin {"token", "list", "prune", "stash"}

LEMMA Moving ==
    ASSUME TypeInv, NEW r \in Reqs, Begin(r) \/ Step(r)
    PROVE  Moves(r)
<1>0. req \in [Reqs -> Request] /\ Fits(req[r], letters, sessions, tokens, past.confirmed)
  BY DEF TypeInv, RequestsOK
<1>1. ASSUME NEW pc, req'[r].pc = pc, pc \notin {"token", "list", "prune", "stash"}, \A q \in Reqs \ {r} : req'[q] = req[q]
      PROVE  Moves(r)
  BY <1>1 DEF Moves
<1>2. ASSUME Done(r) PROVE Moves(r)
  <2>1. req'[r] = Idle /\ \A q \in Reqs \ {r} : req'[q] = req[q]
    BY <1>0, <1>2 DEF Done
  <2> QED  BY <1>1, <2>1, IdleFits
<1>3. ASSUME NEW pc, Goto(r, pc), pc \notin {"token", "list", "prune", "stash"} PROVE Moves(r)
  <2>1. req'[r].pc = pc /\ \A q \in Reqs \ {r} : req'[q] = req[q]
    BY <1>0, <1>3 DEF Goto, Request
  <2> QED  BY <1>1, <1>3, <2>1
<1>4. ASSUME req[r].op = "idle", req' = req PROVE Moves(r)
  <2>1. req[r] = Idle
    BY <1>0, <1>4 DEF Fits
  <2> QED  BY <1>1, <1>4, <2>1, IdleFits
<1>a. \A op : Admit(op) \in {"session", "count"} /\ AfterCode(op) \in {"session", "count", "disable"}
  BY DEF Admit, AfterCode
<1>5. ASSUME NEW row, req' = [req EXCEPT ![r] = row], row.pc \notin {"token", "list", "prune", "stash"}
      PROVE  Moves(r)
  BY <1>0, <1>1, <1>5
<1>6. CASE Begin(r)
  <2>1. ASSUME NEW op, NEW u, Login(r, op, u) PROVE Moves(r)
    <3> DEFINE row == [Idle EXCEPT !.op = op, !.pc = Admit(op), !.u = u, !.saw = users[u].pw]
    <3>1. req[r].op = "idle" /\ (req' = req \/ req' = [req EXCEPT ![r] = row])
      BY <2>1 DEF Login, Start
    <3>2. row.pc = Admit(op)
      BY DEF Idle
    <3> HIDE DEF row
    <3> QED  BY <1>4, <1>5, <1>a, <3>1, <3>2
  <2>2. ASSUME NEW u, NEW e, Register(r, u, e) PROVE Moves(r)
    <3> DEFINE row == [Idle EXCEPT !.op = "Register", !.pc = "clear", !.u = u, !.email = e]
    <3>1. req[r].op = "idle" /\ (req' = req \/ req' = [req EXCEPT ![r] = row])
      BY <2>2 DEF Register, Start
    <3>2. row.pc = "clear"
      BY DEF Idle
    <3> HIDE DEF row
    <3> QED  BY <1>4, <1>5, <1>a, <3>1, <3>2
  <2>3. ASSUME NEW u, RequestPasswordReset(r, u) PROVE Moves(r)
    <3> DEFINE row == [Idle EXCEPT !.op = "RequestPasswordReset", !.pc = "clear", !.u = u, !.email = users[u].email]
    <3>1. req[r].op = "idle" /\ (req' = req \/ req' = [req EXCEPT ![r] = row])
      BY <2>3 DEF RequestPasswordReset, Start
    <3>2. row.pc = "clear"
      BY DEF Idle
    <3> HIDE DEF row
    <3> QED  BY <1>4, <1>5, <1>a, <3>1, <3>2
  <2>4. ASSUME NEW op, NEW c, TakeChallenge(r, op, c) PROVE Moves(r)
    <3> DEFINE row == [Idle EXCEPT !.op = op, !.pc = "code", !.u = challenges[c].u, !.saw = challenges[c].pw]
    <3>1. req[r].op = "idle" /\ (req' = req \/ req' = [req EXCEPT ![r] = row])
      BY <2>4 DEF TakeChallenge, Start
    <3>2. row.pc = "code"
      BY DEF Idle
    <3> HIDE DEF row
    <3> QED  BY <1>4, <1>5, <1>a, <3>1, <3>2
  <2>5. ASSUME NEW op, NEW i, GetValidEmailToken(r, op, i) PROVE Moves(r)
    <3> DEFINE row == [Idle EXCEPT !.op = op, !.pc = "consume", !.u = letters[i].u, !.id = i]
    <3>1. req[r].op = "idle" /\ (req' = req \/ req' = [req EXCEPT ![r] = row])
      BY <2>5 DEF GetValidEmailToken, Start
    <3>2. row.pc = "consume"
      BY DEF Idle
    <3> HIDE DEF row
    <3> QED  BY <1>4, <1>5, <1>a, <3>1, <3>2
  <2>6. ASSUME NEW op, NEW i, getByProviderID(r, op, i) PROVE Moves(r)
    <3> DEFINE row(pc, u, n) == [Idle EXCEPT !.op = op, !.pc = pc, !.u = u, !.who = i, !.saw = n]
    <3>1. \/ \E u \in Users : req' = [req EXCEPT ![r] = row(Admit(op), u, users[u].pw)]
          \/ req' = [req EXCEPT ![r] = row("address", None, 0)]
      BY <2>6 DEF getByProviderID, WithSub
    <3>2. \A pc, u, n : row(pc, u, n).pc = pc
      BY DEF Idle
    <3> HIDE DEF row
    <3> QED  BY <1>5, <1>a, <3>1, <3>2
  <2>7. ASSUME NEW op, Authenticate(r, op) PROVE Moves(r)
    <3> DEFINE bySession(s) == [Idle EXCEPT !.op = op, !.pc = "authed", !.u = sessions[s].u, !.id = s]
               byToken(t) == [Idle EXCEPT !.op = op, !.pc = "authed", !.u = tokens[t].u, !.victims = <<t>>]
    <3>1. (\E s : req' = [req EXCEPT ![r] = bySession(s)]) \/ \E t : req' = [req EXCEPT ![r] = byToken(t)]
      BY <2>7, ZenonT(40) DEF Authenticate
    <3>2. \A x : bySession(x).pc = "authed" /\ byToken(x).pc = "authed"
      BY SMTT(30) DEF Idle
    <3> HIDE DEF bySession, byToken
    <3> QED  BY <1>5, <3>1, <3>2
  <2> QED  BY <1>6, <2>1, <2>2, <2>3, <2>4, <2>5, <2>6, <2>7 DEF Begin
<1>7. CASE issueSession(r) \/ VerifyEmail(r) \/ ConfirmPasswordReset(r) \/ UpdateUserPassword(r) \/ Revoke(r)
           \/ DeleteAccount(r) \/ StashNativeToken(r) \/ SetTOTPSecret(r) \/ SetTOTPEnabled(r) \/ ClearTOTP(r)
  BY <1>2, <1>7 DEF issueSession, VerifyEmail, ConfirmPasswordReset, UpdateUserPassword, Revoke, DeleteAccount,
                StashNativeToken, SetTOTPSecret, SetTOTPEnabled, ClearTOTP
<1>8. CASE DeleteUserEmailTokens(r) \/ CreateEmailToken(r) \/ ChangePassword(r) \/ SetupTOTP(r) \/ DisableTOTP(r) \/ Recover(r)
  <2>1. \/ Done(r)
        \/ \E pc \in {"mail", "session", "password", "setup", "code", "disable", "count"} : Goto(r, pc)
    BY <1>a, <1>8 DEF DeleteUserEmailTokens, CreateEmailToken, AfterLetter, ChangePassword, SetupTOTP, DisableTOTP, Recover
  <2> QED  BY <1>2, <1>3, <2>1
<1>9. ASSUME NEW e, UpdateEmail(r, e) PROVE Moves(r)
  <2>1. ASSUME req' = [req EXCEPT ![r].pc = "clear", ![r].email = e] PROVE Moves(r)
    <3>1. req'[r].pc = "clear" /\ \A q \in Reqs \ {r} : req'[q] = req[q]
      BY <1>0, <2>1 DEF Request
    <3> QED  BY <1>1, <3>1
  <2> QED  BY <1>2, <1>9, <2>1 DEF UpdateEmail
<1>10. CASE EnableTOTP(r)
  <2>1. PICK n : Done(r) \/ req' = [req EXCEPT ![r].pc = "enable", ![r].saw = n]
    BY <1>10 DEF EnableTOTP
  <2>2. ASSUME req' = [req EXCEPT ![r].pc = "enable", ![r].saw = n] PROVE Moves(r)
    <3>1. req'[r].pc = "enable" /\ \A q \in Reqs \ {r} : req'[q] = req[q]
      BY <1>0, <2>2 DEF Request
    <3> QED  BY <1>1, <3>1
  <2> QED  BY <1>2, <2>1, <2>2
<1>11. CASE verifyTOTP(r)
  <2>1. PICK v : \/ Done(r) \/ Goto(r, AfterCode(req[r].op))
                 \/ req' = [req EXCEPT ![r].pc = "recover", ![r].victims = v]
    BY <1>11 DEF verifyTOTP
  <2>2. ASSUME req' = [req EXCEPT ![r].pc = "recover", ![r].victims = v] PROVE Moves(r)
    <3>1. req'[r].pc = "recover" /\ \A q \in Reqs \ {r} : req'[q] = req[q]
      BY <1>0, <2>2 DEF Request
    <3> QED  BY <1>1, <3>1
  <2>3. ASSUME Goto(r, AfterCode(req[r].op)) PROVE Moves(r)
    BY <1>3, <1>a, <2>3
  <2> QED  BY <1>2, <2>1, <2>2, <2>3
<1>12. ASSUME NEW u, NEW n, NEW pc \in {"link", "session", "count"},
              req' = [req EXCEPT ![r].pc = pc, ![r].u = u, ![r].saw = n]
       PROVE  Moves(r)
  <2>1. req'[r].pc = pc /\ \A q \in Reqs \ {r} : req'[q] = req[q]
    BY <1>0, <1>12 DEF Request
  <2> QED  BY <1>1, <1>12, <2>1
<1>13. CASE GetUserByEmail(r) \/ linkProviderID(r) \/ rereadOAuthUser(r) \/ \E u \in Users : createOAuthUser(r, u)
  <2> DEFINE on(pc, u, n) == req' = [req EXCEPT ![r].pc = pc, ![r].u = u, ![r].saw = n]
  <2>1. Done(r) \/ (\E pc \in {"create", "reread", "session", "count"} : Goto(r, pc))
          \/ \E pc \in {"link", "session", "count"} : \E u, n : on(pc, u, n)
    <3>1. CASE GetUserByEmail(r)
      <4>1. Goto(r, "create") \/ \E u : on("link", u, users[u].pw)
        BY <3>1 DEF GetUserByEmail
      <4> QED  BY <4>1
    <3>2. CASE linkProviderID(r)
      BY <1>a, <3>2 DEF linkProviderID, Goto
    <3>3. CASE rereadOAuthUser(r)
      <4>1. Done(r) \/ \E u : on(Admit(req[r].op), u, users[u].pw)
        BY <3>3 DEF rereadOAuthUser, Resolved
      <4> HIDE DEF on
      <4> QED  BY <1>a, <4>1
    <3>4. ASSUME NEW u \in Users, createOAuthUser(r, u) PROVE Goto(r, "reread") \/ \E n : on(Admit(req[r].op), u, n)
      BY <3>4 DEF createOAuthUser
    <3> HIDE DEF on
    <3> QED  BY <1>a, <1>13, <3>1, <3>2, <3>3, <3>4
  <2> QED  BY <1>2, <1>3, <1>12, <2>1
<1>14. CASE CreateToken(r) \/ CountActiveTokens(r) \/ ListTokens(r) \/ PruneToken(r)
  <2>1. \A q \in Reqs \ {r} : req'[q] = req[q]
    BY <1>0, <1>14 DEF CreateToken, CountActiveTokens, ListTokens, PruneToken, Done, Goto
  <2> QED  BY <1>14, <2>1 DEF Moves, Minting
<1>15. CASE CreateAPIToken(r)
  BY <1>15 DEF Moves, Minting
<1> QED  BY <1>6, <1>7, <1>8, <1>9, <1>10, <1>11, <1>13, <1>14, <1>15 DEF Step

-------------------------------------------------------------------------------
(* What is good for one use.                                                             *)

\* What a use leaves behind.
SpentFor(x) ==
    \/ \E i \in DOMAIN letters : x = <<"letter", i>> /\ Spent(letters[i])
    \/ \E c \in DOMAIN challenges : x = <<"challenge", c>> /\ ~challenges[c].open
    \/ \E t \in DOMAIN tokens : /\ x = <<"exchange", t>> /\ t \notin stash
                                /\ \A r \in Reqs : At(r, "stash") => req[r].id # t
    \/ \E u \in Users, g \in 1 .. past.sets, k \in 1 .. RecoveryCodeCount : x = <<u, g, k>> /\ x \notin codes

OnceEach == \A x \in DOMAIN past.spent : past.spent[x] = 1 /\ SpentFor(x)
\* A token is handed to the stash by one request.
StashedOnce ==
    \A r \in Reqs : At(r, "stash") =>
        req[r].id \notin stash /\ \A q \in Reqs \ {r} : At(q, "stash") => req[q].id # req[r].id
OnceInv == OnceEach /\ StashedOnce

LEMMA OnceGivesSpentOnce == OnceInv => SpentOnce
  BY DEF OnceInv, OnceEach, SpentOnce, BagToSet

LEMMA OnceInit == Init => OnceInv
<1> SUFFICES ASSUME Init PROVE OnceInv
  OBVIOUS
<1>1. past.spent = EmptyBag /\ req = [r \in Reqs |-> Idle]
  BY DEF Init
<1>2. DOMAIN past.spent = {}
  BY <1>1 DEF EmptyBag, SetToBag
<1> QED  BY <1>1, <1>2, IdleFits DEF OnceInv, OnceEach, StashedOnce, At

\* Letters, challenges, tokens and codes are told apart.
LEMMA ThingsDiffer ==
    ASSUME NEW i, NEW j, NEW u, NEW g, NEW k
    PROVE  /\ <<"letter", i>> # <<"challenge", j>> /\ <<"letter", i>> # <<"exchange", j>>
           /\ <<"challenge", i>> # <<"exchange", j>>
           /\ <<"letter", i>> # <<u, g, k>> /\ <<"challenge", i>> # <<u, g, k>> /\ <<"exchange", i>> # <<u, g, k>>
           /\ (<<"letter", i>> = <<"letter", j>> \/ <<"challenge", i>> = <<"challenge", j>>
                 \/ <<"exchange", i>> = <<"exchange", j>>) => i = j
<1>1. DOMAIN <<u, g, k>> = 1 .. 3 /\ 3 \in 1 .. 3
  OBVIOUS
<1>2. \A a : DOMAIN <<a, i>> = 1 .. 2 /\ 3 \notin 1 .. 2
  OBVIOUS
<1>3. \A a : <<a, i>> # <<u, g, k>>
  BY <1>1, <1>2
<1> QED  BY <1>3

\* What has not been spent yet, at the point where it is.
LEMMA Unspent ==
    ASSUME OnceEach
    PROVE  /\ \A i \in DOMAIN letters : ~Spent(letters[i]) => <<"letter", i>> \notin DOMAIN past.spent
           /\ \A c \in DOMAIN challenges : challenges[c].open => <<"challenge", c>> \notin DOMAIN past.spent
           /\ \A t \in stash : <<"exchange", t>> \notin DOMAIN past.spent
           /\ \A u, g, k : <<u, g, k>> \in codes => <<u, g, k>> \notin DOMAIN past.spent
<1>1. ASSUME NEW i \in DOMAIN letters, ~Spent(letters[i]) PROVE ~SpentFor(<<"letter", i>>)
  BY <1>1, ThingsDiffer DEF SpentFor
<1>2. ASSUME NEW c \in DOMAIN challenges, challenges[c].open PROVE ~SpentFor(<<"challenge", c>>)
  BY <1>2, ThingsDiffer DEF SpentFor
<1>3. ASSUME NEW t \in stash PROVE ~SpentFor(<<"exchange", t>>)
  BY <1>3, ThingsDiffer DEF SpentFor
<1>4. ASSUME NEW u, NEW g, NEW k, <<u, g, k>> \in codes PROVE ~SpentFor(<<u, g, k>>)
  BY <1>4, ThingsDiffer DEF SpentFor
<1> QED  BY <1>1, <1>2, <1>3, <1>4 DEF OnceEach

\* One thing more is spent.
LEMMA Spending ==
    ASSUME NEW bag, NEW x, x \notin DOMAIN bag, \A y \in DOMAIN bag : bag[y] = 1
    PROVE  LET new == bag (+) SetToBag({x}) IN
           DOMAIN new = DOMAIN bag \cup {x} /\ \A y \in DOMAIN new : new[y] = 1
  BY DEF (+), SetToBag

\* One token of those to revoke: revoked, or passed over.
LEMMA Pruning ==
    ASSUME TypeInv, NEW r \in Reqs, PruneToken(r)
    PROVE  /\ At(r, "prune") /\ req[r].u \in Users /\ req[r].victims \in Seq(Nat) /\ req[r].victims # <<>>
           /\ \A i \in DOMAIN req[r].victims : req[r].victims[i] \in DOMAIN tokens
           /\ \A q \in Reqs \ {r} : req'[q] = req[q]
           /\ req'[r].u = req[r].u /\ req'[r].victims = Tail(req[r].victims)
           /\ req'[r].pc = IF Len(req[r].victims) = 1 THEN "token" ELSE "prune"
           /\ req'[r].excused \/ (~req[r].excused /\ tokens' = [tokens EXCEPT ![req[r].victims[1]].active = FALSE])
<1> DEFINE v == req[r].victims
           row(x) == [req[r] EXCEPT !.victims = Tail(v), !.excused = x, !.pc = IF Len(v) = 1 THEN "token" ELSE "prune"]
<1>0. req \in [Reqs -> Request] /\ req[r] \in Request /\ Fits(req[r], letters, sessions, tokens, past.confirmed)
  BY DEF TypeInv, RequestsOK
<1>1. At(r, "prune") /\ req[r].excused \in BOOLEAN
  BY <1>0 DEF PruneToken, Request
<1>2. \/ /\ tokens' = [tokens EXCEPT ![v[1]].active = FALSE]
         /\ req' = [req EXCEPT ![r] = row(req[r].excused \/ FALSE)]
      \/ req' = [req EXCEPT ![r] = row(req[r].excused \/ TRUE)]
  BY <1>0 DEF PruneToken
<1>3. \A x : /\ row(x).u = req[r].u /\ row(x).victims = Tail(v) /\ row(x).excused = x
             /\ row(x).pc = IF Len(v) = 1 THEN "token" ELSE "prune"
  BY <1>0 DEF Request
<1> HIDE DEF row
<1>4. (req[r].excused \/ FALSE) = req[r].excused /\ (req[r].excused \/ TRUE) = TRUE
  BY <1>1
<1>5. \/ /\ tokens' = [tokens EXCEPT ![v[1]].active = FALSE]
         /\ req' = [req EXCEPT ![r] = row(req[r].excused)]
      \/ req' = [req EXCEPT ![r] = row(TRUE)]
  BY <1>2, <1>4
<1>6. req[r].u \in Users /\ v \in Seq(Nat) /\ v # <<>> /\ \A i \in DOMAIN v : v[i] \in DOMAIN tokens
  BY <1>0, <1>1 DEF At, Fits, Request
<1>7. ASSUME NEW x, req' = [req EXCEPT ![r] = row(x)]
      PROVE  /\ \A q \in Reqs \ {r} : req'[q] = req[q]
             /\ req'[r].u = req[r].u /\ req'[r].victims = Tail(v) /\ req'[r].excused = x
             /\ req'[r].pc = IF Len(v) = 1 THEN "token" ELSE "prune"
  <2>1. req'[r] = row(x) /\ \A q \in Reqs \ {r} : req'[q] = req[q]
    BY <1>0, <1>7
  <2> QED  BY <1>3, <2>1
<1>8. CASE req' = [req EXCEPT ![r] = row(TRUE)]
  BY <1>1, <1>6, <1>7, <1>8
<1>9. CASE tokens' = [tokens EXCEPT ![v[1]].active = FALSE] /\ req' = [req EXCEPT ![r] = row(req[r].excused)]
  BY <1>1, <1>6, <1>7, <1>9
<1> QED  BY <1>5, <1>8, <1>9

\* A request comes to hand a token to the stash when it has just created it.
LEMMA Stashing ==
    ASSUME TypeInv, NEW r \in Reqs, Begin(r) \/ Step(r), NEW q \in Reqs, At(q, "stash")'
    PROVE  \/ At(q, "stash") /\ req'[q].id = req[q].id
           \/ q = r /\ req'[q].id \notin DOMAIN tokens
<1>0. req \in [Reqs -> Request] /\ tokens \in Seq(Token) /\ req'[q].pc = "stash" /\ Moves(r)
  BY Moving DEF TypeInv, RequestsOK, TablesOK, At
<1>1. CASE CreateAPIToken(r)
  <2> DEFINE counted(x) == x # r /\ req[x].u = req[r].u /\ req[x].pc \in {"list", "prune", "token"}
  <2>1. CASE Done(r)
    <3>1. req'[r] = Idle /\ \A x \in Reqs \ {r} : req'[x] = req[x]
      BY <1>0, <2>1 DEF Done
    <3> QED  BY <1>0, <3>1, IdleFits DEF At
  <2>2. CASE Live(req[r].u)
    <3>1. PICK row : tokens' = Append(tokens, row)
      BY <1>1, <2>2 DEF CreateAPIToken
    <3>2. Len(tokens') \notin DOMAIN tokens
      <4>1. Len(tokens') = Len(tokens) + 1 /\ Len(tokens) \in Nat /\ DOMAIN tokens = 1 .. Len(tokens)
        BY <1>0, <3>1, LenProperties
      <4> QED  BY <4>1
    <3>3. \A x \in Reqs : req'[x] = IF counted(x) THEN [req[x] EXCEPT !.excused = TRUE]
                                    ELSE IF x # r THEN req[x]
                                    ELSE IF req[r].op = "LoginOAuthNative"
                                           THEN [req[r] EXCEPT !.pc = "stash", !.id = Len(tokens')]
                                    ELSE Idle
      BY <1>1, <2>2 DEF CreateAPIToken
    <3>4. CASE counted(q)
      <4>1. req'[q] = [req[q] EXCEPT !.excused = TRUE] /\ req[q].pc # "stash"
        BY <3>3, <3>4
      <4> QED  BY <1>0, <4>1 DEF Request
    <3>5. CASE ~counted(q) /\ q # r
      BY <1>0, <3>3, <3>5 DEF At
    <3>6. CASE q = r
      <4> DEFINE n == Len(tokens')
      <4>0. n \notin DOMAIN tokens
        BY <3>2
      <4>1. req'[r] = [req[r] EXCEPT !.pc = "stash", !.id = n] \/ req'[r] = Idle
        BY <3>3
      <4> HIDE DEF n
      <4>2. req'[r] # Idle
        BY <1>0, <3>6, IdleFits
      <4>3. req'[r].id = n
        BY <1>0, <4>1, <4>2 DEF Request
      <4> QED  BY <3>6, <4>0, <4>3
    <3> QED  BY <3>4, <3>5, <3>6
  <2> QED  BY <1>1, <2>1, <2>2 DEF CreateAPIToken
<1>2. CASE ~CreateAPIToken(r) /\ q # r
  BY <1>0, <1>2 DEF Moves, At
<1>3. CASE ~CreateAPIToken(r) /\ q = r
  <2>1. CreateToken(r) \/ CountActiveTokens(r) \/ ListTokens(r) \/ PruneToken(r)
    BY <1>0, <1>3 DEF Moves, Minting
  <2>2. req'[r].pc \in {"", "token", "list", "prune"}
    <3>1. CASE CreateToken(r)
      BY <1>0, <3>1, IdleFits, ZenonT(40) DEF CreateToken, Done, Goto, Request
    <3>2. CASE CountActiveTokens(r)
      BY <1>0, <3>2, ZenonT(40) DEF CountActiveTokens, Request
    <3>3. CASE ListTokens(r)
      BY <1>0, <3>3, ZenonT(40) DEF ListTokens, Request
    <3>4. CASE PruneToken(r)
      BY <3>4, Pruning
    <3> QED  BY <2>1, <3>1, <3>2, <3>3, <3>4
  <2> QED  BY <1>0, <1>3, <2>2
<1> QED  BY <1>1, <1>2, <1>3

\* The codes that are there were there, or are of a new set.
LEMMA CodesFrom ==
    ASSUME TypeInv, NEW r \in Reqs, Begin(r) \/ Step(r), NEW c \in codes'
    PROVE  \/ c \in codes
           \/ /\ SetTOTPEnabled(r) /\ Live(req[r].u) /\ past'.sets = past.sets + 1
              /\ c \in CodeSet(req[r].u, past.sets + 1)
<1>1. UNCHANGED codes \/ CodesWritten(r)
  BY Writers DEF Written
<1>2. CASE DeleteAccount(r) \/ ClearTOTP(r) \/ Recover(r)
  BY <1>2 DEF DeleteAccount, ClearTOTP, Recover, UseRecoveryCode
<1>3. CASE SetTOTPEnabled(r)
  <2>1. past \in History(past.spent)
    BY DEF TypeInv, PastOK
  <2>2. Live(req[r].u) => past'.sets = past.sets + 1
    BY <1>3, <2>1 DEF SetTOTPEnabled, History
  <2> QED  BY <1>3, <2>2 DEF SetTOTPEnabled
<1> QED  BY <1>1, <1>2, <1>3 DEF CodesWritten

\* What a use left behind stays.
LEMMA StaysSpent ==
    ASSUME TypeInv, StashedOnce, NEW r \in Reqs, Begin(r) \/ Step(r), NEW x, SpentFor(x)
    PROVE  SpentFor(x)'
<1>0. /\ SameLetters(letters, letters') /\ SameTokens(tokens, tokens') /\ SameChallenges(challenges, challenges')
      /\ Remembers /\ TypeInv'
  BY RequestStep DEF Growth
<1>1. ASSUME NEW i \in DOMAIN letters, x = <<"letter", i>>, Spent(letters[i]) PROVE SpentFor(x)'
  BY <1>0, <1>1 DEF SameLetters, SpentFor
<1>2. ASSUME NEW c \in DOMAIN challenges, x = <<"challenge", c>>, ~challenges[c].open PROVE SpentFor(x)'
  BY <1>0, <1>2 DEF SameChallenges, SpentFor
<1>3. ASSUME NEW t \in DOMAIN tokens, x = <<"exchange", t>>, t \notin stash, \A q \in Reqs : At(q, "stash") => req[q].id # t
      PROVE  SpentFor(x)'
  <2>1. t \in DOMAIN tokens'
    BY <1>0 DEF SameTokens
  <2>2. t \notin stash'
    <3>1. UNCHANGED stash \/ StashNativeToken(r)
      BY Writers DEF Written
    <3> QED  BY <1>3, <3>1 DEF StashNativeToken
  <2>3. \A q \in Reqs : At(q, "stash")' => req'[q].id # t
    BY <1>3, Stashing
  <2> QED  BY <1>3, <2>1, <2>2, <2>3 DEF SpentFor, At
<1>4. ASSUME NEW u \in Users, NEW g \in 1 .. past.sets, NEW k \in 1 .. RecoveryCodeCount, x = <<u, g, k>>, x \notin codes
      PROVE  SpentFor(x)'
  <2>1. past.sets \in Nat /\ past'.sets \in Nat /\ past.sets <= past'.sets
    BY <1>0 DEF TypeInv, PastOK, History, Remembers
  <2>2. g \in 1 .. past'.sets
    BY <2>1
  <2>3. \A v : x \notin CodeSet(v, past.sets + 1)
    <3>1. g # past.sets + 1
      BY <2>1
    <3> QED  BY <1>4, <3>1 DEF CodeSet
  <2>4. x \notin codes'
    BY <1>4, <2>3, CodesFrom
  <2> QED  BY <1>4, <2>2, <2>4 DEF SpentFor
<1> QED  BY <1>1, <1>2, <1>3, <1>4 DEF SpentFor

\* Tokens on their way to the stash stay apart.
LEMMA StashesOnce ==
    ASSUME TypeInv, StashedOnce, NEW r \in Reqs, Begin(r) \/ Step(r)
    PROVE  StashedOnce'
<1>1. UNCHANGED stash \/ StashNativeToken(r)
  BY Writers DEF Written
<1>2. req \in [Reqs -> Request] /\ stash \subseteq DOMAIN tokens
      /\ \A q \in Reqs : At(q, "stash") => req[q].id \in DOMAIN tokens
  BY DEF TypeInv, RequestsOK, TablesOK, Fits, At
<1> SUFFICES ASSUME NEW p \in Reqs, At(p, "stash")'
             PROVE  req'[p].id \notin stash' /\ \A q \in Reqs \ {p} : At(q, "stash")' => req'[q].id # req'[p].id
  BY DEF StashedOnce, At
<1>3. \/ At(p, "stash") /\ req'[p].id = req[p].id
      \/ p = r /\ req'[p].id \notin DOMAIN tokens
  BY Stashing
<1>4. ASSUME NEW q \in Reqs \ {p}, At(q, "stash")' PROVE req'[q].id # req'[p].id
  <2>1. \/ At(q, "stash") /\ req'[q].id = req[q].id
        \/ q = r /\ req'[q].id \notin DOMAIN tokens
    BY <1>4, Stashing
  <2> QED  BY <1>2, <1>3, <2>1 DEF StashedOnce
<1>5. req'[p].id \notin stash'
  <2>1. CASE UNCHANGED stash
    BY <1>2, <1>3, <2>1 DEF StashedOnce
  <2>2. CASE StashNativeToken(r)
    <3>1. stash' = stash \cup {req[r].id} /\ At(r, "stash") /\ req' = [req EXCEPT ![r] = Idle]
      BY <2>2 DEF StashNativeToken, Done
    <3>2. p # r /\ req'[p] = req[p]
      BY <1>2, <3>1, IdleFits DEF At
    <3> QED  BY <3>1, <3>2 DEF StashedOnce, At
  <2> QED  BY <1>1, <2>1, <2>2
<1> QED  BY <1>4, <1>5

LEMMA OnceStep ==
    ASSUME TypeInv, OnceInv, NEW r \in Reqs, Begin(r) \/ Step(r)
    PROVE  OnceInv'
<1>0. OnceEach /\ StashedOnce /\ req[r] \in Request /\ Fits(req[r], letters, sessions, tokens, past.confirmed)
  BY DEF OnceInv, TypeInv, RequestsOK
<1>p. past \in History(past.spent)
  BY DEF TypeInv, PastOK
<1>t. TypeInv' /\ Growth /\ SameChallenges(challenges, challenges')
  BY RequestStep
<1>1. ASSUME NEW x, x \notin DOMAIN past.spent, past'.spent = past.spent (+) SetToBag({x}), SpentFor(x)'
      PROVE  OnceEach'
  <2>1. \A y \in DOMAIN past.spent : past.spent[y] = 1 /\ SpentFor(y)'
    BY <1>0, StaysSpent DEF OnceEach
  <2>2. DOMAIN past'.spent = DOMAIN past.spent \cup {x} /\ \A y \in DOMAIN past'.spent : past'.spent[y] = 1
    <3> DEFINE bag == past.spent
    <3>1. x \notin DOMAIN bag /\ \A y \in DOMAIN bag : bag[y] = 1
      BY <1>1, <2>1
    <3>2. past'.spent = bag (+) SetToBag({x})
      BY <1>1
    <3> HIDE DEF bag
    <3>3. LET new == bag (+) SetToBag({x}) IN
          DOMAIN new = DOMAIN bag \cup {x} /\ \A y \in DOMAIN new : new[y] = 1
      BY <3>1, Spending
    <3> QED  BY <3>2, <3>3 DEF bag
  <2> QED  BY <1>1, <2>1, <2>2 DEF OnceEach
<1>2. CASE past'.spent = past.spent
  <2>1. \A x \in DOMAIN past.spent : past.spent[x] = 1 /\ SpentFor(x)'
    BY <1>0, StaysSpent DEF OnceEach
  <2> QED  BY <1>2, <2>1, StashesOnce DEF OnceEach, OnceInv
<1>3. CASE past'.spent # past.spent
  <2>1. \/ VerifyEmail(r) \/ ConfirmPasswordReset(r) \/ Recover(r)
        \/ \E op \in {"Complete2FAWeb", "Complete2FANative"}, c \in DOMAIN challenges : TakeChallenge(r, op, c)
    BY <1>3, Recording DEF Recorded
  <2>2. CASE VerifyEmail(r) \/ ConfirmPasswordReset(r)
    <3>i. PICK i : i = req[r].id
      OBVIOUS
    <3> DEFINE x == <<"letter", i>>
    <3>1. i \in DOMAIN letters
      BY <1>0, <2>2, <3>i DEF VerifyEmail, ConfirmPasswordReset, At, Fits
    <3>2. MarkEmailTokenUsed(i) /\ letters' = [letters EXCEPT ![i].state = "used"] /\ past'.spent = past.spent (+) SetToBag({x})
      <4>1. CASE VerifyEmail(r)
        <5> DEFINE u == req[r].u
                   spent == past.spent (+) SetToBag({x})
                   proven == past.proven \cup {<<u, letters[i].to>>}
                   slip == letters[i].to # users[u].email /\ (letters[i].late \/ u \in past.dangling)
                   slipped == IF slip THEN past.slipped \cup {u} ELSE past.slipped
        <5>1. /\ MarkEmailTokenUsed(i) /\ letters' = [letters EXCEPT ![i].state = "used"]
              /\ past' = [past EXCEPT !.spent = spent, !.proven = proven, !.slipped = slipped]
          BY <1>3, <3>i, <4>1 DEF VerifyEmail
        <5> HIDE DEF spent, proven, slipped
        <5>2. past'.spent = spent
          BY <1>p, <5>1 DEF History
        <5> QED  BY <5>1, <5>2 DEF spent
      <4>2. CASE ConfirmPasswordReset(r)
        <5>1. MarkEmailTokenUsed(i) /\ letters' = [letters EXCEPT ![i].state = "used"] /\ Spend(x)
          BY <1>3, <3>i, <4>2 DEF ConfirmPasswordReset
        <5> QED  BY <1>p, <5>1 DEF Spend, History
      <4> QED  BY <2>2, <4>1, <4>2
    <3>3. ~Spent(letters[i])
      BY <3>2 DEF MarkEmailTokenUsed, Spent
    <3>4. i \in DOMAIN letters' /\ Spent(letters'[i])
      <4>1. letters \in Seq(Letter)
        BY DEF TypeInv, TablesOK
      <4>2. letters'[i].state = "used" /\ DOMAIN letters' = DOMAIN letters
        BY <3>1, <3>2, <3>3, <4>1, OneLetter
      <4> QED  BY <3>1, <4>2 DEF Spent
    <3>5. x \notin DOMAIN past.spent
      BY <1>0, <3>1, <3>3, Unspent
    <3>6. SpentFor(x)'
      BY <3>4 DEF SpentFor, Spent
    <3> QED  BY <1>1, <3>2, <3>5, <3>6, StashesOnce DEF OnceInv
  <2>3. CASE Recover(r)
    <3>x. PICK x : x = <<req[r].u>> \o req[r].victims
      OBVIOUS
    <3>1. x \in codes /\ codes' = codes \ {x} /\ Spend(x)
      BY <1>3, <2>3, <3>x DEF Recover, UseRecoveryCode
    <3>2. x \in Users \X (1 .. past.sets) \X (1 .. RecoveryCodeCount)
      BY <3>1 DEF TypeInv, CodesOK
    <3>3. PICK u \in Users, g \in 1 .. past.sets, k \in 1 .. RecoveryCodeCount : x = <<u, g, k>>
      BY <3>2
    <3>4. past'.spent = past.spent (+) SetToBag({x}) /\ past'.sets = past.sets
      BY <1>p, <3>1 DEF Spend, History
    <3>5. x \notin DOMAIN past.spent
      BY <1>0, <3>1, <3>3, Unspent
    <3>6. SpentFor(x)'
      BY <3>1, <3>3, <3>4 DEF SpentFor
    <3> QED  BY <1>1, <3>4, <3>5, <3>6, StashesOnce DEF OnceInv
  <2>4. ASSUME NEW op, NEW c \in DOMAIN challenges, TakeChallenge(r, op, c) PROVE OnceInv'
    <3>1. challenges[c].open /\ challenges' = [challenges EXCEPT ![c].open = FALSE] /\ Spend(<<"challenge", c>>)
      BY <2>4 DEF TakeChallenge
    <3>2. past'.spent = past.spent (+) SetToBag({<<"challenge", c>>})
      BY <1>p, <3>1 DEF Spend, History
    <3>3. challenges \in Seq(Challenge)
      BY DEF TypeInv, TablesOK
    <3>4. c \in DOMAIN challenges' /\ ~challenges'[c].open
      BY <3>1, <3>3, OneChallenge
    <3>5. <<"challenge", c>> \notin DOMAIN past.spent
      BY <1>0, <3>1, Unspent
    <3>6. SpentFor(<<"challenge", c>>)'
      BY <3>4 DEF SpentFor
    <3> QED  BY <1>1, <3>2, <3>5, <3>6, StashesOnce DEF OnceInv
  <2> QED  BY <2>1, <2>2, <2>3, <2>4
<1> QED  BY <1>2, <1>3

\* The steps that are not a request's.
LEMMA OnceElsewhere ==
    ASSUME TypeInv, OnceInv, Lapse \/ Restart \/ (\E t \in stash : ExchangeNativeCode(t)) \/ UNCHANGED vars
    PROVE  OnceInv'
<1>0. OnceEach /\ StashedOnce
  BY DEF OnceInv
<1>p. past \in History(past.spent)
  BY DEF TypeInv, PastOK
<1>t. Growth /\ SameChallenges(challenges, challenges')
  BY TypeStep DEF Next
<1>1. stash' \subseteq stash /\ codes' = codes /\ past'.sets = past.sets
      /\ \A r \in Reqs : At(r, "stash")' => At(r, "stash") /\ req'[r] = req[r]
  <2>1. CASE Lapse
    BY <2>1 DEF Lapse, At
  <2>2. CASE Restart
    BY <2>2, IdleFits DEF Restart, At, db
  <2>3. ASSUME NEW t \in stash, ExchangeNativeCode(t)
        PROVE  stash' \subseteq stash /\ codes' = codes /\ past'.sets = past.sets /\ req' = req
    BY <1>p, <2>3 DEF ExchangeNativeCode, Spend, History, db
  <2>4. CASE UNCHANGED vars
    BY <2>4 DEF vars, db, mem, At
  <2> QED  BY <2>1, <2>2, <2>3, <2>4 DEF At
<1>2. ASSUME NEW x, SpentFor(x) PROVE SpentFor(x)'
  <2>1. ASSUME NEW i \in DOMAIN letters, x = <<"letter", i>>, Spent(letters[i]) PROVE SpentFor(x)'
    BY <1>t, <2>1 DEF Growth, SameLetters, SpentFor
  <2>2. ASSUME NEW c \in DOMAIN challenges, x = <<"challenge", c>>, ~challenges[c].open PROVE SpentFor(x)'
    BY <1>t, <2>2 DEF SameChallenges, SpentFor
  <2>3. ASSUME NEW t \in DOMAIN tokens, x = <<"exchange", t>>, t \notin stash, \A q \in Reqs : At(q, "stash") => req[q].id # t
        PROVE  SpentFor(x)'
    <3>1. t \in DOMAIN tokens' /\ t \notin stash' /\ \A q \in Reqs : At(q, "stash")' => req'[q].id # t
      BY <1>1, <1>t, <2>3 DEF Growth, SameTokens
    <3> QED  BY <2>3, <3>1 DEF SpentFor, At
  <2>4. ASSUME NEW u \in Users, NEW g \in 1 .. past.sets, NEW k \in 1 .. RecoveryCodeCount, x = <<u, g, k>>, x \notin codes
        PROVE  SpentFor(x)'
    BY <1>1, <2>4 DEF SpentFor
  <2> QED  BY <1>2, <2>1, <2>2, <2>3, <2>4 DEF SpentFor
<1>3. StashedOnce'
  BY <1>0, <1>1 DEF StashedOnce, At
<1>4. CASE past'.spent = past.spent
  BY <1>0, <1>2, <1>3, <1>4 DEF OnceEach, OnceInv
<1>5. ASSUME NEW t \in stash, ExchangeNativeCode(t) PROVE OnceInv'
  <2> DEFINE x == <<"exchange", t>>
             bag == past.spent
  <2>1. past'.spent = bag (+) SetToBag({x}) /\ stash' = stash \ {t} /\ req' = req /\ tokens' = tokens
    BY <1>p, <1>5 DEF ExchangeNativeCode, Spend, History, db
  <2>2. x \notin DOMAIN bag /\ \A y \in DOMAIN bag : bag[y] = 1
    BY <1>0, Unspent DEF OnceEach
  <2>3. LET new == bag (+) SetToBag({x}) IN
        DOMAIN new = DOMAIN bag \cup {x} /\ \A y \in DOMAIN new : new[y] = 1
    <3> HIDE DEF x, bag
    <3> QED  BY <2>2, Spending
  <2>4. SpentFor(x)'
    <3>1. t \in DOMAIN tokens' /\ t \notin stash'
      BY <2>1 DEF TypeInv, TablesOK
    <3>2. \A r \in Reqs : At(r, "stash")' => req'[r].id # t
      BY <1>0, <2>1 DEF StashedOnce, At
    <3> QED  BY <3>1, <3>2 DEF SpentFor, At
  <2>5. DOMAIN past'.spent = DOMAIN bag \cup {x} /\ \A y \in DOMAIN past'.spent : past'.spent[y] = 1
    BY <2>1, <2>3
  <2>6. \A y \in DOMAIN bag : SpentFor(y)'
    BY <1>0, <1>2 DEF OnceEach
  <2> QED  BY <1>3, <2>4, <2>5, <2>6 DEF OnceEach, OnceInv
<1>6. Lapse \/ Restart \/ UNCHANGED vars => past'.spent = past.spent
  BY DEF Lapse, Restart, vars
<1> QED  BY <1>4, <1>5, <1>6

LEMMA OnceHolds == Spec => []OnceInv
<1>1. TypeInv /\ OnceInv /\ [Next]_vars => OnceInv'
  BY OnceStep, OnceElsewhere DEF Next
<1> QED  BY OnceInit, TypesHold, <1>1, PTL DEF Spec

\* However many requests present it together, and across restarts: a letter, a recovery code,
\* a login challenge and an exchange code are honoured once at most (MarkEmailTokenUsed,
\* UseRecoveryCode and the two take methods decide and consume in one step).
THEOREM UsedOnce == Spec => []SpentOnce
  BY OnceHolds, OnceGivesSpentOnce, PTL

-------------------------------------------------------------------------------
(* What a step changes of an account.                                                    *)

SameNamed(u)   == users'[u].email = users[u].email /\ users'[u].sub = users[u].sub
SameSecret(u)  == users'[u].secret = users[u].secret /\ users'[u].enabled = users[u].enabled
SamePw(u)      == users'[u].pw = users[u].pw
SameVerified(u) == users'[u].verified = users[u].verified

\* The account of a request, rewritten by it.
Rewritten(r, u) ==
    /\ u = req[r].u /\ users'[u].state = users[u].state
    /\ \/ VerifyEmail(r) /\ SameNamed(u) /\ SameSecret(u) /\ SamePw(u)
       \/ /\ ConfirmPasswordReset(r) \/ UpdateUserPassword(r)
          /\ SameNamed(u) /\ SameSecret(u) /\ SameVerified(u)
       \/ /\ \E e \in Emails : UpdateEmail(r, e)
          /\ users'[u].sub = users[u].sub /\ SameSecret(u) /\ SamePw(u) /\ ~users'[u].verified
       \/ linkProviderID(r) /\ users'[u].email = users[u].email /\ SameSecret(u) /\ SamePw(u)
       \/ /\ SetTOTPSecret(r) \/ SetTOTPEnabled(r) \/ ClearTOTP(r)
          /\ SameNamed(u) /\ SamePw(u) /\ SameVerified(u)

Changed(r, u) ==
    \/ users'[u] = users[u]
    \/ Rewritten(r, u)
    \/ DeleteAccount(r) /\ u = req[r].u /\ ~Live(u)' /\ users'[u].state # "none"
    \/ /\ users[u].state = "none" /\ ~users'[u].enabled
       /\ createOAuthUser(r, u) \/ ~users'[u].verified

LEMMA Changing ==
    ASSUME TypeInv, NEW r \in Reqs, Begin(r) \/ Step(r), NEW x \in Users
    PROVE  Changed(r, x)
<1>0. /\ users \in [Users -> Account] /\ req[r] \in Request
      /\ Fits(req[r], letters, sessions, tokens, past.confirmed)
  BY DEF TypeInv, RequestsOK, UsersOK
<1>a. users[x] \in Account
  BY <1>0
<1>w. UNCHANGED users \/ UsersWritten(r)
  BY Writers DEF Written
<1>00. ASSUME users' = users PROVE Changed(r, x)
  BY <1>00 DEF Changed
<1>1. ASSUME NEW u \in Users, NEW row, users' = [users EXCEPT ![u] = row], x # u PROVE Changed(r, x)
  BY <1>0, <1>1 DEF Changed
<1>2. ASSUME NEW row, users' = [users EXCEPT ![x] = row] PROVE users'[x] = row
  BY <1>0, <1>2
<1>3. ASSUME NEW u \in Users, NEW e \in Emails, Register(r, u, e) PROVE Changed(r, x)
  <2> DEFINE row == [NoAccount EXCEPT !.state = "live", !.email = e]
  <2>1. users[u].state = "none" /\ (users' = users \/ users' = [users EXCEPT ![u] = row])
    BY <1>3 DEF Register
  <2>2. ~row.enabled /\ ~row.verified
    BY DEF NoAccount
  <2> HIDE DEF row
  <2>3. CASE users' = [users EXCEPT ![u] = row]
    BY <1>1, <1>2, <2>1, <2>2, <2>3 DEF Changed
  <2> QED  BY <1>00, <2>1, <2>3
<1>4. ASSUME NEW e \in Emails, UpdateEmail(r, e) PROVE Changed(r, x)
  <2> DEFINE u == req[r].u
             row == [users[u] EXCEPT !.email = e, !.verified = FALSE]
  <2>1. users' = users \/ users' = [users EXCEPT ![u] = row]
    BY <1>4 DEF UpdateEmail
  <2>2. u \in Users
    BY <1>0, <1>4 DEF UpdateEmail, Authed, At, Fits
  <2>3. /\ row.state = users[u].state /\ row.sub = users[u].sub /\ row.secret = users[u].secret
        /\ row.enabled = users[u].enabled /\ row.pw = users[u].pw /\ ~row.verified
    BY <1>0, <2>2 DEF Account
  <2>u. u = req[r].u
    OBVIOUS
  <2> HIDE DEF row, u
  <2>4. CASE users' = [users EXCEPT ![u] = row] /\ x = u
    BY <1>2, <1>4, <2>3, <2>4, <2>u DEF Changed, Rewritten, SameSecret, SamePw
  <2> QED  BY <1>00, <1>1, <2>1, <2>2, <2>4
<1>5. ASSUME NEW u \in Users, createOAuthUser(r, u) PROVE Changed(r, x)
  <2> DEFINE row == OAuthAccount(req[r].who)
  <2>1. users[u].state = "none" /\ (users' = users \/ users' = [users EXCEPT ![u] = row])
    BY <1>5 DEF createOAuthUser
  <2>2. ~row.enabled
    BY DEF OAuthAccount, NoAccount
  <2> HIDE DEF row
  <2>3. CASE users' = [users EXCEPT ![u] = row]
    BY <1>1, <1>2, <1>5, <2>1, <2>2, <2>3 DEF Changed
  <2> QED  BY <1>00, <2>1, <2>3
<1>6. CASE linkProviderID(r)
  <2> DEFINE u == req[r].u
             i == req[r].who
             row == [users[u] EXCEPT !.sub = i, !.verified = TRUE]
  <2>1. users' = users \/ users' = [users EXCEPT ![u] = row]
    BY <1>6 DEF linkProviderID
  <2>2. u \in Users
    BY <1>0, <1>6 DEF linkProviderID, At, Fits
  <2>3. /\ row.state = users[u].state /\ row.email = users[u].email /\ row.secret = users[u].secret
        /\ row.enabled = users[u].enabled /\ row.pw = users[u].pw
    BY <1>0, <2>2 DEF Account
  <2>u. u = req[r].u
    OBVIOUS
  <2> HIDE DEF row, u, i
  <2>4. CASE users' = [users EXCEPT ![u] = row] /\ x = u
    BY <1>2, <1>6, <2>3, <2>4, <2>u DEF Changed, Rewritten, SameSecret, SamePw
  <2> QED  BY <1>00, <1>1, <2>1, <2>2, <2>4
<1>7. CASE VerifyEmail(r)
  <2> DEFINE u == req[r].u
             row == [users[u] EXCEPT !.verified = TRUE]
  <2>1. (users' = users \/ users' = [users EXCEPT ![u] = row]) /\ u \in Users
    BY <1>0, <1>7 DEF VerifyEmail, At, Fits
  <2>2. /\ row.state = users[u].state /\ row.email = users[u].email /\ row.secret = users[u].secret
        /\ row.enabled = users[u].enabled /\ row.pw = users[u].pw /\ row.sub = users[u].sub
    BY <1>0, <2>1 DEF Account
  <2>u. u = req[r].u
    OBVIOUS
  <2> HIDE DEF row, u
  <2>3. CASE users' = [users EXCEPT ![u] = row] /\ x = u
    BY <1>2, <1>7, <2>2, <2>3, <2>u DEF Changed, Rewritten, SameSecret, SamePw, SameNamed
  <2> QED  BY <1>00, <1>1, <2>1, <2>3
<1>8. CASE ConfirmPasswordReset(r) \/ UpdateUserPassword(r)
  <2> DEFINE u == req[r].u
             row == [users[u] EXCEPT !.pw = users[u].pw + 1]
  <2>1. (users' = users \/ users' = [users EXCEPT ![u] = row]) /\ u \in Users
    BY <1>0, <1>8 DEF ConfirmPasswordReset, UpdateUserPassword, At, Fits
  <2>2. /\ row.state = users[u].state /\ row.email = users[u].email /\ row.secret = users[u].secret
        /\ row.enabled = users[u].enabled /\ row.verified = users[u].verified /\ row.sub = users[u].sub
    BY <1>0, <2>1 DEF Account
  <2>u. u = req[r].u
    OBVIOUS
  <2> HIDE DEF row, u
  <2>3. CASE users' = [users EXCEPT ![u] = row] /\ x = u
    BY <1>2, <1>8, <2>2, <2>3, <2>u DEF Changed, Rewritten, SameSecret, SameVerified, SameNamed
  <2> QED  BY <1>00, <1>1, <2>1, <2>3
<1>9. CASE DeleteAccount(r)
  <2> DEFINE u == req[r].u
             row == [NoAccount EXCEPT !.state = "deleted"]
  <2>1. (users' = users \/ users' = [users EXCEPT ![u] = row]) /\ u \in Users
    BY <1>0, <1>9 DEF DeleteAccount, Authed, At, Fits
  <2>2. row.state = "deleted"
    BY DEF NoAccount
  <2>u. u = req[r].u
    OBVIOUS
  <2> HIDE DEF row, u
  <2>3. CASE users' = [users EXCEPT ![u] = row] /\ x = u
    BY <1>2, <1>9, <2>2, <2>3, <2>u DEF Changed, Live
  <2> QED  BY <1>00, <1>1, <2>1, <2>3
<1>10. CASE SetTOTPSecret(r) \/ SetTOTPEnabled(r) \/ ClearTOTP(r)
  <2> DEFINE u == req[r].u
             one == [users[u] EXCEPT !.secret = past.secrets + 1]
             two == [users[u] EXCEPT !.enabled = TRUE]
             none == [users[u] EXCEPT !.secret = 0, !.enabled = FALSE]
  <2>1. u \in Users
    BY <1>0, <1>10 DEF SetTOTPSecret, SetTOTPEnabled, ClearTOTP, At, Fits
  <2>2. PICK row \in {one, two, none} : users' = users \/ users' = [users EXCEPT ![u] = row]
    <3>1. CASE SetTOTPSecret(r)
      BY <3>1 DEF SetTOTPSecret
    <3>2. CASE SetTOTPEnabled(r)
      BY <3>2 DEF SetTOTPEnabled
    <3>3. CASE ClearTOTP(r)
      <4>1. users' = [users EXCEPT ![u] = none]
        BY <1>0, <2>1, <3>3 DEF ClearTOTP
      <4> QED  BY <4>1
    <3> QED  BY <1>10, <3>1, <3>2, <3>3
  <2>3. /\ row.state = users[u].state /\ row.email = users[u].email /\ row.verified = users[u].verified
        /\ row.pw = users[u].pw /\ row.sub = users[u].sub
    <3>1. users[u] \in Account
      BY <1>0, <2>1
    <3> HIDE DEF u
    <3> QED  BY <3>1 DEF Account
  <2>u. u = req[r].u
    OBVIOUS
  <2> HIDE DEF one, two, none, u
  <2>4. CASE users' = [users EXCEPT ![u] = row] /\ x = u
    BY <1>2, <1>10, <2>3, <2>4, <2>u DEF Changed, Rewritten, SameVerified, SamePw, SameNamed
  <2> QED  BY <1>00, <1>1, <2>1, <2>2, <2>4
<1> QED  BY <1>00, <1>w, <1>3, <1>4, <1>5, <1>6, <1>7, <1>8, <1>9, <1>10 DEF UsersWritten

\* No step outside a request touches an account, a code, a letter that is spent or the history
\* of an account.
LEMMA Elsewhere ==
    ASSUME TypeInv, Lapse \/ Restart \/ (\E t \in stash : ExchangeNativeCode(t)) \/ UNCHANGED vars
    PROVE  /\ UNCHANGED <<users, codes, tokens>>
           /\ past'.dangling = past.dangling /\ past'.slipped = past.slipped /\ past'.proven = past.proven
           /\ past'.confirmed = past.confirmed /\ past'.overtaken = past.overtaken
           /\ past'.homes = past.homes /\ past'.unlinked = past.unlinked
           /\ DOMAIN letters' = DOMAIN letters /\ DOMAIN sessions' = DOMAIN sessions
           /\ \A s \in DOMAIN sessions : LiveSession(s)' => sessions'[s] = sessions[s]
           /\ req' = req \/ req' = [r \in Reqs |-> Idle]
<1>p. past \in History(past.spent)
  BY DEF TypeInv, PastOK
<1>0. letters \in Seq(Letter) /\ sessions \in Seq(Session)
  BY DEF TypeInv, TablesOK
<1>1. CASE Lapse
  <2>1. UNCHANGED <<users, codes, tokens, req, past>>
    BY <1>1 DEF Lapse
  <2>2. letters' = letters \/ \E i \in DOMAIN letters : letters' = [letters EXCEPT ![i].state = "expired"]
    BY <1>1 DEF Lapse
  <2>3. sessions' = sessions \/ \E s \in DOMAIN sessions : sessions' = [sessions EXCEPT ![s].state = "expired"]
    BY <1>1 DEF Lapse
  <2>4. DOMAIN letters' = DOMAIN letters
    BY <2>2
  <2>5. DOMAIN sessions' = DOMAIN sessions /\ \A s \in DOMAIN sessions : LiveSession(s)' => sessions'[s] = sessions[s]
    BY <1>0, <2>3, OneSession DEF LiveSession
  <2> QED  BY <2>1, <2>4, <2>5
<1>2. CASE Restart \/ UNCHANGED vars
  BY <1>2 DEF Restart, vars, db, mem
<1>3. ASSUME NEW t, ExchangeNativeCode(t)
      PROVE  /\ UNCHANGED <<users, codes, tokens, letters, sessions, req>>
             /\ past'.dangling = past.dangling /\ past'.slipped = past.slipped /\ past'.proven = past.proven
             /\ past'.confirmed = past.confirmed /\ past'.overtaken = past.overtaken
             /\ past'.homes = past.homes /\ past'.unlinked = past.unlinked
  BY <1>p, <1>3 DEF ExchangeNativeCode, Spend, History, db
<1> QED  BY <1>1, <1>2, <1>3

-------------------------------------------------------------------------------
(* Sessions and passwords.                                                               *)

\* A password an account has, or had.
Known(u, n) == n = 0 \/ (users[u].state # "none" /\ (Live(u) => n <= users[u].pw))

\* The same, after the step.
Ahead(u, n) == n = 0 \/ (users'[u].state # "none" /\ (users'[u].state = "live" => n <= users'[u].pw))

\* What a sign-in saw when it proved whose the account is.  EnableTOTP keeps a secret there.
Sees(q) == q.u \in Users /\ q.pc # "enable" => Known(q.u, q.saw)

SawInv == /\ \A c \in DOMAIN challenges : Known(challenges[c].u, challenges[c].pw)
          /\ \A r \in Reqs : Sees(req[r])

SessionsInv ==
    /\ SawInv
    /\ \A s \in DOMAIN sessions : LiveSession(s) =>
          /\ Live(sessions[s].u) /\ sessions[s].opened = users[sessions[s].u].pw
          /\ sessions[s].proven <= sessions[s].opened

LEMMA SessionsInit == Init => SessionsInv
<1> SUFFICES ASSUME Init PROVE SessionsInv
  OBVIOUS
<1>0. challenges = <<>> /\ req = [r \in Reqs |-> Idle] /\ Idle.saw = 0
  BY DEF Init, Idle
<1>5. SawInv
  BY <1>0 DEF SawInv, Sees, Known
<1>1. PICK s \in Scenarios :
        users = [u \in Users |-> IF u # Owner THEN NoAccount
                   ELSE [NoAccount EXCEPT !.state = "live", !.email = OwnersEmail, !.verified = TRUE,
                           !.secret = IF s.enabled THEN 1 ELSE 0, !.enabled = s.enabled]]
  BY DEF Init
<1>2. sessions = <<[u |-> Owner, state |-> "live", proven |-> 0, opened |-> 0]>>
  BY DEF Init
<1>3. users[Owner].state = "live" /\ users[Owner].pw = 0
  BY <1>1, AccountsAssumption DEF NoAccount
<1>4. \A x \in DOMAIN sessions : sessions[x].u = Owner /\ sessions[x].proven = 0 /\ sessions[x].opened = 0
  BY <1>2
<1> QED  BY <1>3, <1>4, <1>5 DEF SessionsInv, Live

\* A password known stays known: an account's are numbered upwards, and a deleted one has no more.
LEMMA KnownStays ==
    ASSUME TypeInv, NEW r \in Reqs, Begin(r) \/ Step(r), NEW u \in Users, NEW n \in Nat, Known(u, n)
    PROVE  Ahead(u, n)
<1>0. users \in [Users -> Account] /\ users[u] \in Account
  BY DEF TypeInv, UsersOK
<1>c. Changed(r, u)
  BY Changing
<1>1. CASE users'[u] = users[u]
  BY <1>1 DEF Known, Ahead, Live
<1>2. CASE Rewritten(r, u)
  <2>1. users'[u].state = users[u].state /\ users[u].pw \in Nat
    BY <1>0, <1>2 DEF Rewritten, Account
  <2>2. CASE ~ConfirmPasswordReset(r) /\ ~UpdateUserPassword(r)
    <3>1. users'[u].pw = users[u].pw
      BY <1>2, <2>2 DEF Rewritten, SamePw
    <3> QED  BY <2>1, <3>1 DEF Known, Ahead, Live
  <2>3. CASE ConfirmPasswordReset(r) \/ UpdateUserPassword(r)
    <3>1. users' = users \/ users' = [users EXCEPT ![req[r].u].pw = @ + 1]
      BY <2>3 DEF ConfirmPasswordReset, UpdateUserPassword
    <3>2. users'[u].pw = users[u].pw \/ users'[u].pw = users[u].pw + 1
      BY <1>0, <3>1 DEF Account
    <3> QED  BY <2>1, <3>2 DEF Known, Ahead, Live
  <2> QED  BY <2>2, <2>3
<1>3. CASE users[u].state = "none"
  BY <1>3 DEF Known, Ahead
<1>4. CASE ~Live(u)' /\ users'[u].state # "none"
  BY <1>4 DEF Known, Ahead, Live
<1> QED  BY <1>c, <1>1, <1>2, <1>3, <1>4 DEF Changed

\* What the next step of a sign-in sees: what the last one saw, or the password of the account
\* as it is, or as it was when the challenge was drawn.
LEMMA Seeing ==
    ASSUME TypeInv, SawInv, NEW r \in Reqs, Begin(r) \/ Step(r), NEW x \in Reqs
    PROVE  req'[x].u \in Users /\ req'[x].pc # "enable" => Ahead(req'[x].u, req'[x].saw)
<1>0. /\ req \in [Reqs -> Request] /\ users \in [Users -> Account]
      /\ Fits(req[r], letters, sessions, tokens, past.confirmed)
  BY DEF TypeInv, RequestsOK, UsersOK
<1> DEFINE New(q) == q.u \in Users /\ q.pc # "enable" => Ahead(q.u, q.saw)
<1> SUFFICES New(req'[x])
  OBVIOUS
<1> HIDE DEF New
<1>i. New(Idle)
  BY DEF New, Ahead, Idle
<1>s. \A q \in Reqs : New(req[q])
  <2> SUFFICES ASSUME NEW q \in Reqs, req[q].u \in Users, req[q].pc # "enable" PROVE Ahead(req[q].u, req[q].saw)
    BY DEF New
  <2>1. req[q].saw \in Nat /\ Known(req[q].u, req[q].saw)
    BY <1>0 DEF SawInv, Sees, Request
  <2> QED  BY <2>1, KnownStays
<1>1. ASSUME NEW row, req' = [req EXCEPT ![r] = row], New(row) PROVE New(req'[x])
  BY <1>0, <1>1, <1>s
<1>2. ASSUME Done(r) PROVE New(req'[x])
  BY <1>1, <1>2, <1>i DEF Done
<1>3. ASSUME req' = req PROVE New(req'[x])
  BY <1>3, <1>s
<1>4. ASSUME NEW row, req' = [req EXCEPT ![r] = row], row.u = req[r].u, row.saw = req[r].saw, req[r].pc # "enable"
      PROVE  New(req'[x])
  <2>1. New(row)
    BY <1>4, <1>s DEF New
  <2> QED  BY <1>1, <1>4, <2>1
<1>5. ASSUME NEW pc, Goto(r, pc), req[r].pc # "enable" PROVE New(req'[x])
  <2> DEFINE row == [req[r] EXCEPT !.pc = pc]
  <2>1. req' = [req EXCEPT ![r] = row] /\ row.u = req[r].u /\ row.saw = req[r].saw
    BY <1>0, <1>5 DEF Goto, Request
  <2> HIDE DEF row
  <2> QED  BY <1>4, <1>5, <2>1
<1>6. ASSUME NEW row, req' = [req EXCEPT ![r] = row], row.saw = 0 PROVE New(req'[x])
  <2>1. New(row)
    BY <1>6 DEF New, Ahead
  <2> QED  BY <1>1, <1>6, <2>1
<1>7. ASSUME NEW row, req' = [req EXCEPT ![r] = row], NEW u \in Users, Live(u), row.u = u, row.saw = users[u].pw
      PROVE  New(req'[x])
  <2>1. users[u].pw \in Nat /\ Known(u, users[u].pw)
    BY <1>0, <1>7 DEF Known, Live, Account
  <2>2. New(row)
    BY <1>7, <2>1, KnownStays DEF New
  <2> QED  BY <1>1, <1>7, <2>2
<1>b. CASE Begin(r)
  <2>1. ASSUME NEW op, NEW u \in Users, Login(r, op, u) PROVE New(req'[x])
    <3> DEFINE row == [Idle EXCEPT !.op = op, !.pc = Admit(op), !.u = u, !.saw = users[u].pw]
    <3>1. Live(u) /\ (req' = req \/ req' = [req EXCEPT ![r] = row])
      BY <2>1 DEF Login
    <3>2. row.u = u /\ row.saw = users[u].pw
      BY DEF Idle
    <3> HIDE DEF row
    <3> QED  BY <1>3, <1>7, <3>1, <3>2
  <2>2. ASSUME NEW u, NEW e, Register(r, u, e) PROVE New(req'[x])
    <3> DEFINE row == [Idle EXCEPT !.op = "Register", !.pc = "clear", !.u = u, !.email = e]
    <3>1. req' = req \/ req' = [req EXCEPT ![r] = row]
      BY <2>2 DEF Register
    <3>2. row.saw = 0
      BY DEF Idle
    <3> HIDE DEF row
    <3> QED  BY <1>3, <1>6, <3>1, <3>2
  <2>3. ASSUME NEW u, RequestPasswordReset(r, u) PROVE New(req'[x])
    <3> DEFINE row == [Idle EXCEPT !.op = "RequestPasswordReset", !.pc = "clear", !.u = u, !.email = users[u].email]
    <3>1. req' = [req EXCEPT ![r] = row]
      BY <2>3 DEF RequestPasswordReset
    <3>2. row.saw = 0
      BY DEF Idle
    <3> HIDE DEF row
    <3> QED  BY <1>6, <3>1, <3>2
  <2>4. ASSUME NEW op, NEW c \in DOMAIN challenges, TakeChallenge(r, op, c) PROVE New(req'[x])
    <3> DEFINE row == [Idle EXCEPT !.op = op, !.pc = "code", !.u = challenges[c].u, !.saw = challenges[c].pw]
    <3>1. req' = req \/ req' = [req EXCEPT ![r] = row]
      BY <2>4 DEF TakeChallenge
    <3>2. row.u = challenges[c].u /\ row.saw = challenges[c].pw
      BY DEF Idle
    <3>3. challenges[c].u \in Users /\ challenges[c].pw \in Nat /\ Known(challenges[c].u, challenges[c].pw)
      BY RowTypes DEF Challenge, SawInv
    <3> HIDE DEF row
    <3>4. New(row)
      BY <3>2, <3>3, KnownStays DEF New
    <3> QED  BY <1>1, <1>3, <3>1, <3>4
  <2>5. ASSUME NEW op, NEW i, GetValidEmailToken(r, op, i) PROVE New(req'[x])
    <3> DEFINE row == [Idle EXCEPT !.op = op, !.pc = "consume", !.u = letters[i].u, !.id = i]
    <3>1. req' = [req EXCEPT ![r] = row]
      BY <2>5 DEF GetValidEmailToken
    <3>2. row.saw = 0
      BY DEF Idle
    <3> HIDE DEF row
    <3> QED  BY <1>6, <3>1, <3>2
  <2>6. ASSUME NEW op, NEW i, getByProviderID(r, op, i) PROVE New(req'[x])
    <3> DEFINE row(pc, u, n) == [Idle EXCEPT !.op = op, !.pc = pc, !.u = u, !.who = i, !.saw = n]
    <3>1. \/ \E u \in WithSub(i) : req' = [req EXCEPT ![r] = row(Admit(op), u, users[u].pw)]
          \/ req' = [req EXCEPT ![r] = row("address", None, 0)]
      BY <2>6 DEF getByProviderID
    <3>2. \A pc, u, n : row(pc, u, n).u = u /\ row(pc, u, n).saw = n
      BY DEF Idle
    <3> HIDE DEF row
    <3>3. CASE req' = [req EXCEPT ![r] = row("address", None, 0)]
      <4>1. PICK q : q = row("address", None, 0)
        OBVIOUS
      <4>2. q.saw = 0 /\ req' = [req EXCEPT ![r] = q]
        BY <3>2, <3>3, <4>1
      <4> QED  BY <1>6, <4>2
    <3>4. ASSUME NEW u \in WithSub(i), req' = [req EXCEPT ![r] = row(Admit(op), u, users[u].pw)] PROVE New(req'[x])
      <4>1. u \in Users /\ Live(u)
        BY DEF WithSub
      <4>2. PICK q : q = row(Admit(op), u, users[u].pw)
        OBVIOUS
      <4>3. q.u = u /\ q.saw = users[u].pw /\ req' = [req EXCEPT ![r] = q]
        BY <3>2, <3>4, <4>2
      <4> QED  BY <1>7, <4>1, <4>3
    <3> QED  BY <3>1, <3>3, <3>4
  <2>7. ASSUME NEW op, Authenticate(r, op) PROVE New(req'[x])
    <3> DEFINE bySession(s) == [Idle EXCEPT !.op = op, !.pc = "authed", !.u = sessions[s].u, !.id = s]
               byToken(t) == [Idle EXCEPT !.op = op, !.pc = "authed", !.u = tokens[t].u, !.victims = <<t>>]
    <3>1. (\E s : req' = [req EXCEPT ![r] = bySession(s)]) \/ \E t : req' = [req EXCEPT ![r] = byToken(t)]
      BY <2>7 DEF Authenticate
    <3>2. \A y : bySession(y).saw = 0 /\ byToken(y).saw = 0
      BY SMTT(30) DEF Idle
    <3> HIDE DEF bySession, byToken
    <3> QED  BY <1>6, <3>1, <3>2
  <2> QED  BY <1>b, <2>1, <2>2, <2>3, <2>4, <2>5, <2>6, <2>7 DEF Begin
<1>8. CASE issueSession(r) \/ VerifyEmail(r) \/ ConfirmPasswordReset(r) \/ UpdateUserPassword(r) \/ Revoke(r)
           \/ DeleteAccount(r) \/ StashNativeToken(r) \/ SetTOTPSecret(r) \/ SetTOTPEnabled(r) \/ ClearTOTP(r)
  BY <1>2, <1>8 DEF issueSession, VerifyEmail, ConfirmPasswordReset, UpdateUserPassword, Revoke, DeleteAccount,
                StashNativeToken, SetTOTPSecret, SetTOTPEnabled, ClearTOTP
<1>9. CASE DeleteUserEmailTokens(r) \/ CreateEmailToken(r) \/ ChangePassword(r) \/ SetupTOTP(r) \/ DisableTOTP(r) \/ Recover(r)
           \/ CreateToken(r)
  <2>1. req[r].pc # "enable" /\ (Done(r) \/ \E pc : Goto(r, pc))
    BY <1>9 DEF DeleteUserEmailTokens, CreateEmailToken, AfterLetter, ChangePassword, SetupTOTP, DisableTOTP, Recover,
                CreateToken, Authed, At
  <2> QED  BY <1>2, <1>5, <2>1
<1>10. ASSUME NEW e, UpdateEmail(r, e) PROVE New(req'[x])
  <2> DEFINE row == [req[r] EXCEPT !.pc = "clear", !.email = e]
  <2>1. req[r].pc # "enable" /\ (Done(r) \/ req' = [req EXCEPT ![r] = row])
    BY <1>0, <1>10 DEF UpdateEmail, Authed, At
  <2>2. row.u = req[r].u /\ row.saw = req[r].saw
    BY <1>0 DEF Request
  <2> HIDE DEF row
  <2> QED  BY <1>2, <1>4, <2>1, <2>2
<1>11. CASE EnableTOTP(r)
  <2>1. PICK n : Done(r) \/ req' = [req EXCEPT ![r].pc = "enable", ![r].saw = n]
    BY <1>11 DEF EnableTOTP
  <2> DEFINE row == [req[r] EXCEPT !.pc = "enable", !.saw = n]
  <2>2. Done(r) \/ req' = [req EXCEPT ![r] = row]
    BY <1>0, <2>1
  <2>3. row.pc = "enable"
    BY <1>0 DEF Request
  <2> HIDE DEF row
  <2>4. New(row)
    BY <2>3 DEF New
  <2> QED  BY <1>1, <1>2, <2>2, <2>4
<1>12. CASE verifyTOTP(r)
  <2>1. PICK v : \/ Done(r) \/ Goto(r, AfterCode(req[r].op))
                 \/ req' = [req EXCEPT ![r].pc = "recover", ![r].victims = v]
    BY <1>12 DEF verifyTOTP
  <2> DEFINE row == [req[r] EXCEPT !.pc = "recover", !.victims = v]
  <2>2. Done(r) \/ Goto(r, AfterCode(req[r].op)) \/ req' = [req EXCEPT ![r] = row]
    BY <1>0, <2>1
  <2>3. row.u = req[r].u /\ row.saw = req[r].saw /\ req[r].pc # "enable"
    BY <1>0, <1>12 DEF Request, verifyTOTP, At
  <2> HIDE DEF row
  <2> QED  BY <1>2, <1>4, <1>5, <2>2, <2>3
<1>13. CASE GetUserByEmail(r)
  <2> DEFINE row(u) == [req[r] EXCEPT !.pc = "link", !.u = u, !.saw = users[u].pw]
  <2>1. /\ At(r, "address")
        /\ Goto(r, "create") \/ \E u \in Users : Live(u) /\ req' = [req EXCEPT ![r] = row(u)]
    BY <1>0, <1>13 DEF GetUserByEmail, WithEmail
  <2>2. req[r].pc # "enable"
    BY <2>1 DEF At
  <2>3. \A u : row(u).u = u /\ row(u).saw = users[u].pw
    <3>1. ASSUME NEW u PROVE row(u).u = u /\ row(u).saw = users[u].pw
      BY <1>0 DEF Request
    <3> QED  BY <3>1
  <2> HIDE DEF row
  <2> QED  BY <1>5, <1>7, <2>1, <2>2, <2>3
<1>14. CASE linkProviderID(r)
  <2>1. req[r].pc # "enable" /\ (Done(r) \/ Goto(r, Admit(req[r].op)))
    BY <1>14 DEF linkProviderID, Goto, At
  <2> QED  BY <1>2, <1>5, <2>1
<1>15. ASSUME NEW u \in Users, createOAuthUser(r, u) PROVE New(req'[x])
  <2> DEFINE row == [req[r] EXCEPT !.pc = Admit(req[r].op), !.u = u, !.saw = 0]
  <2>1. Goto(r, "reread") \/ req' = [req EXCEPT ![r] = row]
    BY <1>0, <1>15 DEF createOAuthUser, OAuthAccount, NoAccount
  <2>2. row.saw = 0 /\ req[r].pc # "enable"
    BY <1>0, <1>15 DEF Request, createOAuthUser, At
  <2> HIDE DEF row
  <2> QED  BY <1>5, <1>6, <2>1, <2>2
<1>16. CASE rereadOAuthUser(r)
  <2> DEFINE row(u) == [req[r] EXCEPT !.pc = Admit(req[r].op), !.u = u, !.saw = users[u].pw]
  <2>1. Done(r) \/ \E u \in Users : Live(u) /\ req' = [req EXCEPT ![r] = row(u)]
    BY <1>0, <1>16 DEF rereadOAuthUser, Resolved, WithSub
  <2>2. ASSUME NEW u \in Users, Live(u), req' = [req EXCEPT ![r] = row(u)] PROVE New(req'[x])
    <3>1. row(u).u = u /\ row(u).saw = users[u].pw
      BY <1>0 DEF Request
    <3> HIDE DEF row
    <3> QED  BY <1>7, <2>2, <3>1
  <2> HIDE DEF row
  <2> QED  BY <1>2, <2>1, <2>2
<1>17. ASSUME NEW pc, NEW count, NEW victims, NEW excused, req[r].pc # "enable",
              req' = [req EXCEPT ![r] = [@ EXCEPT !.pc = pc, !.count = count, !.victims = victims, !.excused = excused]]
       PROVE  New(req'[x])
  <2> DEFINE row == [req[r] EXCEPT !.pc = pc, !.count = count, !.victims = victims, !.excused = excused]
  <2>1. req' = [req EXCEPT ![r] = row] /\ row.u = req[r].u /\ row.saw = req[r].saw
    BY <1>0, <1>17 DEF Request
  <2> HIDE DEF row
  <2> QED  BY <1>4, <1>17, <2>1
<1>18. CASE CountActiveTokens(r) \/ ListTokens(r) \/ PruneToken(r)
  <2> DEFINE q == req[r]
             row(pc, count, victims, excused) ==
                 [q EXCEPT !.pc = pc, !.count = count, !.victims = victims, !.excused = excused]
             step(pc, count, victims, excused) == req' = [req EXCEPT ![r] = row(pc, count, victims, excused)]
  <2>0. q \in Request /\ q.pc # "enable"
    BY <1>0, <1>18 DEF CountActiveTokens, ListTokens, PruneToken, At
  <2>1. \E pc, count, victims, excused : step(pc, count, victims, excused)
    <3>1. CASE CountActiveTokens(r)
      <4> DEFINE n == Cardinality(ActiveTokens(q.u))
                 pc == IF n >= MaxPATsPerUser THEN "list" ELSE "token"
      <4>1. /\ [q EXCEPT !.pc = pc, !.count = n] = row(pc, n, q.victims, q.excused)
            /\ [q EXCEPT !.pc = "token", !.excused = TRUE] = row("token", q.count, q.victims, TRUE)
        BY <2>0 DEF Request
      <4>2. \/ req' = [req EXCEPT ![r] = [q EXCEPT !.pc = pc, !.count = n]]
            \/ req' = [req EXCEPT ![r] = [q EXCEPT !.pc = "token", !.excused = TRUE]]
        BY <1>0, <3>1 DEF CountActiveTokens
      <4>3. step(pc, n, q.victims, q.excused) \/ step("token", q.count, q.victims, TRUE)
        BY <4>1, <4>2
      <4> HIDE DEF step
      <4> QED  BY <4>3
    <3>2. CASE ListTokens(r)
      <4>1. PICK pc, v : \/ req' = [req EXCEPT ![r] = [q EXCEPT !.pc = pc, !.victims = v]]
                         \/ req' = [req EXCEPT ![r] = [q EXCEPT !.pc = "token", !.excused = TRUE]]
        <5> DEFINE one(pc, v) == req' = [req EXCEPT ![r] = [q EXCEPT !.pc = pc, !.victims = v]]
                   two == req' = [req EXCEPT ![r] = [q EXCEPT !.pc = "token", !.excused = TRUE]]
        <5>1. two \/ \E v : one(IF v = <<>> THEN "token" ELSE "prune", v)
          BY <1>0, <3>2 DEF ListTokens
        <5> HIDE DEF one, two
        <5>2. \E pc, v : one(pc, v) \/ two
          BY <5>1
        <5> QED  BY <5>2 DEF one, two
      <4>2. /\ [q EXCEPT !.pc = pc, !.victims = v] = row(pc, q.count, v, q.excused)
            /\ [q EXCEPT !.pc = "token", !.excused = TRUE] = row("token", q.count, q.victims, TRUE)
        BY <2>0 DEF Request
      <4>3. step(pc, q.count, v, q.excused) \/ step("token", q.count, q.victims, TRUE)
        BY <4>1, <4>2
      <4> HIDE DEF step
      <4> QED  BY <4>3
    <3>3. CASE PruneToken(r)
      <4> DEFINE pc == IF Len(q.victims) = 1 THEN "token" ELSE "prune"
                 v == Tail(q.victims)
      <4>1. PICK e \in {q.excused \/ FALSE, q.excused \/ TRUE} :
              req' = [req EXCEPT ![r] = [q EXCEPT !.victims = v, !.excused = e, !.pc = pc]]
        BY <1>0, <3>3 DEF PruneToken
      <4> HIDE DEF pc, v
      <4>2. [q EXCEPT !.victims = v, !.excused = e, !.pc = pc] = row(pc, q.count, v, e)
        BY <2>0 DEF Request
      <4>3. step(pc, q.count, v, e)
        BY <4>1, <4>2
      <4> HIDE DEF step
      <4> QED  BY <4>3
    <3> QED  BY <1>18, <3>1, <3>2, <3>3
  <2>2. PICK pc, count, victims, excused : step(pc, count, victims, excused)
    BY <2>1
  <2>3. req' = [req EXCEPT ![r] = [@ EXCEPT !.pc = pc, !.count = count, !.victims = victims, !.excused = excused]]
    BY <2>2
  <2> QED  BY <1>17, <2>0, <2>3
<1>19. CASE CreateAPIToken(r)
  <2> DEFINE more(q) == [req[q] EXCEPT !.excused = TRUE]
             stashing == [req[r] EXCEPT !.pc = "stash", !.id = Len(tokens')]
  <2>1. req'[x] \in {req[x], more(x), stashing, Idle} /\ (req'[x] = stashing => req[r].pc # "enable")
    BY <1>0, <1>19 DEF CreateAPIToken, At, Done
  <2>2. more(x).u = req[x].u /\ more(x).pc = req[x].pc /\ more(x).saw = req[x].saw
    BY <1>0 DEF Request
  <2>3. stashing.u = req[r].u /\ stashing.saw = req[r].saw
    BY <1>0 DEF Request
  <2> HIDE DEF more, stashing
  <2>4. New(more(x))
    BY <1>s, <2>2 DEF New
  <2>5. req[r].pc # "enable" => New(stashing)
    BY <1>s, <2>3 DEF New
  <2> QED  BY <1>i, <1>s, <2>1, <2>4, <2>5
<1> QED
  BY <1>b, <1>8, <1>9, <1>10, <1>11, <1>12, <1>13, <1>14, <1>15, <1>16, <1>18, <1>19 DEF Step

\* The same of the challenges.
LEMMA Drawing ==
    ASSUME TypeInv, SawInv, NEW r \in Reqs, Begin(r) \/ Step(r), NEW c \in DOMAIN challenges'
    PROVE  Ahead(challenges'[c].u, challenges'[c].pw)
<1>0. /\ users \in [Users -> Account] /\ challenges \in Seq(Challenge)
      /\ \A x \in DOMAIN challenges : challenges[x] \in Challenge
  BY RowTypes DEF TypeInv, UsersOK, TablesOK
<1>1. CASE c \in DOMAIN challenges
  <2>1. challenges'[c].u = challenges[c].u /\ challenges'[c].pw = challenges[c].pw
    BY <1>1, RequestStep DEF SameChallenges
  <2>2. challenges[c].u \in Users /\ challenges[c].pw \in Nat /\ Known(challenges[c].u, challenges[c].pw)
    BY <1>0, <1>1 DEF Challenge, SawInv
  <2> QED  BY <2>1, <2>2, KnownStays
<1>2. ASSUME NEW op, NEW u \in Users, Login(r, op, u), c \notin DOMAIN challenges
      PROVE  Ahead(challenges'[c].u, challenges'[c].pw)
  <2> DEFINE row == [u |-> u, native |-> op = "LoginNative", open |-> TRUE, pw |-> users[u].pw]
  <2>1. Live(u) /\ challenges' = Append(challenges, row) /\ users[u].pw \in Nat
    BY <1>0, <1>2 DEF Login, Account
  <2>2. row.u = u /\ row.pw = users[u].pw
    OBVIOUS
  <2> HIDE DEF row
  <2>3. challenges'[c] = row
    <3>1. c \in 1 .. Len(challenges) + 1 /\ c \notin 1 .. Len(challenges) /\ Len(challenges) \in Nat
      BY <1>0, <1>2, <2>1, LenProperties
    <3>2. c = Len(challenges) + 1
      BY <3>1
    <3> QED  BY <1>0, <2>1, <3>2
  <2>4. Known(u, users[u].pw)
    BY <2>1 DEF Known, Live
  <2> QED  BY <2>1, <2>2, <2>3, <2>4, KnownStays
<1>3. ASSUME c \notin DOMAIN challenges
      PROVE  \E op \in {"Login", "LoginNative"}, u \in Users : Login(r, op, u)
  <2>1. DOMAIN challenges' # DOMAIN challenges
    BY <1>3
  <2>2. ChallengesWritten(r)
    BY <2>1, Writers DEF Written
  <2>3. ASSUME NEW op, NEW x, TakeChallenge(r, op, x) PROVE DOMAIN challenges' = DOMAIN challenges
    BY <2>3 DEF TakeChallenge
  <2> QED  BY <2>1, <2>2, <2>3 DEF ChallengesWritten
<1> QED  BY <1>1, <1>2, <1>3

LEMMA SawKeep ==
    ASSUME TypeInv, SawInv, NEW r \in Reqs, Begin(r) \/ Step(r)
    PROVE  SawInv'
<1>1. \A c \in DOMAIN challenges' : Ahead(challenges'[c].u, challenges'[c].pw)
  BY Drawing
<1>2. \A x \in Reqs : req'[x].u \in Users /\ req'[x].pc # "enable" => Ahead(req'[x].u, req'[x].saw)
  BY Seeing
<1> QED  BY <1>1, <1>2 DEF SawInv, Sees, Known, Ahead, Live

\* A session that a step leaves live, and does not take over, is as it was.
LEMMA SessionsLeft ==
    ASSUME TypeInv, NEW r \in Reqs, Begin(r) \/ Step(r), NEW s \in DOMAIN sessions, LiveSession(s)',
           ~ConfirmPasswordReset(r), ~UpdateUserPassword(r)
    PROVE  sessions'[s] = sessions[s]
<1>0. sessions \in Seq(Session) /\ req[r] \in Request /\ Fits(req[r], letters, sessions, tokens, past.confirmed)
  BY DEF TypeInv, TablesOK, RequestsOK
<1>w. UNCHANGED sessions \/ SessionsWritten(r)
  BY Writers DEF Written
<1>1. CASE issueSession(r)
  <2>1. PICK row : sessions' = sessions \/ sessions' = Append(sessions, row)
    BY <1>1 DEF issueSession
  <2>2. s \in 1 .. Len(sessions)
    BY <1>0, LenProperties
  <2> QED  BY <1>0, <2>1, <2>2
<1>2. CASE Revoke(r)
  <2>1. PICK x : sessions' = sessions \/ (x \in DOMAIN sessions /\ sessions' = [sessions EXCEPT ![x].state = "revoked"])
    <3>1. At(r, "authed") /\ (req[r].id # 0 => req[r].id \in DOMAIN sessions)
      BY <1>0, <1>2 DEF Revoke, Fits, At
    <3> QED  BY <1>2, <3>1 DEF Revoke, SessionsOf
  <2> QED  BY <1>0, <2>1, OneSession DEF LiveSession
<1>3. CASE DeleteAccount(r)
  <2>0. \A x \in DOMAIN sessions : sessions[x] \in Session
    BY <1>0, RowIn
  <2>1. sessions'[s] = IF sessions[s].u = req[r].u THEN [sessions[s] EXCEPT !.state = "revoked"] ELSE sessions[s]
    BY <1>3 DEF DeleteAccount
  <2> QED  BY <2>0, <2>1 DEF LiveSession, Session
<1> QED  BY <1>w, <1>1, <1>2, <1>3 DEF SessionsWritten

LEMMA SessionsKeep ==
    ASSUME TypeInv, SessionsInv, NEW r \in Reqs, Begin(r) \/ Step(r)
    PROVE  SessionsInv'
<1>0. /\ users \in [Users -> Account] /\ sessions \in Seq(Session)
      /\ req[r] \in Request /\ Fits(req[r], letters, sessions, tokens, past.confirmed)
  BY DEF TypeInv, RequestsOK, UsersOK, TablesOK
<1>t. TypeInv' /\ SameSessions(sessions, sessions')
  BY RequestStep DEF Growth
<1>w. UNCHANGED sessions \/ SessionsWritten(r)
  BY Writers DEF Written
<1> DEFINE Good(s, u) == /\ users'[u].state = "live" /\ sessions'[s].opened = users'[u].pw
                         /\ sessions'[s].proven <= sessions'[s].opened
<1> SUFFICES ASSUME NEW s \in DOMAIN sessions', LiveSession(s)'
             PROVE  Good(s, sessions'[s].u)
  BY SawKeep DEF SessionsInv, LiveSession, Live
<1>1. CASE s \notin DOMAIN sessions
  <2>1. issueSession(r)
    <3>1. DOMAIN sessions' # DOMAIN sessions
      BY <1>1, SMTT(30)
    <3>2. ASSUME ConfirmPasswordReset(r) \/ UpdateUserPassword(r) PROVE DOMAIN sessions' = DOMAIN sessions
      BY <3>2 DEF ConfirmPasswordReset, UpdateUserPassword, RevokeSessions
    <3>3. ASSUME Revoke(r) \/ DeleteAccount(r) PROVE DOMAIN sessions' = DOMAIN sessions
      BY <3>3 DEF Revoke, DeleteAccount
    <3> QED  BY <1>w, <3>1, <3>2, <3>3, SMTT(30) DEF SessionsWritten
  <2> DEFINE row == [u |-> req[r].u, state |-> "live", proven |-> req[r].saw, opened |-> users[req[r].u].pw]
  <2>2. Live(req[r].u) /\ sessions' = Append(sessions, row) /\ users' = users
    BY <1>1, <2>1 DEF issueSession
  <2>3. sessions'[s] = row
    <3> HIDE DEF row
    <3>1. s \in 1 .. Len(sessions) + 1 /\ s \notin 1 .. Len(sessions) /\ Len(sessions) \in Nat
      BY <1>0, <1>1, <2>2, LenProperties
    <3>2. s = Len(sessions) + 1
      BY <3>1
    <3> QED  BY <1>0, <2>2, <3>2
  <2>4. req[r].u \in Users /\ req[r].pc # "enable"
    BY <1>0, <2>1 DEF issueSession, At, Fits
  <2>5. req[r].saw <= users[req[r].u].pw
    <3>1. Known(req[r].u, req[r].saw) /\ users[req[r].u].pw \in Nat
      BY <1>0, <2>4 DEF SessionsInv, SawInv, Sees, Account
    <3> QED  BY <2>2, <3>1 DEF Known
  <2> QED  BY <2>2, <2>3, <2>5, SMTT(30) DEF Live
<1>2. CASE s \in DOMAIN sessions
  <2>u. PICK u : u = sessions[s].u
    OBVIOUS
  <2>1. LiveSession(s) /\ sessions'[s].u = u /\ u \in Users /\ Live(u)
        /\ sessions[s].opened = users[u].pw /\ sessions[s].proven <= sessions[s].opened
    <3>1. LiveSession(s) /\ sessions'[s].u = u
      BY <1>2, <1>t, <2>u DEF SameSessions, LiveSession
    <3>2. u \in Users
      BY <1>2, <2>u, RowTypes DEF Session
    <3> QED  BY <1>2, <2>u, <3>1, <3>2 DEF SessionsInv
  <2>2. CASE ConfirmPasswordReset(r) \/ UpdateUserPassword(r)
    <3>1. req[r].u \in Users
      BY <1>0, <2>2 DEF ConfirmPasswordReset, UpdateUserPassword, At, Fits
    <3>2. \/ users' = users /\ sessions' = sessions
          \/ /\ users' = [users EXCEPT ![req[r].u].pw = @ + 1]
             /\ RevokeSessions(req[r].u, 0) \/ RevokeSessions(req[r].u, req[r].id)
      BY <2>2 DEF ConfirmPasswordReset, UpdateUserPassword
    <3>3. CASE users' = users /\ sessions' = sessions
      BY <2>1, <2>u, <3>3 DEF Live
    <3>4. ASSUME NEW keep, RevokeSessions(req[r].u, keep), users' = [users EXCEPT ![req[r].u].pw = @ + 1]
          PROVE  Good(s, u)
      <4>1. CASE u # req[r].u
        <5>1. sessions'[s] = sessions[s] /\ users'[u] = users[u]
          BY <1>0, <1>2, <2>1, <2>u, <3>1, <3>4, <4>1, RevokedSessions
        <5> QED  BY <2>1, <5>1 DEF Live
      <4>2. CASE u = req[r].u
        <5>1. s = keep /\ sessions'[s].opened = users[u].pw + 1 /\ sessions'[s].proven = users[u].pw + 1
          BY <1>2, <2>1, <2>u, <3>1, <3>4, <4>2, RevokedSessions DEF LiveSession
        <5>2. users'[u].pw = users[u].pw + 1 /\ users'[u].state = users[u].state /\ users[u].pw \in Nat
          BY <1>0, <2>1, <3>4, <4>2 DEF Account
        <5> QED  BY <2>1, <5>1, <5>2 DEF Live
      <4> QED  BY <4>1, <4>2
    <3> QED  BY <2>1, <3>2, <3>3, <3>4
  <2>3. CASE ~ConfirmPasswordReset(r) /\ ~UpdateUserPassword(r)
    <3>1. sessions'[s] = sessions[s]
      BY <1>2, <2>3, SessionsLeft
    <3>2. Changed(r, u)
      BY <2>1, Changing
    <3>3. ~DeleteAccount(r) \/ u # req[r].u
      <4>1. ASSUME DeleteAccount(r), u = req[r].u PROVE FALSE
        <5>1. sessions'[s] = [sessions[s] EXCEPT !.state = "revoked"]
          BY <1>2, <2>u, <4>1 DEF DeleteAccount
        <5>2. sessions[s] \in Session
          BY <1>2, RowTypes
        <5> QED  BY <5>1, <5>2 DEF Session, LiveSession
      <4> QED  BY <4>1
    <3>4. users'[u].state = users[u].state /\ users'[u].pw = users[u].pw
      BY <2>1, <2>3, <3>2, <3>3 DEF Changed, Rewritten, SamePw, Live
    <3> QED  BY <2>1, <3>1, <3>4 DEF Live
  <2> QED  BY <2>2, <2>3
<1> QED  BY <1>1, <1>2

LEMMA ChallengesElsewhere ==
    ASSUME TypeInv, Lapse \/ Restart \/ (\E t \in stash : ExchangeNativeCode(t)) \/ UNCHANGED vars
    PROVE  /\ DOMAIN challenges' = DOMAIN challenges
           /\ \A c \in DOMAIN challenges : challenges'[c].u = challenges[c].u /\ challenges'[c].pw = challenges[c].pw
<1>0. challenges \in Seq(Challenge) /\ \A c \in DOMAIN challenges : challenges[c] \in Challenge
  BY RowTypes DEF TypeInv, TablesOK
<1>1. CASE Lapse
  <2>1. challenges' = challenges \/ \E c \in DOMAIN challenges : challenges' = [challenges EXCEPT ![c].open = FALSE]
    BY <1>1 DEF Lapse
  <2> QED  BY <1>0, <2>1 DEF Challenge
<1>2. CASE Restart
  <2>1. challenges' = [c \in DOMAIN challenges |-> [challenges[c] EXCEPT !.open = FALSE]]
    BY <1>2 DEF Restart
  <2> QED  BY <1>0, <2>1 DEF Challenge
<1>3. ASSUME NEW t, ExchangeNativeCode(t) PROVE challenges' = challenges
  BY <1>3 DEF ExchangeNativeCode
<1>4. CASE UNCHANGED vars
  BY <1>4 DEF vars, mem
<1> QED  BY <1>1, <1>2, <1>3, <1>4

LEMMA SessionsHold == Spec => []SessionsInv
<1>1. ASSUME TypeInv, SessionsInv, [Next]_vars PROVE SessionsInv'
  <2>1. ASSUME Lapse \/ Restart \/ (\E t \in stash : ExchangeNativeCode(t)) \/ UNCHANGED vars PROVE SessionsInv'
    <3>1. /\ users' = users /\ DOMAIN sessions' = DOMAIN sessions
          /\ \A s \in DOMAIN sessions : LiveSession(s)' => sessions'[s] = sessions[s]
      BY <1>1, <2>1, Elsewhere
    <3>2. SawInv'
      <4>1. (\A x \in Reqs : req'[x] \in {req[x], Idle}) /\ Idle.saw = 0
        BY <1>1, <2>1, Elsewhere DEF TypeInv, RequestsOK, Idle
      <4>2. /\ DOMAIN challenges' = DOMAIN challenges
            /\ \A c \in DOMAIN challenges : challenges'[c].u = challenges[c].u /\ challenges'[c].pw = challenges[c].pw
        BY <1>1, <2>1, ChallengesElsewhere
      <4> QED  BY <1>1, <3>1, <4>1, <4>2 DEF SessionsInv, SawInv, Sees, Known, Live
    <3> QED  BY <1>1, <3>1, <3>2 DEF SessionsInv, LiveSession, Live
  <2> QED  BY <1>1, <2>1, SessionsKeep DEF Next
<1> QED  BY SessionsInit, TypesHold, <1>1, PTL DEF Spec

\* Every live session was opened under the password its account has now, on a proof given under
\* it or by whoever changed it, or its sign-in was overtaken by the change: UpdateUserPassword and
\* the revocation of the other sessions are one transaction, and so are a reset and the
\* revocation of all (auth.go ChangePassword, ConfirmPasswordReset), but the password is checked,
\* and the challenge drawn, before the transaction that opens the session.
THEOREM PasswordsEndSessions == Spec => []SessionsFollowPassword
<1>1. TypeInv /\ SessionsInv => SessionsFollowPassword
  <2> SUFFICES ASSUME TypeInv, SessionsInv, NEW s \in DOMAIN sessions, LiveSession(s)
               PROVE  /\ sessions[s].opened = users[sessions[s].u].pw
                      /\ sessions[s].proven = users[sessions[s].u].pw \/ Overtaken(s)
    BY DEF SessionsFollowPassword
  <2>1. sessions[s].proven \in Nat /\ sessions[s].opened \in Nat
    BY RowTypes DEF Session
  <2>2. sessions[s].opened = users[sessions[s].u].pw /\ sessions[s].proven <= sessions[s].opened
    BY DEF SessionsInv
  <2> QED  BY <2>1, <2>2 DEF Overtaken
<1> QED  BY TypesHold, SessionsHold, <1>1, PTL

-------------------------------------------------------------------------------
(* Letters and verified addresses.                                                       *)

\* A letter that may still be used is to a live account; one that verifies is to its address,
\* unless the address changed before or since.
LettersInv ==
    \A i \in DOMAIN letters : ~Spent(letters[i]) =>
        /\ Live(letters[i].u)
        /\ letters[i].kind = "verify" =>
              \/ letters[i].to = users[letters[i].u].email \/ letters[i].late
              \/ letters[i].u \in past.dangling

AddressInv == LettersInv /\ VerifiedByOwner

LEMMA AddressInit == Init => AddressInv
<1> SUFFICES ASSUME Init PROVE AddressInv
  OBVIOUS
<1>1. PICK s \in Scenarios :
        users = [u \in Users |-> IF u # Owner THEN NoAccount
                   ELSE [NoAccount EXCEPT !.state = "live", !.email = OwnersEmail, !.verified = TRUE,
                           !.secret = IF s.enabled THEN 1 ELSE 0, !.enabled = s.enabled]]
  BY DEF Init
<1>2. letters = <<>> /\ past.proven = {<<Owner, OwnersEmail>>}
  BY DEF Init
<1>3. users[Owner].email = OwnersEmail /\ \A u \in Users \ {Owner} : users[u] = NoAccount
  BY <1>1, AccountsAssumption DEF NoAccount
<1>4. VerifiedByOwner
  BY <1>2, <1>3, NoAccountType DEF VerifiedByOwner
<1> QED  BY <1>2, <1>4 DEF AddressInv, LettersInv

\* Accounts that no letter and no provider vouch for are forgotten only when the address is new.
LEMMA Slipping ==
    ASSUME TypeInv, NEW r \in Reqs, Begin(r) \/ Step(r), NEW u \in past.slipped
    PROVE  u \in past'.slipped \/ ~users'[u].verified
<1>p. past \in History(past.spent) /\ users \in [Users -> Account]
      /\ req[r] \in Request /\ Fits(req[r], letters, sessions, tokens, past.confirmed)
  BY DEF TypeInv, PastOK, UsersOK, RequestsOK
<1>1. \/ past'.slipped = past.slipped \/ VerifyEmail(r) \/ linkProviderID(r)
      \/ \E e \in Emails : UpdateEmail(r, e)
  BY Recording DEF Recorded
<1>2. CASE VerifyEmail(r)
  <2> DEFINE v == req[r].u
             i == req[r].id
             spent == past.spent (+) SetToBag({<<"letter", i>>})
             proven == past.proven \cup {<<v, letters[i].to>>}
             slip == letters[i].to # users[v].email /\ (letters[i].late \/ v \in past.dangling)
             slipped == IF slip THEN past.slipped \cup {v} ELSE past.slipped
  <2>1. past' = past \/ past' = [past EXCEPT !.spent = spent, !.proven = proven, !.slipped = slipped]
    BY <1>2 DEF VerifyEmail
  <2>2. u \in slipped
    OBVIOUS
  <2> HIDE DEF spent, proven, slipped
  <2> QED  BY <1>p, <2>1, <2>2 DEF History
<1>3. CASE linkProviderID(r)
  <2> DEFINE v == req[r].u
             i == req[r].who
             homes == past.homes \cup {<<i, v>>}
             proven == past.proven \cup {<<v, EmailOf[i]>>}
             unlinked == past.unlinked \cup ({users[v].sub} \ {None, i})
             slipped == IF users[v].email # EmailOf[i] THEN past.slipped \cup {v} ELSE past.slipped
  <2>1. \/ past' = past
        \/ past' = [past EXCEPT !.homes = homes, !.unlinked = unlinked, !.proven = proven, !.slipped = slipped]
    BY <1>3 DEF linkProviderID
  <2>2. u \in slipped
    OBVIOUS
  <2> HIDE DEF homes, proven, unlinked, slipped
  <2> QED  BY <1>p, <2>1, <2>2 DEF History
<1>4. ASSUME NEW e \in Emails, UpdateEmail(r, e) PROVE u \in past'.slipped \/ ~users'[u].verified
  <2> DEFINE dangling == past.dangling \cup {req[r].u}
  <2>1. \/ past' = past
        \/ /\ past' = [past EXCEPT !.dangling = dangling, !.slipped = past.slipped \ {req[r].u}]
           /\ users' = [users EXCEPT ![req[r].u].email = e, ![req[r].u].verified = FALSE]
    BY <1>4 DEF UpdateEmail
  <2>2. req[r].u \in Users
    BY <1>p, <1>4 DEF UpdateEmail, Authed, At, Fits
  <2> HIDE DEF dangling
  <2>3. past' = past \/ past'.slipped = past.slipped \ {req[r].u}
    BY <1>p, <2>1 DEF History
  <2>4. past' = past \/ ~users'[req[r].u].verified
    BY <1>p, <2>1, <2>2 DEF Account
  <2> QED  BY <2>3, <2>4
<1> QED  BY <1>1, <1>2, <1>3, <1>4

LEMMA LettersKeep ==
    ASSUME TypeInv, LettersInv, NEW r \in Reqs, Begin(r) \/ Step(r)
    PROVE  LettersInv'
<1>0. /\ users \in [Users -> Account] /\ letters \in Seq(Letter) /\ past \in History(past.spent)
      /\ req[r] \in Request /\ Fits(req[r], letters, sessions, tokens, past.confirmed)
  BY DEF TypeInv, RequestsOK, UsersOK, TablesOK, PastOK
<1>t. SameLetters(letters, letters')
  BY RequestStep DEF Growth
<1>w. UNCHANGED letters \/ LettersWritten(r)
  BY Writers DEF Written
<1> SUFFICES ASSUME NEW i \in DOMAIN letters', ~Spent(letters'[i])
             PROVE  /\ users'[letters'[i].u].state = "live"
                    /\ letters'[i].kind = "verify" =>
                          \/ letters'[i].to = users'[letters'[i].u].email \/ letters'[i].late
                          \/ letters'[i].u \in past'.dangling
  BY DEF LettersInv, Spent, Live
<1>1. CASE i \notin DOMAIN letters
  <2>1. CreateEmailToken(r)
    <3>1. DOMAIN letters' # DOMAIN letters
      BY <1>1
    <3>2. ASSUME VerifyEmail(r) \/ ConfirmPasswordReset(r) PROVE DOMAIN letters' = DOMAIN letters
      BY <3>2 DEF VerifyEmail, ConfirmPasswordReset
    <3>3. ASSUME DeleteUserEmailTokens(r) \/ DeleteAccount(r) PROVE DOMAIN letters' = DOMAIN letters
      BY <3>3 DEF DeleteUserEmailTokens, DeleteAccount
    <3> QED  BY <1>w, <3>1, <3>2, <3>3 DEF LettersWritten
  <2> DEFINE row == [u |-> req[r].u, kind |-> KindOf(req[r].op), to |-> req[r].email,
                     late |-> users[req[r].u].email # req[r].email, state |-> "valid"]
  <2>2. Live(req[r].u) /\ letters' = Append(letters, row) /\ users' = users
    BY <1>1, <2>1 DEF CreateEmailToken
  <2>3. letters'[i] = row
    <3> HIDE DEF row
    <3>1. i \in 1 .. Len(letters) + 1 /\ i \notin 1 .. Len(letters) /\ Len(letters) \in Nat
      BY <1>0, <1>1, <2>2, LenProperties
    <3>2. i = Len(letters) + 1
      BY <3>1
    <3> QED  BY <1>0, <2>2, <3>2
  <2>4. row.u = req[r].u /\ row.to = req[r].email /\ row.late = (users[req[r].u].email # req[r].email)
    OBVIOUS
  <2> HIDE DEF row
  <2> QED  BY <2>2, <2>3, <2>4 DEF Live
<1>2. CASE i \in DOMAIN letters
  <2>u. PICK u : u = letters[i].u
    OBVIOUS
  <2>1. /\ ~Spent(letters[i]) /\ letters'[i].u = u /\ letters'[i].kind = letters[i].kind
        /\ letters'[i].to = letters[i].to /\ letters'[i].late = letters[i].late
    BY <1>2, <1>t, <2>u DEF SameLetters
  <2>2. u \in Users
    BY <1>2, <2>u, RowTypes DEF Letter
  <2>3. /\ Live(u)
        /\ letters[i].kind = "verify" => letters[i].to = users[u].email \/ letters[i].late \/ u \in past.dangling
    BY <1>2, <2>u, <2>1 DEF LettersInv
  <2>4. Changed(r, u)
    BY <2>2, Changing
  <2>5. ~DeleteAccount(r) \/ u # req[r].u
    <3>1. ASSUME DeleteAccount(r), u = req[r].u PROVE FALSE
      <4>1. letters'[i] = [letters[i] EXCEPT !.state = "deleted"]
        BY <1>2, <2>u, <3>1 DEF DeleteAccount
      <4>2. letters[i] \in Letter
        BY <1>2, RowTypes
      <4> QED  BY <4>1, <4>2 DEF Letter, Spent
    <3> QED  BY <3>1
  <2>6. users'[u].state = "live"
    BY <2>3, <2>4, <2>5 DEF Changed, Rewritten, Live
  <2>7. users'[u].email = users[u].email \/ u \in past'.dangling
    <3>1. ASSUME NEW e \in Emails, UpdateEmail(r, e), u = req[r].u
          PROVE  users'[u].email = users[u].email \/ u \in past'.dangling
      <4> DEFINE dangling == past.dangling \cup {req[r].u}
                 slipped == past.slipped \ {req[r].u}
      <4>1. users' = users \/ past' = [past EXCEPT !.dangling = dangling, !.slipped = slipped]
        BY <3>1 DEF UpdateEmail
      <4>2. u \in dangling
        BY <3>1
      <4> HIDE DEF dangling, slipped
      <4> QED  BY <1>0, <4>1, <4>2 DEF History
    <3> QED  BY <2>3, <2>4, <2>5, <3>1 DEF Changed, Rewritten, SameNamed, Live
  <2>8. u \in past.dangling /\ letters[i].kind = "verify" => u \in past'.dangling
    <3>1. past'.dangling = past.dangling \/ DeleteUserEmailTokens(r) \/ \E e \in Emails : UpdateEmail(r, e)
      BY Recording DEF Recorded
    <3>2. ASSUME NEW e \in Emails, UpdateEmail(r, e) PROVE past.dangling \subseteq past'.dangling
      <4> DEFINE dangling == past.dangling \cup {req[r].u}
                 slipped == past.slipped \ {req[r].u}
      <4>1. past' = past \/ past' = [past EXCEPT !.dangling = dangling, !.slipped = slipped]
        BY <3>2 DEF UpdateEmail
      <4>2. past.dangling \subseteq dangling
        OBVIOUS
      <4> HIDE DEF dangling, slipped
      <4> QED  BY <1>0, <4>1, <4>2 DEF History
    <3>3. ASSUME DeleteUserEmailTokens(r), letters[i].kind = "verify", u \in past.dangling PROVE u \in past'.dangling
      <4>1. CASE past' = past
        BY <3>3, <4>1
      <4>2. CASE past' # past
        <5> DEFINE dangling == past.dangling \ {req[r].u}
        <5>1. /\ letters' = [x \in DOMAIN letters |->
                               IF letters[x].u = req[r].u /\ letters[x].kind = KindOf(req[r].op)
                                 THEN [letters[x] EXCEPT !.state = "deleted"] ELSE letters[x]]
              /\ KindOf(req[r].op) = "verify" /\ past' = [past EXCEPT !.dangling = dangling]
          BY <3>3, <4>2 DEF DeleteUserEmailTokens
        <5>2. u # req[r].u
          <6>1. ASSUME u = req[r].u PROVE FALSE
            <7>1. letters'[i] = [letters[i] EXCEPT !.state = "deleted"]
              BY <1>2, <2>u, <3>3, <5>1, <6>1
            <7>2. letters[i] \in Letter
              BY <1>2, RowTypes
            <7> QED  BY <7>1, <7>2 DEF Letter, Spent
          <6> QED  BY <6>1
        <5>3. u \in dangling
          BY <3>3, <5>2
        <5> HIDE DEF dangling
        <5> QED  BY <1>0, <5>1, <5>3 DEF History
      <4> QED  BY <4>1, <4>2
    <3> QED  BY <3>1, <3>2, <3>3
  <2> QED  BY <2>1, <2>3, <2>6, <2>7, <2>8
<1> QED  BY <1>1, <1>2

\* Whatever makes an address verified records who vouches for it, or that the letter or the
\* account slipped through.
LEMMA AddressKeep ==
    ASSUME TypeInv, AddressInv, NEW r \in Reqs, Begin(r) \/ Step(r)
    PROVE  VerifiedByOwner'
<1>0. /\ users \in [Users -> Account] /\ letters \in Seq(Letter) /\ past \in History(past.spent)
      /\ req[r] \in Request /\ Fits(req[r], letters, sessions, tokens, past.confirmed)
  BY DEF TypeInv, RequestsOK, UsersOK, TablesOK, PastOK
<1>1. past.proven \subseteq past'.proven
  BY Recording DEF Recorded
<1> SUFFICES ASSUME NEW u \in Users, users'[u].state = "live", users'[u].verified
             PROVE  <<u, users'[u].email>> \in past'.proven \/ u \in past'.slipped
  BY DEF VerifiedByOwner, Live
<1>2. ASSUME users[u].state = "live", users[u].verified, users'[u].email = users[u].email
      PROVE  <<u, users'[u].email>> \in past'.proven \/ u \in past'.slipped
  <2>1. <<u, users[u].email>> \in past.proven \/ u \in past.slipped
    BY <1>2 DEF AddressInv, VerifiedByOwner, Live
  <2>2. u \in past.slipped => u \in past'.slipped
    BY Slipping
  <2> QED  BY <1>1, <1>2, <2>1, <2>2
<1>3. Changed(r, u)
  BY Changing
<1>4. CASE users'[u] = users[u]
  BY <1>2, <1>4
<1>5. ASSUME VerifyEmail(r), u = req[r].u, users'[u] # users[u], SameNamed(u)
      PROVE  <<u, users'[u].email>> \in past'.proven \/ u \in past'.slipped
  <2> DEFINE i == req[r].id
             spent == past.spent (+) SetToBag({<<"letter", i>>})
             proven == past.proven \cup {<<u, letters[i].to>>}
             slip == letters[i].to # users[u].email /\ (letters[i].late \/ u \in past.dangling)
             slipped == IF slip THEN past.slipped \cup {u} ELSE past.slipped
  <2>1. /\ past' = [past EXCEPT !.spent = spent, !.proven = proven, !.slipped = slipped]
        /\ MarkEmailTokenUsed(i)
    BY <1>5 DEF VerifyEmail
  <2>2. i \in DOMAIN letters /\ letters[i].u = u /\ letters[i].kind = "verify"
    BY <1>0, <1>5 DEF VerifyEmail, At, Fits
  <2>3. letters[i].to = users[u].email \/ slip
    BY <2>1, <2>2 DEF MarkEmailTokenUsed, AddressInv, LettersInv, Spent
  <2>4. <<u, users[u].email>> \in proven \/ u \in slipped
    BY <2>3
  <2> HIDE DEF spent, proven, slipped
  <2>5. past'.proven = proven /\ past'.slipped = slipped
    BY <1>0, <2>1 DEF History
  <2> QED  BY <1>5, <2>4, <2>5 DEF SameNamed
<1>6. ASSUME linkProviderID(r), u = req[r].u, users'[u] # users[u], users'[u].email = users[u].email
      PROVE  <<u, users'[u].email>> \in past'.proven \/ u \in past'.slipped
  <2> DEFINE i == req[r].who
             homes == past.homes \cup {<<i, u>>}
             proven == past.proven \cup {<<u, EmailOf[i]>>}
             unlinked == past.unlinked \cup ({users[u].sub} \ {None, i})
             slipped == IF users[u].email # EmailOf[i] THEN past.slipped \cup {u} ELSE past.slipped
  <2>1. past' = [past EXCEPT !.homes = homes, !.unlinked = unlinked, !.proven = proven, !.slipped = slipped]
    BY <1>6 DEF linkProviderID
  <2>2. <<u, users[u].email>> \in proven \/ u \in slipped
    OBVIOUS
  <2> HIDE DEF homes, proven, unlinked, slipped
  <2>3. past'.proven = proven /\ past'.slipped = slipped
    BY <1>0, <2>1 DEF History
  <2> QED  BY <1>6, <2>2, <2>3
<1>7. ASSUME createOAuthUser(r, u), users[u].state = "none"
      PROVE  <<u, users'[u].email>> \in past'.proven \/ u \in past'.slipped
  <2> DEFINE i == req[r].who
             homes == past.homes \cup {<<i, u>>}
             proven == past.proven \cup {<<u, EmailOf[i]>>}
  <2>1. users' = [users EXCEPT ![u] = OAuthAccount(i)] /\ past' = [past EXCEPT !.homes = homes, !.proven = proven]
    BY <1>7 DEF createOAuthUser
  <2>2. users'[u].email = EmailOf[i]
    <3>1. users'[u] = OAuthAccount(i)
      BY <1>0, <2>1
    <3> QED  BY <3>1 DEF OAuthAccount, NoAccount
  <2>3. <<u, EmailOf[i]>> \in proven
    OBVIOUS
  <2> HIDE DEF homes, proven
  <2>4. past'.proven = proven
    BY <1>0, <2>1 DEF History
  <2> QED  BY <2>2, <2>3, <2>4
<1>8. CASE Rewritten(r, u) /\ users'[u] # users[u]
  <2>1. u = req[r].u /\ users[u].state = "live"
    BY <1>8 DEF Rewritten
  <2>2. \/ VerifyEmail(r) /\ SameNamed(u)
        \/ SameNamed(u) /\ SameVerified(u)
        \/ linkProviderID(r) /\ users'[u].email = users[u].email
    BY <1>8 DEF Rewritten
  <2> QED  BY <1>2, <1>5, <1>6, <1>8, <2>1, <2>2 DEF SameNamed, SameVerified
<1> QED  BY <1>3, <1>4, <1>7, <1>8 DEF Changed, Live

LEMMA AddressHolds == Spec => []AddressInv
<1>1. ASSUME TypeInv, AddressInv, [Next]_vars PROVE AddressInv'
  <2>1. ASSUME Lapse \/ Restart \/ (\E t \in stash : ExchangeNativeCode(t)) \/ UNCHANGED vars PROVE AddressInv'
    <3>1. /\ users' = users /\ past'.dangling = past.dangling /\ past'.slipped = past.slipped
          /\ past'.proven = past.proven /\ DOMAIN letters' = DOMAIN letters
      BY <1>1, <2>1, Elsewhere
    <3>2. SameLetters(letters, letters')
      BY <1>1, TypeStep DEF Growth
    <3>3. VerifiedByOwner'
      BY <1>1, <3>1 DEF AddressInv, VerifiedByOwner, Live
    <3>4. LettersInv'
      BY <1>1, <3>1, <3>2 DEF AddressInv, LettersInv, SameLetters, Live
    <3> QED  BY <3>3, <3>4 DEF AddressInv
  <2> QED  BY <1>1, <2>1, LettersKeep, AddressKeep DEF Next, AddressInv
<1> QED  BY AddressInit, TypesHold, <1>1, PTL DEF Spec

\* An address is marked verified only when a letter sent to it came back or a provider vouched
\* for it, but for the windows the statements leave: newEmailToken deletes the earlier letters
\* after the address is written, and linkProviderID links an account found by an address it
\* may have given up since (auth.go, auth_oauth.go).
THEOREM AddressesVouched == Spec => []VerifiedByOwner
<1>1. AddressInv => VerifiedByOwner
  BY DEF AddressInv
<1> QED  BY AddressHolds, <1>1, PTL

-------------------------------------------------------------------------------
(* Two-factor enrolment.                                                                 *)

\* Recovery codes are those of live accounts with two-factor on; the secret of such an account
\* was confirmed, or the enrolment was overtaken.
CodesInv   == \A c \in codes : Live(c[1]) /\ users[c[1]].enabled
SecretsInv == \A u \in Users : Live(u) /\ users[u].enabled =>
                  users[u].secret \in past.confirmed \/ u \in past.overtaken
EnrolInv   == CodesInv /\ SecretsInv

LEMMA EnrolInit == Init => EnrolInv
<1> SUFFICES ASSUME Init PROVE EnrolInv
  OBVIOUS
<1>1. PICK s \in Scenarios :
        /\ users = [u \in Users |-> IF u # Owner THEN NoAccount
                      ELSE [NoAccount EXCEPT !.state = "live", !.email = OwnersEmail, !.verified = TRUE,
                              !.secret = IF s.enabled THEN 1 ELSE 0, !.enabled = s.enabled]]
        /\ codes = IF s.enabled THEN CodeSet(Owner, 1) ELSE {}
  BY DEF Init
<1>2. past.confirmed = {1}
  BY DEF Init
<1>3. s.enabled \in BOOLEAN /\ Owner \in Users
  BY AccountsAssumption
<1>4. /\ users[Owner].enabled = s.enabled /\ Live(Owner) /\ (s.enabled => users[Owner].secret = 1)
      /\ \A u \in Users \ {Owner} : users[u] = NoAccount
  BY <1>1, <1>3 DEF NoAccount, Live
<1>5. CodesInv
  BY <1>1, <1>3, <1>4 DEF CodesInv, CodeSet
<1>6. SecretsInv
  BY <1>2, <1>4, NoAccountType DEF SecretsInv
<1> QED  BY <1>5, <1>6 DEF EnrolInv

\* What an enrolment, a new secret or the end of it writes.
LEMMA Enrolling ==
    ASSUME TypeInv, NEW r \in Reqs, NEW u \in Users, u = req[r].u
    PROVE  /\ SetTOTPSecret(r) =>
                \/ users' = users
                \/ users'[u].enabled = users[u].enabled /\ (users[u].enabled => u \in past'.overtaken)
           /\ SetTOTPEnabled(r) =>
                \/ users' = users /\ codes' = codes
                \/ /\ users'[u].enabled /\ users'[u].state = "live" /\ users'[u].secret = users[u].secret
                   /\ users[u].secret \in past'.confirmed \/ u \in past'.overtaken
           /\ ClearTOTP(r) => ~users'[u].enabled /\ \A c \in codes' : c[1] # u
<1>0. /\ users \in [Users -> Account] /\ past \in History(past.spent) /\ users[u] \in Account
      /\ req[r] \in Request /\ Fits(req[r], letters, sessions, tokens, past.confirmed)
  BY DEF TypeInv, RequestsOK, UsersOK, PastOK
<1>1. ASSUME SetTOTPSecret(r), users' # users
      PROVE  users'[u].enabled = users[u].enabled /\ (users[u].enabled => u \in past'.overtaken)
  <2> DEFINE secrets == past.secrets + 1
             overtaken == IF users[u].enabled THEN past.overtaken \cup {u} ELSE past.overtaken
  <2>1. users' = [users EXCEPT ![u].secret = secrets] /\ past' = [past EXCEPT !.secrets = secrets, !.overtaken = overtaken]
    BY <1>1 DEF SetTOTPSecret
  <2>2. users[u].enabled => u \in overtaken
    OBVIOUS
  <2> HIDE DEF secrets, overtaken
  <2>3. users'[u] = [users[u] EXCEPT !.secret = secrets]
    BY <1>0, <2>1
  <2>4. past'.overtaken = overtaken
    BY <1>0, <2>1 DEF History
  <2> QED  BY <1>0, <2>2, <2>3, <2>4 DEF Account
<1>2. ASSUME SetTOTPEnabled(r), ~(users' = users /\ codes' = codes)
      PROVE  /\ users'[u].enabled /\ users'[u].state = "live" /\ users'[u].secret = users[u].secret
             /\ users[u].secret \in past'.confirmed \/ u \in past'.overtaken
  <2> DEFINE sets == past.sets + 1
             overtaken == IF users[u].secret # req[r].saw THEN past.overtaken \cup {u} ELSE past.overtaken
  <2>1. /\ users' = [users EXCEPT ![u].enabled = TRUE] /\ users[u].state = "live"
        /\ past' = [past EXCEPT !.sets = sets, !.overtaken = overtaken]
    BY <1>2 DEF SetTOTPEnabled, Live
  <2>2. users[u].secret \in past.confirmed \/ u \in overtaken
    BY <1>0, <1>2 DEF SetTOTPEnabled, At, Fits
  <2> HIDE DEF sets, overtaken
  <2>3. users'[u] = [users[u] EXCEPT !.enabled = TRUE]
    BY <1>0, <2>1
  <2>4. users'[u].enabled /\ users'[u].state = users[u].state /\ users'[u].secret = users[u].secret
    BY <1>0, <2>3 DEF Account
  <2>5. past'.overtaken = overtaken /\ past'.confirmed = past.confirmed
    BY <1>0, <2>1 DEF History
  <2> QED  BY <2>1, <2>2, <2>4, <2>5
<1>3. ASSUME ClearTOTP(r) PROVE ~users'[u].enabled /\ \A c \in codes' : c[1] # u
  <2>1. users' = [users EXCEPT ![u] = [users[u] EXCEPT !.secret = 0, !.enabled = FALSE]]
    BY <1>0, <1>3 DEF ClearTOTP
  <2>2. users'[u] = [users[u] EXCEPT !.secret = 0, !.enabled = FALSE]
    BY <1>0, <2>1
  <2>3. ~users'[u].enabled
    BY <1>0, <2>2 DEF Account
  <2>4. \A c \in codes' : c[1] # u
    BY <1>3 DEF ClearTOTP
  <2> QED  BY <2>3, <2>4
<1> QED  BY <1>1, <1>2, <1>3

LEMMA CodesKeep ==
    ASSUME TypeInv, EnrolInv, NEW r \in Reqs, Begin(r) \/ Step(r)
    PROVE  CodesInv'
<1>0. users \in [Users -> Account] /\ req[r] \in Request /\ Fits(req[r], letters, sessions, tokens, past.confirmed)
  BY DEF TypeInv, RequestsOK, UsersOK
<1>1. CodesOK'
  BY RequestStep DEF TypeInv
<1> SUFFICES ASSUME NEW c \in codes' PROVE users'[c[1]].state = "live" /\ users'[c[1]].enabled
  BY DEF CodesInv, Live
<1>2. PICK u \in Users : u = c[1]
  BY <1>1 DEF CodesOK
<1>3. CASE c \in codes
  <2>1. users[u].state = "live" /\ users[u].enabled
    BY <1>2, <1>3 DEF EnrolInv, CodesInv, Live
  <2>2. ASSUME DeleteAccount(r) PROVE u # req[r].u
    BY <1>2, <2>2 DEF DeleteAccount
  <2>3. Changed(r, u)
    BY Changing
  <2>4. CASE users'[u] = users[u]
    BY <1>2, <2>1, <2>4
  <2>5. CASE Rewritten(r, u) /\ users'[u] # users[u]
    <3>1. u = req[r].u /\ users'[u].state = users[u].state
      BY <2>5 DEF Rewritten
    <3>2. SameSecret(u) \/ SetTOTPSecret(r) \/ SetTOTPEnabled(r) \/ ClearTOTP(r)
      BY <2>5 DEF Rewritten
    <3>3. users'[u].enabled
      BY <1>2, <2>1, <2>5, <3>1, <3>2, Enrolling DEF SameSecret
    <3> QED  BY <1>2, <2>1, <3>1, <3>3
  <2> QED  BY <2>1, <2>2, <2>3, <2>4, <2>5 DEF Changed
<1>4. CASE SetTOTPEnabled(r) /\ Live(req[r].u) /\ c \in CodeSet(req[r].u, past.sets + 1)
  <2>1. u = req[r].u
    BY <1>2, <1>4 DEF CodeSet
  <2>2. users' = [users EXCEPT ![u].enabled = TRUE] /\ users[u].state = "live"
    BY <1>4, <2>1 DEF SetTOTPEnabled, Live
  <2>3. users'[u] = [users[u] EXCEPT !.enabled = TRUE]
    BY <1>0, <2>2
  <2>4. users[u] \in Account
    BY <1>0
  <2>5. users'[u].enabled /\ users'[u].state = users[u].state
    BY <2>3, <2>4 DEF Account
  <2> QED  BY <1>2, <2>2, <2>5
<1> QED  BY <1>3, <1>4, CodesFrom

LEMMA SecretsKeep ==
    ASSUME TypeInv, EnrolInv, NEW r \in Reqs, Begin(r) \/ Step(r)
    PROVE  SecretsInv'
<1>0. past.confirmed \subseteq past'.confirmed
  BY RequestStep DEF Growth, Remembers
<1>p. past \in History(past.spent)
  BY DEF TypeInv, PastOK
<1> SUFFICES ASSUME NEW u \in Users, users'[u].state = "live", users'[u].enabled
             PROVE  users'[u].secret \in past'.confirmed \/ u \in past'.overtaken
  BY DEF SecretsInv, Live
<1>1. u \in past.overtaken => u \in past'.overtaken
  <2>1. past'.overtaken = past.overtaken \/ SetTOTPSecret(r) \/ SetTOTPEnabled(r) \/ ClearTOTP(r)
    BY Recording DEF Recorded
  <2>2. ASSUME SetTOTPSecret(r) PROVE past.overtaken \subseteq past'.overtaken
    <3> DEFINE v == req[r].u
               secrets == past.secrets + 1
               overtaken == IF users[v].enabled THEN past.overtaken \cup {v} ELSE past.overtaken
    <3>1. past' = past \/ past' = [past EXCEPT !.secrets = secrets, !.overtaken = overtaken]
      BY <2>2 DEF SetTOTPSecret
    <3>2. past.overtaken \subseteq overtaken
      OBVIOUS
    <3> HIDE DEF secrets, overtaken
    <3> QED  BY <1>p, <3>1, <3>2 DEF History
  <2>3. ASSUME SetTOTPEnabled(r) PROVE past.overtaken \subseteq past'.overtaken
    <3> DEFINE v == req[r].u
               sets == past.sets + 1
               overtaken == IF users[v].secret # req[r].saw THEN past.overtaken \cup {v} ELSE past.overtaken
    <3>1. past' = past \/ past' = [past EXCEPT !.sets = sets, !.overtaken = overtaken]
      BY <2>3 DEF SetTOTPEnabled
    <3>2. past.overtaken \subseteq overtaken
      OBVIOUS
    <3> HIDE DEF sets, overtaken
    <3> QED  BY <1>p, <3>1, <3>2 DEF History
  <2>4. ASSUME ClearTOTP(r), u \in past.overtaken PROVE u \in past'.overtaken
    <3>1. u # req[r].u
      BY <2>4, Enrolling
    <3>2. past'.overtaken = past.overtaken \ {req[r].u}
      BY <1>p, <2>4 DEF ClearTOTP, History
    <3> QED  BY <2>4, <3>1, <3>2
  <2> QED  BY <2>1, <2>2, <2>3, <2>4
<1>2. ASSUME users[u].state = "live", SameSecret(u)
      PROVE  users'[u].secret \in past'.confirmed \/ u \in past'.overtaken
  <2>1. users[u].secret \in past.confirmed \/ u \in past.overtaken
    BY <1>2 DEF EnrolInv, SecretsInv, Live, SameSecret
  <2> QED  BY <1>0, <1>1, <1>2, <2>1 DEF SameSecret
<1>3. Changed(r, u)
  BY Changing
<1>4. CASE users'[u] = users[u]
  BY <1>2, <1>4 DEF SameSecret
<1>5. CASE Rewritten(r, u) /\ users'[u] # users[u]
  <2>1. u = req[r].u /\ users[u].state = "live"
    BY <1>5 DEF Rewritten
  <2>2. SameSecret(u) \/ SetTOTPSecret(r) \/ SetTOTPEnabled(r) \/ ClearTOTP(r)
    BY <1>5 DEF Rewritten
  <2> QED  BY <1>2, <1>5, <2>1, <2>2, Enrolling
<1> QED  BY <1>3, <1>4, <1>5 DEF Changed, Live

LEMMA EnrolHolds == Spec => []EnrolInv
<1>1. ASSUME TypeInv, EnrolInv, [Next]_vars PROVE EnrolInv'
  <2>1. ASSUME Lapse \/ Restart \/ (\E t \in stash : ExchangeNativeCode(t)) \/ UNCHANGED vars PROVE EnrolInv'
    <3>1. users' = users /\ codes' = codes /\ past'.confirmed = past.confirmed /\ past'.overtaken = past.overtaken
      BY <1>1, <2>1, Elsewhere
    <3> QED  BY <1>1, <3>1 DEF EnrolInv, CodesInv, SecretsInv, Live
  <2> QED  BY <1>1, <2>1, CodesKeep, SecretsKeep DEF Next, EnrolInv
<1> QED  BY EnrolInit, TypesHold, <1>1, PTL DEF Spec

\* Two-factor is on only with a secret whose code was entered, and recovery codes are those of
\* an account that has it on, but for an enrolment overtaken by another one: SetupTOTP and
\* EnableTOTP check before they write (totp.go).
THEOREM SecretsWereConfirmed == Spec => []EnrolmentConfirmed
<1>1. EnrolInv => EnrolmentConfirmed
  BY DEF EnrolInv, CodesInv, SecretsInv, EnrolmentConfirmed
<1> QED  BY EnrolHolds, <1>1, PTL

-------------------------------------------------------------------------------
(* Identities and accounts.                                                              *)

\* An identity whose account was never given another one is that account's for as long as the
\* account lives.
HomesInv ==
    \A i \in Identities, u \in Users : i \notin past.unlinked /\ <<i, u>> \in past.homes =>
        users[u].state # "none" /\ (Live(u) => users[u].sub = i)

\* A sign-in reaches the account that has the identity.
LEMMA Homing ==
    ASSUME TypeInv, NEW r \in Reqs, Begin(r) \/ Step(r),
           NEW i \in Identities, NEW u \in Users, <<i, u>> \in past'.homes, <<i, u>> \notin past.homes
    PROVE  users'[u].state = "live" /\ users'[u].sub = i
<1>0. /\ users \in [Users -> Account] /\ past \in History(past.spent)
      /\ req[r] \in Request /\ Fits(req[r], letters, sessions, tokens, past.confirmed)
  BY DEF TypeInv, RequestsOK, UsersOK, PastOK
<1>1. past' # past
  OBVIOUS
<1>2. ASSUME NEW j, NEW v \in WithSub(j), past' = [past EXCEPT !.homes = @ \cup {<<j, v>>}], users' = users
      PROVE  users'[u].state = "live" /\ users'[u].sub = i
  <2>1. <<i, u>> = <<j, v>>
    BY <1>0, <1>2 DEF History
  <2> QED  BY <1>2, <2>1 DEF WithSub, Live
<1>3. ASSUME NEW op, NEW j, getByProviderID(r, op, j) PROVE users'[u].state = "live" /\ users'[u].sub = i
  <2>1. users' = users
    BY <1>3 DEF getByProviderID, db
  <2>2. \E v \in WithSub(j) : past' = [past EXCEPT !.homes = @ \cup {<<j, v>>}]
    BY <1>1, <1>3 DEF getByProviderID
  <2> QED  BY <1>2, <2>1, <2>2
<1>4. CASE rereadOAuthUser(r)
  <2>1. users' = users
    BY <1>4 DEF rereadOAuthUser, db
  <2>2. \E v \in WithSub(req[r].who) : past' = [past EXCEPT !.homes = @ \cup {<<req[r].who, v>>}]
    BY <1>1, <1>4 DEF rereadOAuthUser, Resolved
  <2> QED  BY <1>2, <2>1, <2>2
<1>5. CASE linkProviderID(r)
  <2> DEFINE v == req[r].u
             j == req[r].who
             homes == past.homes \cup {<<j, v>>}
             proven == past.proven \cup {<<v, EmailOf[j]>>}
             unlinked == past.unlinked \cup ({users[v].sub} \ {None, j})
             slipped == IF users[v].email # EmailOf[j] THEN past.slipped \cup {v} ELSE past.slipped
  <2>1. /\ past' = [past EXCEPT !.homes = homes, !.unlinked = unlinked, !.proven = proven, !.slipped = slipped]
        /\ users' = [users EXCEPT ![v].sub = j, ![v].verified = TRUE]
        /\ users[v].state = "live"
    BY <1>1, <1>5 DEF linkProviderID, Live
  <2>2. <<i, u>> \in homes => i = j /\ u = v
    BY Zenon
  <2> HIDE DEF homes, proven, unlinked, slipped
  <2>3. past'.homes = homes
    BY <1>0, <2>1 DEF History
  <2>4. i = j /\ u = v
    BY <2>2, <2>3
  <2> HIDE DEF j, v
  <2>5. users'[u] = [users[u] EXCEPT !.sub = i, !.verified = TRUE]
    BY <1>0, <2>1, <2>4
  <2>6. users[u] \in Account
    BY <1>0
  <2>7. users'[u].sub = i /\ users'[u].state = users[u].state
    BY <2>5, <2>6 DEF Account
  <2> QED  BY <2>1, <2>4, <2>7
<1>6. ASSUME NEW v \in Users, createOAuthUser(r, v) PROVE users'[u].state = "live" /\ users'[u].sub = i
  <2> DEFINE j == req[r].who
             homes == past.homes \cup {<<j, v>>}
             proven == past.proven \cup {<<v, EmailOf[j]>>}
  <2>1. users' = [users EXCEPT ![v] = OAuthAccount(j)] /\ past' = [past EXCEPT !.homes = homes, !.proven = proven]
    BY <1>1, <1>6 DEF createOAuthUser
  <2>2. <<i, u>> \in homes => i = j /\ u = v
    BY Zenon
  <2> HIDE DEF homes, proven
  <2>3. past'.homes = homes
    BY <1>0, <2>1 DEF History
  <2>4. i = j /\ u = v
    BY <2>2, <2>3
  <2>5. users'[u] = OAuthAccount(i)
    BY <1>0, <2>1, <2>4
  <2> QED  BY <2>5 DEF OAuthAccount, NoAccount
<1>7. \/ past'.homes = past.homes \/ linkProviderID(r) \/ rereadOAuthUser(r)
      \/ (\E v \in Users : createOAuthUser(r, v))
      \/ \E op \in {"LoginOAuth", "LoginOAuthNative"}, j \in Identities : getByProviderID(r, op, j)
  BY Recording DEF Recorded
<1> QED  BY <1>3, <1>4, <1>5, <1>6, <1>7

LEMMA HomesKeep ==
    ASSUME TypeInv, HomesInv, NEW r \in Reqs, Begin(r) \/ Step(r)
    PROVE  HomesInv'
<1>0. /\ users \in [Users -> Account] /\ past \in History(past.spent)
      /\ req[r] \in Request /\ Fits(req[r], letters, sessions, tokens, past.confirmed)
  BY DEF TypeInv, RequestsOK, UsersOK, PastOK
<1> SUFFICES ASSUME NEW i \in Identities, NEW u \in Users, i \notin past'.unlinked, <<i, u>> \in past'.homes
             PROVE  users'[u].state # "none" /\ (users'[u].state = "live" => users'[u].sub = i)
  BY DEF HomesInv, Live
<1>1. CASE <<i, u>> \notin past.homes
  BY <1>1, Homing
<1>2. CASE <<i, u>> \in past.homes
  <2>1. i \notin past.unlinked
    BY Recording DEF Recorded
  <2>2. users[u].state # "none" /\ (users[u].state = "live" => users[u].sub = i)
    BY <1>2, <2>1 DEF HomesInv, Live
  <2>3. Changed(r, u)
    BY Changing
  <2>4. CASE users'[u] = users[u]
    BY <2>2, <2>4
  <2>5. CASE Rewritten(r, u) /\ users'[u] # users[u]
    <3>1. u = req[r].u /\ users'[u].state = users[u].state
      BY <2>5 DEF Rewritten
    <3>2. users'[u].sub = users[u].sub \/ linkProviderID(r)
      BY <2>5 DEF Rewritten, SameNamed
    <3>3. ASSUME linkProviderID(r), users[u].sub = i PROVE users'[u].sub = i
      <4> DEFINE j == req[r].who
                 homes == past.homes \cup {<<j, u>>}
                 proven == past.proven \cup {<<u, EmailOf[j]>>}
                 unlinked == past.unlinked \cup ({users[u].sub} \ {None, j})
                 slipped == IF users[u].email # EmailOf[j] THEN past.slipped \cup {u} ELSE past.slipped
      <4>1. /\ past' = [past EXCEPT !.homes = homes, !.unlinked = unlinked, !.proven = proven, !.slipped = slipped]
            /\ users' = [users EXCEPT ![u].sub = j, ![u].verified = TRUE]
        BY <2>5, <3>1, <3>3 DEF linkProviderID
      <4>2. i = j \/ i \in unlinked
        BY <3>3, AccountsAssumption
      <4> HIDE DEF homes, proven, unlinked, slipped, j
      <4>3. i = j
        BY <1>0, <4>1, <4>2 DEF History
      <4>4. users'[u] = [users[u] EXCEPT !.sub = i, !.verified = TRUE] /\ users[u] \in Account
        BY <1>0, <4>1, <4>3
      <4> QED  BY <4>4 DEF Account
    <3> QED  BY <2>2, <3>1, <3>2, <3>3
  <2> QED  BY <2>2, <2>3, <2>4, <2>5 DEF Changed, Live
<1> QED  BY <1>1, <1>2

LEMMA HomesHold == Spec => []HomesInv
<1>1. Init => HomesInv
  BY DEF Init, HomesInv
<1>2. ASSUME TypeInv, HomesInv, [Next]_vars PROVE HomesInv'
  <2>1. ASSUME Lapse \/ Restart \/ (\E t \in stash : ExchangeNativeCode(t)) \/ UNCHANGED vars PROVE HomesInv'
    <3>1. users' = users /\ past'.homes = past.homes /\ past'.unlinked = past.unlinked
      BY <1>2, <2>1, Elsewhere
    <3> QED  BY <1>2, <3>1 DEF HomesInv, Live
  <2> QED  BY <1>2, <2>1, HomesKeep DEF Next
<1> QED  BY <1>1, TypesHold, <1>2, PTL DEF Spec

\* One identity reaches one account, however many of its first sign-ins run together: the
\* unique index on the provider's id lets one insert win and the others read its row back
\* (auth_oauth.go:146).
THEOREM OneHome == Spec => []SameAccount
<1>1. ASSUME TypeInv, HomesInv PROVE SameAccount
  <2> SUFFICES ASSUME NEW i \in Identities \ past.unlinked, NEW u \in Users, NEW v \in Users,
                      <<i, u>> \in past.homes, <<i, v>> \in past.homes, Live(u), Live(v), u # v
               PROVE  FALSE
    BY DEF SameAccount
  <2>1. users[u].sub = i /\ users[v].sub = i
    BY <1>1 DEF HomesInv
  <2>2. i # None
    BY AccountsAssumption
  <2> QED  BY <1>1, <2>1, <2>2 DEF TypeInv, UsersOK, Unique
<1> QED  BY TypesHold, HomesHold, <1>1, PTL

-------------------------------------------------------------------------------
(* The quota of tokens.                                                                  *)

ToRevoke(q)  == {q.victims[i] : i \in DOMAIN q.victims}
Unexcused(u) == {t \in ActiveTokens(u) : ~tokens[t].excused}

\* A request past its count finds room, or makes it, unless it is excused: whoever creates a
\* token in between excuses it.
RoomFor(q) == LET held == ActiveTokens(q.u) IN
    /\ q.pc = "token" => Cardinality(held) < MaxPATsPerUser
    /\ q.pc = "list"  => Cardinality(held) <= q.count
    /\ q.pc = "prune" => Cardinality(held \ ToRevoke(q)) < MaxPATsPerUser

WithinQuota == \A u \in Users : Cardinality(Unexcused(u)) <= MaxPATsPerUser
RoomMade    == \A r \in Reqs : req[r].excused \/ RoomFor(req[r])
QuotaInv    == WithinQuota /\ RoomMade

\* The tokens that count against the quota are some of the active ones.
LEMMA UnexcusedFinite ==
    ASSUME TypeInv, NEW u
    PROVE  /\ IsFiniteSet(ActiveTokens(u)) /\ Cardinality(ActiveTokens(u)) \in Nat
           /\ IsFiniteSet(Unexcused(u)) /\ Cardinality(Unexcused(u)) \in Nat
           /\ Cardinality(Unexcused(u)) <= Cardinality(ActiveTokens(u))
<1>1. IsFiniteSet(ActiveTokens(u)) /\ Unexcused(u) \in SUBSET ActiveTokens(u)
  BY ActiveFinite DEF Unexcused
<1> QED  BY <1>1, FS_Subset, FS_CardinalityType

\* A smaller set has no more elements.
LEMMA Fewer ==
    ASSUME NEW S, IsFiniteSet(S), NEW T, T \subseteq S
    PROVE  /\ IsFiniteSet(T) /\ Cardinality(T) \in Nat /\ Cardinality(S) \in Nat
           /\ Cardinality(T) <= Cardinality(S)
  BY FS_Subset, FS_CardinalityType

LEMMA UpTo ==
    ASSUME NEW n \in Nat
    PROVE  IsFiniteSet(1 .. n) /\ Cardinality(1 .. n) = n
  BY FS_Interval

\* Revoking the oldest few leaves the others.
LEMMA OldestGone ==
    ASSUME NEW S, S \subseteq Nat, IsFiniteSet(S), NEW n \in Nat, NEW v \in Oldest(S, n)
    PROVE  /\ Len(v) = IF n < Cardinality(S) THEN n ELSE Cardinality(S)
           /\ Cardinality(S \ {v[i] : i \in DOMAIN v}) = Cardinality(S) - Len(v)
<1> DEFINE R == {v[i] : i \in DOMAIN v}
           len == Len(v)
<1>1. v \in Seq(S) /\ len \in Nat /\ DOMAIN v = 1 .. len /\ Len(v) = IF n < Cardinality(S) THEN n ELSE Cardinality(S)
  BY OldestType, LenProperties
<1>2. \A i, j \in 1 .. len : i < j => v[i] < v[j]
  BY <1>1 DEF Oldest
<1>3. \A i \in 1 .. len : v[i] \in Nat /\ v[i] \in S
  <2>1. \A i \in DOMAIN v : v[i] \in S
    BY <1>1, RowIn
  <2> QED  BY <1>1, <2>1
<1>4. v \in Surjection(1 .. len, R)
  <2>1. v \in [1 .. len -> R]
    BY <1>1
  <2> QED  BY <1>1, <2>1 DEF Surjection
<1>5. v \in Injection(1 .. len, R)
  <2>1. \A i, j \in 1 .. len : v[i] = v[j] => i = j
    BY <1>1, <1>2, <1>3
  <2>2. v \in [1 .. len -> R]
    BY <1>1
  <2> QED  BY <2>1, <2>2 DEF Injection, IsInjective
<1> HIDE DEF len
<1>6. IsFiniteSet(1 .. len) /\ Cardinality(1 .. len) = len
  BY <1>1, UpTo
<1>7. IsFiniteSet(R) /\ Cardinality(R) = len
  BY <1>4, <1>5, <1>6, FS_Surjection
<1>8. R \subseteq S
  BY <1>1, <1>3
<1> HIDE DEF R
<1>9. IsFiniteSet(S \ R) /\ Cardinality(S \ R) \in Nat /\ Cardinality(S) \in Nat
  BY Fewer
<1>10. (S \ R) \cup R = S /\ (S \ R) \cap R = {}
  BY <1>8
<1>11. Cardinality((S \ R) \cup R) = Cardinality(S \ R) + Cardinality(R) - Cardinality((S \ R) \cap R)
  BY <1>7, <1>9, FS_Union
<1>12. Cardinality(S) = Cardinality(S \ R) + len - 0
  BY <1>7, <1>10, <1>11, FS_EmptySet
<1>13. Cardinality(S \ R) = Cardinality(S) - len
  BY <1>1, <1>9, <1>12
<1> QED  BY <1>1, <1>13 DEF R, len

LEMMA QuotaInit == Init => QuotaInv
<1> SUFFICES ASSUME Init PROVE QuotaInv
  OBVIOUS
<1>1. PICK s \in Scenarios :
        tokens = [t \in 1 .. s.tokens |->
                    [u |-> Owner, kind |-> IF t = 1 THEN "device" ELSE "pat", excused |-> FALSE, active |-> TRUE]]
  BY DEF Init
<1>2. s.tokens \in Nat /\ s.tokens <= MaxPATsPerUser /\ MaxPATsPerUser \in Nat
  BY AccountsAssumption
<1>3. IsFiniteSet(1 .. s.tokens) /\ Cardinality(1 .. s.tokens) = s.tokens
  BY <1>2, UpTo
<1>4. WithinQuota
  <2> SUFFICES ASSUME NEW u \in Users PROVE Cardinality(Unexcused(u)) <= MaxPATsPerUser
    BY DEF WithinQuota
  <2>1. Unexcused(u) \subseteq 1 .. s.tokens
    BY <1>1 DEF Unexcused, ActiveTokens
  <2>2. Cardinality(Unexcused(u)) <= s.tokens /\ Cardinality(Unexcused(u)) \in Nat
    BY <1>3, <2>1, Fewer
  <2> QED  BY <1>2, <2>2
<1>5. RoomMade
  <2>1. \A r \in Reqs : req[r] = Idle
    BY DEF Init
  <2> QED  BY <2>1, IdleFits DEF RoomMade, RoomFor
<1> QED  BY <1>4, <1>5 DEF QuotaInv

\* Room that is left stays while no token is created.
LEMMA RoomStays ==
    ASSUME TypeInv, DOMAIN tokens' = DOMAIN tokens, SameTokens(tokens, tokens')
    PROVE  /\ \A u : ActiveTokens(u)' \subseteq ActiveTokens(u) /\ Unexcused(u)' \subseteq Unexcused(u)
           /\ WithinQuota => WithinQuota'
           /\ \A r \in Reqs : req'[r] = req[r] /\ RoomFor(req[r]) => RoomFor(req[r])'
<1>1. \A t \in DOMAIN tokens : tokens[t] \in Token
  BY RowTypes
<1>2. \A u : ActiveTokens(u)' \subseteq ActiveTokens(u) /\ Unexcused(u)' \subseteq Unexcused(u)
  BY <1>1 DEF ActiveTokens, Unexcused, SameTokens, Token
<1>3. MaxPATsPerUser \in Nat
  BY AccountsAssumption
<1>4. WithinQuota => WithinQuota'
  <2> SUFFICES ASSUME WithinQuota, NEW u \in Users PROVE Cardinality(Unexcused(u)') <= MaxPATsPerUser
    BY DEF WithinQuota
  <2>1. /\ Cardinality(Unexcused(u)') <= Cardinality(Unexcused(u))
        /\ Cardinality(Unexcused(u)') \in Nat /\ Cardinality(Unexcused(u)) \in Nat
    BY <1>2, UnexcusedFinite, Fewer
  <2>2. Cardinality(Unexcused(u)) <= MaxPATsPerUser
    BY DEF WithinQuota
  <2> QED  BY <1>3, <2>1, <2>2
<1>5. ASSUME NEW r \in Reqs, req'[r] = req[r], RoomFor(req[r]) PROVE RoomFor(req[r])'
  <2>1. PICK q : q = req[r]
    OBVIOUS
  <2> DEFINE old == ActiveTokens(q.u)
             new == ActiveTokens(q.u)'
             gone == ToRevoke(q)
  <2>2. new \subseteq old /\ IsFiniteSet(old)
    BY <1>2, UnexcusedFinite
  <2>3. new \ gone \subseteq old \ gone /\ old \ gone \subseteq old
    BY <2>2
  <2>4. /\ q.pc = "token" => Cardinality(old) < MaxPATsPerUser
        /\ q.pc = "list" => Cardinality(old) <= q.count
        /\ q.pc = "prune" => Cardinality(old \ gone) < MaxPATsPerUser
    BY <1>5, <2>1 DEF RoomFor
  <2>5. q.count \in Nat
    BY <2>1 DEF TypeInv, RequestsOK, Request
  <2> HIDE DEF old, new, gone
  <2>6. IsFiniteSet(old \ gone) /\ Cardinality(new) <= Cardinality(old) /\ Cardinality(new \ gone) <= Cardinality(old \ gone)
    BY <2>2, <2>3, Fewer
  <2>7. Cardinality(new) \in Nat /\ Cardinality(old) \in Nat /\ Cardinality(new \ gone) \in Nat /\ Cardinality(old \ gone) \in Nat
    BY <2>2, <2>3, <2>6, Fewer
  <2>8. /\ q.pc = "token" => Cardinality(new) < MaxPATsPerUser
        /\ q.pc = "list" => Cardinality(new) <= q.count
        /\ q.pc = "prune" => Cardinality(new \ gone) < MaxPATsPerUser
    BY <1>3, <2>4, <2>5, <2>6, <2>7
  <2>9. RoomFor(q)'
    BY <2>8 DEF RoomFor, old, new, gone, ToRevoke
  <2> QED  BY <1>5, <2>1, <2>9
<1> QED  BY <1>2, <1>4, <1>5

\* A token that is created was counted for, and who counted before it is excused.
LEMMA QuotaCreate ==
    ASSUME TypeInv, QuotaInv, NEW r \in Reqs, CreateAPIToken(r), Live(req[r].u)
    PROVE  QuotaInv'
<1> DEFINE u == req[r].u
           n == Len(tokens')
           row == [u |-> u, kind |-> IF req[r].op = "CreateToken" THEN "pat" ELSE "device",
                   excused |-> req[r].excused, active |-> TRUE]
           counted(q) == q # r /\ req[q].u = u /\ req[q].pc \in {"list", "prune", "token"}
<1>0. /\ tokens \in Seq(Token) /\ req \in [Reqs -> Request] /\ req[r] \in Request /\ At(r, "token")
      /\ Fits(req[r], letters, sessions, tokens, past.confirmed)
  BY DEF TypeInv, TablesOK, RequestsOK, CreateAPIToken
<1>1. u \in Users /\ req[r].excused \in BOOLEAN /\ MaxPATsPerUser \in Nat
  BY <1>0, AccountsAssumption DEF At, Fits, Request
<1>2. row \in Token /\ row.u = u /\ row.active = TRUE /\ row.excused = req[r].excused
  BY <1>1 DEF Token
<1>3. tokens' = Append(tokens, row)
  BY DEF CreateAPIToken
<1> HIDE DEF row
<1>4. /\ n \notin DOMAIN tokens /\ DOMAIN tokens' = DOMAIN tokens \cup {n} /\ tokens'[n] = row
      /\ \A t \in DOMAIN tokens : tokens'[t] = tokens[t]
  BY <1>0, <1>2, <1>3, NewToken
<1>5. \A q \in Reqs : req'[q] = IF counted(q) THEN [req[q] EXCEPT !.excused = TRUE]
                                ELSE IF q # r THEN req[q]
                                ELSE IF req[r].op = "LoginOAuthNative"
                                       THEN [req[r] EXCEPT !.pc = "stash", !.id = n]
                                ELSE Idle
  BY DEF CreateAPIToken
<1>6. PICK v \in Users : v = req[r].u
  BY <1>1
<1>7. PICK m : m = n
  OBVIOUS
<1> HIDE DEF u, n
<1>8. /\ \A w : w # v => ActiveTokens(w)' = ActiveTokens(w) /\ Unexcused(w)' = Unexcused(w)
      /\ Unexcused(v)' = IF req[r].excused THEN Unexcused(v) ELSE Unexcused(v) \cup {m}
  <2>1. \A t \in DOMAIN tokens' : t = m \/ (t \in DOMAIN tokens /\ tokens'[t] = tokens[t])
    BY <1>4, <1>7
  <2>2. m \in DOMAIN tokens' /\ tokens'[m].u = v /\ tokens'[m].active /\ tokens'[m].excused = req[r].excused
    BY <1>2, <1>4, <1>6, <1>7 DEF u
  <2>3. \A t \in DOMAIN tokens : t \in DOMAIN tokens' /\ t # m
    BY <1>4, <1>7
  <2>4. \A w : w # v => ActiveTokens(w)' = ActiveTokens(w)
    BY <2>1, <2>2, <2>3 DEF ActiveTokens
  <2>5. \A w : w # v => Unexcused(w)' = Unexcused(w)
    <3> SUFFICES ASSUME NEW w, w # v PROVE Unexcused(w)' = Unexcused(w)
      OBVIOUS
    <3>1. \A t \in ActiveTokens(w) : tokens'[t] = tokens[t]
      BY <2>1, <2>3 DEF ActiveTokens
    <3> QED  BY <2>4, <3>1 DEF Unexcused
  <2>6. ActiveTokens(v)' = ActiveTokens(v) \cup {m}
    BY <2>1, <2>2, <2>3 DEF ActiveTokens
  <2>7. \A t \in ActiveTokens(v) : tokens'[t] = tokens[t]
    BY <2>1, <2>3 DEF ActiveTokens
  <2>8. Unexcused(v)' = IF req[r].excused THEN Unexcused(v) ELSE Unexcused(v) \cup {m}
    BY <1>1, <2>2, <2>6, <2>7 DEF Unexcused
  <2> QED  BY <2>4, <2>5, <2>8
<1>9. WithinQuota'
  <2> SUFFICES ASSUME NEW w \in Users PROVE Cardinality(Unexcused(w)') <= MaxPATsPerUser
    BY DEF WithinQuota
  <2>1. Cardinality(Unexcused(w)) <= MaxPATsPerUser
    BY DEF QuotaInv, WithinQuota
  <2>2. CASE w # v \/ req[r].excused
    BY <1>8, <2>1, <2>2
  <2>3. CASE w = v /\ ~req[r].excused
    <3>1. Cardinality(ActiveTokens(v)) < MaxPATsPerUser
      BY <1>0, <1>6, <2>3 DEF QuotaInv, RoomMade, RoomFor, At
    <3> DEFINE some == Cardinality(Unexcused(v))
    <3>2. some <= Cardinality(ActiveTokens(v)) /\ some \in Nat /\ Cardinality(ActiveTokens(v)) \in Nat
          /\ IsFiniteSet(Unexcused(v))
      BY UnexcusedFinite
    <3>3. Cardinality(Unexcused(v) \cup {m}) \in {some, some + 1}
      BY <3>2, FS_AddElement
    <3>4. Unexcused(w)' = Unexcused(v) \cup {m}
      BY <1>8, <2>3
    <3> HIDE DEF some
    <3> QED  BY <1>1, <3>1, <3>2, <3>3, <3>4
  <2> QED  BY <2>2, <2>3
<1>10. RoomMade'
  <2> SUFFICES ASSUME NEW q \in Reqs PROVE req'[q].excused \/ RoomFor(req[q])'
    BY DEF RoomMade
  <2>0. req[q] \in Request /\ Fits(req[q], letters, sessions, tokens, past.confirmed)
    BY DEF TypeInv, RequestsOK
  <2>1. CASE counted(q)
    <3>1. req'[q] = [req[q] EXCEPT !.excused = TRUE]
      BY <1>5, <2>1
    <3> QED  BY <2>0, <3>1 DEF Request
  <2>2. CASE q = r
    <3>1. req'[q] = [req[r] EXCEPT !.pc = "stash", !.id = n] \/ req'[q] = Idle
      BY <1>5, <2>2
    <3>2. req'[q].pc \notin {"token", "list", "prune"}
      BY <1>0, <3>1, IdleFits DEF Request
    <3> QED  BY <3>2 DEF RoomFor
  <2>3. CASE q # r /\ ~counted(q)
    <3>1. req'[q] = req[q]
      BY <1>5, <2>3
    <3>2. PICK x : x = req[q]
      OBVIOUS
    <3>3. x.excused \/ RoomFor(x)
      BY <3>2 DEF QuotaInv, RoomMade
    <3>4. x.pc \notin {"token", "list", "prune"} \/ x.u # v
      BY <1>6, <2>3, <3>2 DEF u
    <3>5. x.pc \in {"token", "list", "prune"} => ActiveTokens(x.u)' = ActiveTokens(x.u)
      BY <1>8, <3>4
    <3>6. x.excused \/ RoomFor(x)'
      BY <3>3, <3>5 DEF RoomFor, ToRevoke
    <3>7. RoomFor(x)' = RoomFor(req[q])'
      BY <3>1, <3>2
    <3> QED  BY <3>1, <3>2, <3>6, <3>7
  <2> QED  BY <2>1, <2>2, <2>3
<1> QED  BY <1>9, <1>10 DEF QuotaInv

\* Tokens are added by CreateAPIToken only.
LEMMA TokensLeft ==
    ASSUME TypeInv, NEW r \in Reqs, Begin(r) \/ Step(r)
    PROVE  DOMAIN tokens' = DOMAIN tokens \/ (CreateAPIToken(r) /\ Live(req[r].u))
<1>1. UNCHANGED tokens \/ TokensWritten(r)
  BY Writers DEF Written
<1>2. ASSUME Revoke(r) \/ DeleteAccount(r) \/ PruneToken(r) PROVE DOMAIN tokens' = DOMAIN tokens
  BY <1>2 DEF Revoke, DeleteAccount, PruneToken
<1>3. ASSUME CreateAPIToken(r), ~Live(req[r].u) PROVE DOMAIN tokens' = DOMAIN tokens
  BY <1>3 DEF CreateAPIToken
<1> QED  BY <1>1, <1>2, <1>3 DEF TokensWritten

\* The minting of a token: a count below the quota, or the oldest revoked until there is room.
LEMMA RoomCounted ==
    ASSUME TypeInv, NEW r \in Reqs, CreateToken(r) \/ CountActiveTokens(r)
    PROVE  req'[r].excused \/ RoomFor(req[r])'
<1> DEFINE u == req[r].u
           held == ActiveTokens(u)
           n == Cardinality(held)
<1>0. req \in [Reqs -> Request] /\ req[r] \in Request /\ MaxPATsPerUser \in Nat
  BY AccountsAssumption DEF TypeInv, RequestsOK
<1>1. tokens' = tokens
  BY DEF CreateToken, CountActiveTokens, db
<1>2. n \in Nat
  BY UnexcusedFinite
<1>3. \A w : ActiveTokens(w)' = ActiveTokens(w)
  BY <1>1 DEF ActiveTokens
<1>4. CASE CreateToken(r)
  <2>1. Done(r) \/ (Goto(r, "token") /\ ~(n >= MaxPATsPerUser))
    BY <1>4 DEF CreateToken
  <2>2. CASE Done(r)
    <3>1. req'[r].pc = ""
      BY <1>0, <2>2, IdleFits DEF Done
    <3> QED  BY <3>1 DEF RoomFor
  <2>3. CASE Goto(r, "token") /\ ~(n >= MaxPATsPerUser)
    <3>1. req'[r].pc = "token" /\ req'[r].u = u
      BY <1>0, <2>3 DEF Goto, Request
    <3>2. n < MaxPATsPerUser
      BY <1>0, <1>2, <2>3
    <3>3. Cardinality(ActiveTokens(req[r].u)') < MaxPATsPerUser
      BY <1>3, <3>1, <3>2
    <3> QED  BY <3>1, <3>3 DEF RoomFor
  <2> QED  BY <2>1, <2>2, <2>3
<1>5. CASE CountActiveTokens(r)
  <2>1. \/ req' = [req EXCEPT ![r] = [req[r] EXCEPT !.pc = IF n >= MaxPATsPerUser THEN "list" ELSE "token", !.count = n]]
        \/ req' = [req EXCEPT ![r] = [req[r] EXCEPT !.pc = "token", !.excused = TRUE]]
    BY <1>0, <1>5 DEF CountActiveTokens
  <2> HIDE DEF n
  <2>2. CASE req' = [req EXCEPT ![r] = [req[r] EXCEPT !.pc = "token", !.excused = TRUE]]
    <3>1. req'[r] = [req[r] EXCEPT !.pc = "token", !.excused = TRUE]
      BY <1>0, <2>2
    <3> QED  BY <1>0, <3>1 DEF Request
  <2>3. CASE req' = [req EXCEPT ![r] = [req[r] EXCEPT !.pc = IF n >= MaxPATsPerUser THEN "list" ELSE "token", !.count = n]]
    <3>1. req'[r] = [req[r] EXCEPT !.pc = IF n >= MaxPATsPerUser THEN "list" ELSE "token", !.count = n]
      BY <1>0, <2>3
    <3>2. /\ req'[r].pc = IF n >= MaxPATsPerUser THEN "list" ELSE "token"
          /\ req'[r].u = u /\ req'[r].count = n
      BY <1>0, <3>1 DEF Request
    <3>3. PICK m : m = n
      OBVIOUS
    <3>4. \/ req'[r].pc = "list" /\ Cardinality(ActiveTokens(req[r].u)') <= req'[r].count
          \/ req'[r].pc = "token" /\ Cardinality(ActiveTokens(req[r].u)') < MaxPATsPerUser
      <4>1. m \in Nat /\ req'[r].count = m
        BY <1>2, <3>2, <3>3
      <4>2. Cardinality(ActiveTokens(req[r].u)') = m
        BY <3>2, <1>3, <3>3 DEF n
      <4>3. CASE m >= MaxPATsPerUser
        BY <1>0, <3>2, <3>3, <4>1, <4>2, <4>3
      <4>4. CASE ~(m >= MaxPATsPerUser)
        <5>1. m < MaxPATsPerUser
          BY <1>0, <4>1, <4>4
        <5> QED  BY <3>2, <3>3, <4>2, <4>4, <5>1
      <4> QED  BY <4>3, <4>4
    <3> QED  BY <3>4 DEF RoomFor
  <2> QED  BY <2>1, <2>2, <2>3
<1> QED  BY <1>4, <1>5

\* How much is left of so many tokens when so many were counted.
LEMMA Remainder ==
    ASSUME NEW size \in Nat, NEW count \in Nat, NEW max \in Nat \ {0}, count >= max, size <= count
    PROVE  size - (IF count - max + 1 < size THEN count - max + 1 ELSE size) < max
  OBVIOUS

LEMMA RoomListed ==
    ASSUME TypeInv, QuotaInv, NEW r \in Reqs, ListTokens(r)
    PROVE  req'[r].excused \/ RoomFor(req[r])'
<1> DEFINE u == req[r].u
           held == ActiveTokens(u)
           size == Cardinality(held)
           count == req[r].count
           n == count - MaxPATsPerUser + 1
<1>0. /\ req \in [Reqs -> Request] /\ req[r] \in Request /\ At(r, "list")
      /\ Fits(req[r], letters, sessions, tokens, past.confirmed) /\ MaxPATsPerUser \in Nat \ {0}
  BY AccountsAssumption DEF TypeInv, RequestsOK, ListTokens
<1>1. tokens' = tokens
  BY DEF ListTokens, db
<1>2. size \in Nat /\ IsFiniteSet(held)
  BY UnexcusedFinite
<1>3. count \in Nat /\ count >= MaxPATsPerUser
  BY <1>0 DEF At, Fits, Request
<1>4. n \in Nat
  BY <1>0, <1>3, Difference
<1>5. held \subseteq Nat
  <2>1. DOMAIN tokens \subseteq Nat
    BY RowIn DEF TypeInv, TablesOK
  <2> QED  BY <2>1 DEF ActiveTokens
<1>6. \/ \E v \in Oldest(held, n) : req' = [req EXCEPT ![r] = [req[r] EXCEPT !.pc = IF v = <<>> THEN "token" ELSE "prune", !.victims = v]]
      \/ req' = [req EXCEPT ![r] = [req[r] EXCEPT !.pc = "token", !.excused = TRUE]]
  BY <1>0 DEF ListTokens
<1>7. CASE req' = [req EXCEPT ![r] = [req[r] EXCEPT !.pc = "token", !.excused = TRUE]]
  <2>1. req'[r] = [req[r] EXCEPT !.pc = "token", !.excused = TRUE]
    BY <1>0, <1>7
  <2> QED  BY <1>0, <2>1 DEF Request
<1>8. ASSUME NEW v \in Oldest(held, n), ~req[r].excused,
             req' = [req EXCEPT ![r] = [req[r] EXCEPT !.pc = IF v = <<>> THEN "token" ELSE "prune", !.victims = v]]
      PROVE  RoomFor(req[r])'
  <2>1. req'[r] = [req[r] EXCEPT !.pc = IF v = <<>> THEN "token" ELSE "prune", !.victims = v]
    BY <1>0, <1>8
  <2>2. req'[r].pc = (IF v = <<>> THEN "token" ELSE "prune") /\ req'[r].u = u /\ req'[r].victims = v
    BY <1>0, <2>1 DEF Request
  <2>3. size <= count
    BY <1>0, <1>8 DEF QuotaInv, RoomMade, RoomFor, At
  <2> DEFINE gone == {v[i] : i \in DOMAIN v}
             len == Len(v)
  <2>4. len = (IF n < size THEN n ELSE size) /\ Cardinality(held \ gone) = size - len
    BY <1>2, <1>4, <1>5, <1>8, OldestGone, ZenonT(40)
  <2>5. Cardinality(held \ gone) < MaxPATsPerUser
    <3> HIDE DEF size, count, len, gone, held
    <3>1. size - (IF n < size THEN n ELSE size) < MaxPATsPerUser
      BY <1>0, <1>2, <1>3, <2>3, Remainder
    <3> QED  BY <2>4, <3>1
  <2>6. \A w : ActiveTokens(w)' = ActiveTokens(w)
    BY <1>1 DEF ActiveTokens
  <2>7. CASE v = <<>>
    <3>1. held \ gone = held
      BY <2>7
    <3>2. Cardinality(ActiveTokens(req[r].u)') < MaxPATsPerUser
      BY <2>2, <2>5, <2>6, <3>1
    <3> QED  BY <2>2, <2>7, <3>2 DEF RoomFor
  <2>8. CASE v # <<>>
    <3>1. ToRevoke(req[r])' = gone
      BY <2>2 DEF ToRevoke
    <3>2. Cardinality(ActiveTokens(req[r].u)' \ ToRevoke(req[r])') < MaxPATsPerUser
      BY <2>2, <2>5, <2>6, <3>1
    <3> QED  BY <2>2, <2>8, <3>2 DEF RoomFor
  <2> QED  BY <2>7, <2>8
<1>9. ASSUME NEW v, req[r].excused,
             req' = [req EXCEPT ![r] = [req[r] EXCEPT !.pc = IF v = <<>> THEN "token" ELSE "prune", !.victims = v]]
      PROVE  req'[r].excused
  <2>1. req'[r] = [req[r] EXCEPT !.pc = IF v = <<>> THEN "token" ELSE "prune", !.victims = v]
    BY <1>0, <1>9
  <2>2. req'[r].excused = req[r].excused
    BY <1>0, <2>1 DEF Request
  <2> QED  BY <1>9, <2>2
<1> HIDE DEF held, n
<1> QED  BY <1>6, <1>7, <1>8, <1>9

LEMMA RoomPruned ==
    ASSUME TypeInv, QuotaInv, NEW r \in Reqs, PruneToken(r)
    PROVE  req'[r].excused \/ RoomFor(req[r])'
<1> DEFINE v == req[r].victims
<1>0. /\ tokens \in Seq(Token) /\ req[r] \in Request /\ MaxPATsPerUser \in Nat
  BY AccountsAssumption DEF TypeInv, RequestsOK, TablesOK
<1>1. /\ At(r, "prune") /\ v \in Seq(Nat) /\ v # <<>> /\ \A i \in DOMAIN v : v[i] \in DOMAIN tokens
      /\ req'[r].u = req[r].u /\ req'[r].victims = Tail(v)
      /\ req'[r].pc = IF Len(v) = 1 THEN "token" ELSE "prune"
      /\ req'[r].excused \/ (~req[r].excused /\ tokens' = [tokens EXCEPT ![v[1]].active = FALSE])
  BY Pruning
<1> SUFFICES ASSUME ~req[r].excused, tokens' = [tokens EXCEPT ![v[1]].active = FALSE]
             PROVE  RoomFor(req[r])'
  BY <1>1
<1>2. PICK u : u = req[r].u
  OBVIOUS
<1> DEFINE old == ActiveTokens(u)
           new == ActiveTokens(u)'
           gone == ToRevoke(req[r])
           rest == ToRevoke(req[r])'
<1>3. /\ 1 \in DOMAIN v /\ (Len(v) # 1 <=> Tail(v) # <<>>)
      /\ \A i \in DOMAIN v : i # 1 => i - 1 \in DOMAIN Tail(v) /\ Tail(v)[i - 1] = v[i]
  BY <1>1, TailOf
<1>4. /\ DOMAIN tokens' = DOMAIN tokens /\ SameTokens(tokens, tokens') /\ ~tokens'[v[1]].active
      /\ \A x \in DOMAIN tokens \ {v[1]} : tokens'[x] = tokens[x]
  BY <1>0, <1>1, <1>3, OneToken
<1>5. new \subseteq old /\ v[1] \notin new
  BY <1>4, RoomStays DEF ActiveTokens
<1>6. gone \subseteq rest \cup {v[1]}
  <2>1. rest = {Tail(v)[i] : i \in DOMAIN Tail(v)}
    BY <1>1 DEF ToRevoke
  <2> SUFFICES ASSUME NEW i \in DOMAIN v PROVE v[i] \in rest \cup {v[1]}
    BY DEF ToRevoke
  <2>2. CASE i = 1
    BY <2>2
  <2>3. CASE i # 1
    <3>1. PICK j \in DOMAIN Tail(v) : Tail(v)[j] = v[i]
      BY <1>3, <2>3
    <3> QED  BY <2>1, <3>1
  <2> QED  BY <2>2, <2>3
<1>7. new \ rest \subseteq old \ gone
  BY <1>5, <1>6
<1>8. Cardinality(old \ gone) < MaxPATsPerUser /\ IsFiniteSet(old \ gone)
  <2>1. Cardinality(old \ gone) < MaxPATsPerUser
    BY <1>1, <1>2 DEF QuotaInv, RoomMade, RoomFor, At
  <2>2. IsFiniteSet(old) /\ old \ gone \subseteq old
    BY UnexcusedFinite
  <2> QED  BY <2>1, <2>2, Fewer
<1> HIDE DEF old, new, gone, rest
<1>9. Cardinality(new \ rest) < MaxPATsPerUser
  <2>1. /\ Cardinality(new \ rest) \in Nat /\ Cardinality(old \ gone) \in Nat
        /\ Cardinality(new \ rest) <= Cardinality(old \ gone)
    BY <1>7, <1>8, Fewer
  <2> QED  BY <1>0, <1>8, <2>1
<1>10. CASE Len(v) = 1
  <2>1. Tail(v) = <<>>
    BY <1>3, <1>10
  <2>2. rest = {}
    <3>1. req'[r].victims = <<>>
      BY <1>1, <2>1
    <3> QED  BY <3>1 DEF rest, ToRevoke
  <2>3. new \ rest = new
    BY <2>2
  <2>4. Cardinality(ActiveTokens(req[r].u)') < MaxPATsPerUser
    BY <1>1, <1>2, <1>9, <2>3 DEF new
  <2> QED  BY <1>1, <1>10, <2>4 DEF RoomFor
<1>11. CASE Len(v) # 1
  <2>1. Cardinality(ActiveTokens(req[r].u)' \ ToRevoke(req[r])') < MaxPATsPerUser
    BY <1>1, <1>2, <1>9 DEF new, rest
  <2> QED  BY <1>1, <1>11, <2>1 DEF RoomFor
<1> QED  BY <1>10, <1>11

LEMMA QuotaKeep ==
    ASSUME TypeInv, QuotaInv, NEW r \in Reqs, Begin(r) \/ Step(r)
    PROVE  QuotaInv'
<1>1. SameTokens(tokens, tokens')
  BY RequestStep DEF Growth
<1>2. CASE DOMAIN tokens' = DOMAIN tokens
  <2>1. WithinQuota'
    BY <1>1, <1>2, RoomStays DEF QuotaInv
  <2>2. ASSUME NEW q \in Reqs, req'[q] = req[q] PROVE req'[q].excused \/ RoomFor(req[q])'
    BY <1>1, <1>2, <2>2, RoomStays DEF QuotaInv, RoomMade
  <2>3. Moves(r)
    BY Moving
  <2>4. req'[r].excused \/ RoomFor(req[r])'
    <3>1. CASE CreateAPIToken(r)
      <4>1. Done(r)
        <5>1. ASSUME Live(req[r].u) PROVE FALSE
          <6>1. PICK row : tokens' = Append(tokens, row)
            BY <3>1, <5>1 DEF CreateAPIToken
          <6>2. Len(tokens) + 1 \in DOMAIN tokens' /\ Len(tokens) + 1 \notin DOMAIN tokens
            BY <6>1, LenProperties DEF TypeInv, TablesOK
          <6> QED  BY <1>2, <6>2
        <5> QED  BY <3>1, <5>1 DEF CreateAPIToken
      <4>2. req'[r].pc = ""
        BY <4>1, IdleFits DEF Done, TypeInv, RequestsOK
      <4> QED  BY <4>2 DEF RoomFor
    <3>2. CASE ~Minting(r)
      BY <2>3, <3>2 DEF Moves, RoomFor
    <3> QED  BY <3>1, <3>2, RoomCounted, RoomListed, RoomPruned DEF Minting
  <2>5. ASSUME NEW q \in Reqs \ {r} PROVE req'[q].excused \/ RoomFor(req[q])'
    <3>1. CASE ~CreateAPIToken(r)
      BY <2>2, <2>3, <3>1 DEF Moves
    <3>2. CASE CreateAPIToken(r)
      <4>1. Live(req[r].u) => QuotaInv'
        BY <3>2, QuotaCreate
      <4>2. ~Live(req[r].u) => req'[q] = req[q]
        BY <3>2 DEF CreateAPIToken, Done, TypeInv, RequestsOK
      <4> QED  BY <2>2, <4>1, <4>2 DEF QuotaInv, RoomMade
    <3> QED  BY <3>1, <3>2
  <2>6. RoomMade'
    BY <2>4, <2>5 DEF RoomMade
  <2> QED  BY <2>1, <2>6 DEF QuotaInv
<1>3. CASE CreateAPIToken(r) /\ Live(req[r].u)
  BY <1>3, QuotaCreate
<1> QED  BY <1>2, <1>3, TokensLeft

LEMMA QuotaHolds == Spec => []QuotaInv
<1>1. ASSUME TypeInv, QuotaInv, [Next]_vars PROVE QuotaInv'
  <2>1. ASSUME Lapse \/ Restart \/ (\E t \in stash : ExchangeNativeCode(t)) \/ UNCHANGED vars PROVE QuotaInv'
    <3>1. tokens' = tokens /\ (req' = req \/ req' = [r \in Reqs |-> Idle])
      BY <1>1, <2>1, Elsewhere
    <3>2. \A u : ActiveTokens(u)' = ActiveTokens(u) /\ Unexcused(u)' = Unexcused(u)
      BY <3>1 DEF ActiveTokens, Unexcused
    <3>3. WithinQuota'
      BY <1>1, <3>2 DEF QuotaInv, WithinQuota
    <3>4. RoomMade'
      <4>1. CASE req' = req
        BY <1>1, <3>2, <4>1 DEF QuotaInv, RoomMade, RoomFor, ToRevoke
      <4>2. CASE req' = [r \in Reqs |-> Idle]
        BY <4>2, IdleFits DEF RoomMade, RoomFor
      <4> QED  BY <3>1, <4>1, <4>2
    <3> QED  BY <3>3, <3>4 DEF QuotaInv
  <2> QED  BY <1>1, <2>1, QuotaKeep DEF Next
<1> QED  BY QuotaInit, TypesHold, <1>1, PTL DEF Spec

\* An account holds no more tokens than the quota and the excused ones: past it go only the
\* tokens of requests that counted before another one's token was created, and of sign-ins
\* whose pruning failed (auth.go:224, 382).
THEOREM QuotaKept == Spec => []TokensBounded
<1>1. ASSUME TypeInv, QuotaInv PROVE TokensBounded
  <2> SUFFICES ASSUME NEW u \in Users
               PROVE  Cardinality(ActiveTokens(u)) <=
                        MaxPATsPerUser + Cardinality({t \in ActiveTokens(u) : tokens[t].excused})
    BY DEF TokensBounded
  <2> DEFINE held == ActiveTokens(u)
             some == Unexcused(u)
             excused == {t \in held : tokens[t].excused}
  <2>1. IsFiniteSet(held) /\ IsFiniteSet(some) /\ Cardinality(some) <= MaxPATsPerUser
    BY <1>1, UnexcusedFinite DEF QuotaInv, WithinQuota
  <2>2. excused \subseteq held /\ held = some \cup excused /\ some \cap excused = {}
    BY DEF Unexcused
  <2> HIDE DEF held, some, excused
  <2>3. IsFiniteSet(excused) /\ Cardinality(excused) \in Nat /\ Cardinality(some) \in Nat
    BY <2>1, <2>2, Fewer, FS_CardinalityType
  <2>4. Cardinality(some \cup excused) = Cardinality(some) + Cardinality(excused) - Cardinality(some \cap excused)
    BY <2>1, <2>3, FS_Union
  <2>5. Cardinality(held) = Cardinality(some) + Cardinality(excused) - 0
    BY <2>2, <2>4, FS_EmptySet
  <2>6. MaxPATsPerUser \in Nat
    BY AccountsAssumption
  <2>7. Cardinality(held) <= MaxPATsPerUser + Cardinality(excused)
    BY <2>1, <2>3, <2>5, <2>6
  <2> QED  BY <2>7 DEF held, excused
<1> QED  BY TypesHold, QuotaHolds, <1>1, PTL

===============================================================================
