------------------------------- MODULE Accounts -------------------------------
(***************************************************************************)
(* One account of the web interface and what overlapping requests do to    *)
(* it: backend/internal/http/{auth,auth_tokens,auth_refresh,auth_2fa,      *)
(* webauthn,users}.go and the user handlers of orgs.go.                    *)
(*                                                                         *)
(* Most handlers read the row of users, change the copy and hand it to     *)
(* gorm's Save, which writes every column. A request is therefore a small  *)
(* process: it holds the row it has read until it saves. Passwords and     *)
(* codes are left out: a request is made by somebody who knows what the    *)
(* row asks for, all others are refused without a change.                  *)
(***************************************************************************)
EXTENDS Integers, FiniteSets

CONSTANTS
    AccRequests,      \* slots for requests that overlap
    AccSecrets,       \* TOTP secrets are numbered up to this
    AccCodes,         \* so are recovery codes,
    AccTokens,        \* refresh tokens,
    AccChallenges,    \* WebAuthn challenges
    AccGens,          \* and the accounts created under the same name
    AccKeys,          \* the passkeys that may be registered
    AccBudgets        \* how many of each a behaviour may make, and how many
                      \* edits administrators may start

AccBudget == [secrets : 0..AccSecrets, codes : 0..AccCodes, tokens : 0..AccTokens,
              challenges : 0..AccChallenges, gens : 0..(AccGens - 1), edits : Nat]

ASSUME AccAssumption ==
    /\ AccSecrets \in Nat /\ AccCodes \in Nat /\ AccTokens \in Nat
    /\ AccChallenges \in Nat /\ AccGens \in Nat \ {0}
    /\ AccBudgets \subseteq AccBudget

VARIABLES
    acct,       \* the row of users
    member,     \* its role in organization_members, or none
    keys,       \* webauthn_credentials of the name
    chal,       \* webauthn_challenges
    tokens,     \* auth_refresh_tokens of the name
    req,        \* the requests being handled
    budget,     \* what may still be made
    stale,      \* recovery codes whose recovery_exp is over
    proven,     \* history: secrets a code was verified for in VerifyTOTP
    loggedOut,  \* history: tokens a logout has revoked
    answered    \* history: challenges a login verification has answered, but not
                \* if the deletion that follows has failed

AccVars == <<acct, member, keys, chal, tokens, req, budget, stale, proven,
             loggedOut, answered>>

UserRoles == {"admin", "operator", "viewer"}
OrgRoles == {"owner", "admin", "operator", "viewer"}   \* accepted by the handlers
StoredOrgRoles == {"owner", "admin", "viewer"}          \* enum org_role

AccRow == [exists : BOOLEAN, gen : 0..AccGens, role : UserRoles,
           secret : 0..AccSecrets, enabled : BOOLEAN, rec : 0..AccCodes]
NewRow(g, role) ==
    [exists |-> TRUE, gen |-> g, role |-> role, secret |-> 0, enabled |-> FALSE,
     rec |-> 0]
NoChallenge == [st |-> "none", type |-> "login", allowed |-> {}]
NoToken == [issued |-> FALSE, revoked |-> FALSE, expired |-> FALSE]

AccIdle == [pc |-> "idle", row |-> NewRow(0, "viewer"), then |-> "reply",
            org |-> "viewer", id |-> 0, type |-> "login", keys |-> {}]

AccTypeOK ==
    /\ acct \in AccRow
    /\ member \in StoredOrgRoles \cup {"none"}
    /\ keys \subseteq AccKeys
    /\ chal \in [1..AccChallenges ->
                    [st : {"none", "active", "expired", "gone"},
                     type : {"register", "login"}, allowed : SUBSET AccKeys]]
    /\ tokens \in [1..AccTokens ->
                      [issued : BOOLEAN, revoked : BOOLEAN, expired : BOOLEAN]]
    /\ req \in [AccRequests ->
                   [pc : {"idle", "save", "count", "issue", "role", "touch",
                          "challenge", "store", "assert", "grant", "signin",
                          "forget"},
                    row : AccRow, then : {"reply", "issue", "member"},
                    org : OrgRoles, id : Nat, type : {"register", "login"},
                    keys : SUBSET AccKeys]]
    /\ budget \in AccBudget
    /\ stale \subseteq 1..AccCodes
    /\ proven \subseteq 1..AccSecrets
    /\ loggedOut \subseteq 1..AccTokens
    /\ answered \subseteq 1..AccChallenges

AccInit ==
    /\ acct = NewRow(AccGens, "admin")
    /\ member = "owner"
    /\ keys = {}
    /\ chal = [c \in 1..AccChallenges |-> NoChallenge]
    /\ tokens = [t \in 1..AccTokens |-> NoToken]
    /\ req = [q \in AccRequests |-> AccIdle]
    /\ budget \in AccBudgets
    /\ stale = {} /\ proven = {} /\ loggedOut = {} /\ answered = {}

------------------------------------------------------------------------------
(* Reading the row, and saving the whole of it *)

Privileged(row) == row.role \in {"admin", "operator"}

Spend(what) ==
    /\ budget[what] > 0
    /\ budget' = [budget EXCEPT ![what] = @ - 1]

\* currentUser, or the lookup by name in Login and SendRecoveryCode.
Reads(q) == req[q].pc = "idle" /\ acct.exists

ToSave(q, row, then) ==
    req' = [req EXCEPT ![q] = [AccIdle EXCEPT !.pc = "save", !.row = row, !.then = then]]

Goes(q, pc) == req' = [req EXCEPT ![q].pc = pc]
Replies(q) == req' = [req EXCEPT ![q] = AccIdle]

\* Mutant: enabling the second factor writes that one column.
SaveEnabledColumn(row) == IF row.enabled THEN [acct EXCEPT !.enabled = TRUE] ELSE row

\* gorm's Save writes all columns of the row with this id; when there is none it
\* inserts it, which fails if the name was taken by a new account.
SaveWholeRow(row) == row

SaveFails(row) == acct.exists /\ acct.gen # row.gen

\* The statement succeeds, or fails and the handler answers with an error. In
\* CreateOrgUser it shares a transaction with the membership, whose role must be
\* a value of the enum.
AccSave(q) ==
    /\ req[q].pc = "save"
    /\ LET r == req[q]
           fails == \/ SaveFails(r.row)
                    \/ r.then = "member" /\ r.org \notin StoredOrgRoles
       IN  \/ /\ ~fails
              /\ acct' = SaveWholeRow(r.row)
              /\ member' = IF r.then = "member" THEN r.org ELSE member
              /\ IF r.then = "issue" THEN Goes(q, "issue") ELSE Replies(q)
           \/ Replies(q) /\ UNCHANGED <<acct, member>>
    /\ UNCHANGED <<keys, chal, tokens, budget, stale, proven, loggedOut, answered>>

------------------------------------------------------------------------------
(* Login, refresh, logout *)

verifyRecoveryCode(row) == row.rec # 0 /\ row.rec \notin stale

verifyTOTPCode(row) == row.secret # 0

disableUserTOTP(row) == [row EXCEPT !.enabled = FALSE, !.secret = 0, !.rec = 0]

Login(q) ==
    /\ Reads(q)
    /\ \/ /\ ~Privileged(acct)
          /\ Goes(q, "issue")
       \/ /\ Privileged(acct) /\ acct.enabled /\ verifyTOTPCode(acct)
          /\ Goes(q, "issue")
       \/ /\ Privileged(acct) /\ acct.enabled /\ verifyRecoveryCode(acct)
          /\ ToSave(q, disableUserTOTP(acct), "issue")
       \/ /\ Privileged(acct) /\ ~acct.enabled
          /\ Goes(q, "count")
    /\ UNCHANGED <<acct, member, keys, chal, tokens, budget, stale, proven,
                   loggedOut, answered>>

\* PASSKEY_REQUIRED when the account has one.
CountPasskeys(q) ==
    /\ req[q].pc = "count"
    /\ IF keys = {} THEN Goes(q, "issue") ELSE Replies(q)
    /\ UNCHANGED <<acct, member, keys, chal, tokens, budget, stale, proven,
                   loggedOut, answered>>

issueRefreshToken ==
    /\ Spend("tokens")
    /\ tokens' = [tokens EXCEPT ![budget.tokens].issued = TRUE]

\* The token is stored or the login fails. The password login ends here; a passkey
\* login has its challenge to delete.
Issue(q) ==
    /\ issueRefreshToken \/ UNCHANGED <<tokens, budget>>
    /\ \/ req[q].pc = "issue" /\ Replies(q)
       \/ req[q].pc = "signin" /\ Goes(q, "forget")
    /\ UNCHANGED <<acct, member, keys, chal, stale, proven, loggedOut, answered>>

RefreshRead(q, t) ==
    /\ req[q].pc = "idle"
    /\ tokens[t].issued /\ ~tokens[t].revoked /\ ~tokens[t].expired
    /\ req' = [req EXCEPT ![q].pc = "role", ![q].id = t]
    /\ UNCHANGED <<acct, member, keys, chal, tokens, budget, stale, proven,
                   loggedOut, answered>>

resolveRole(q) ==
    /\ req[q].pc = "role"
    /\ IF acct.exists THEN Goes(q, "touch") ELSE Replies(q)
    /\ UNCHANGED <<acct, member, keys, chal, tokens, budget, stale, proven,
                   loggedOut, answered>>

\* Mutant: the row that was read is saved as a whole.
RefreshTouchSavesRow(q) ==
    /\ req[q].pc = "touch"
    /\ tokens' = [tokens EXCEPT ![req[q].id] = [NoToken EXCEPT !.issued = TRUE]]
    /\ Replies(q)
    /\ UNCHANGED <<acct, member, keys, chal, budget, stale, proven, loggedOut, answered>>

\* last_used_at and expires_at are updated by id; the error is dropped.
RefreshTouch(q) ==
    /\ req[q].pc = "touch"
    /\ \/ tokens' = [tokens EXCEPT ![req[q].id].expired = FALSE]
       \/ UNCHANGED tokens
    /\ Replies(q)
    /\ UNCHANGED <<acct, member, keys, chal, budget, stale, proven, loggedOut, answered>>

\* One update, where the token is not revoked yet.
Logout(t) ==
    /\ tokens[t].issued /\ ~tokens[t].revoked
    /\ tokens' = [tokens EXCEPT ![t].revoked = TRUE]
    /\ loggedOut' = loggedOut \cup {t}
    /\ UNCHANGED <<acct, member, keys, chal, req, budget, stale, proven, answered>>

TokenExpires(t) ==
    /\ tokens[t].issued /\ ~tokens[t].expired
    /\ tokens' = [tokens EXCEPT ![t].expired = TRUE]
    /\ UNCHANGED <<acct, member, keys, chal, req, budget, stale, proven,
                   loggedOut, answered>>

------------------------------------------------------------------------------
(* The second factor *)

SetupTOTP(q) ==
    /\ Reads(q) /\ Privileged(acct)
    /\ Spend("secrets")
    /\ ToSave(q, [acct EXCEPT !.secret = budget.secrets, !.enabled = FALSE], "reply")
    /\ UNCHANGED <<acct, member, keys, chal, tokens, stale, proven, loggedOut, answered>>

VerifyTOTP(q) ==
    /\ Reads(q) /\ verifyTOTPCode(acct)
    /\ proven' = proven \cup {acct.secret}
    /\ ToSave(q, [acct EXCEPT !.enabled = TRUE], "reply")
    /\ UNCHANGED <<acct, member, keys, chal, tokens, budget, stale, loggedOut, answered>>

DisableTOTP(q) ==
    /\ Reads(q)
    /\ verifyTOTPCode(acct) \/ verifyRecoveryCode(acct)
    /\ ToSave(q, disableUserTOTP(acct), "reply")
    /\ UNCHANGED <<acct, member, keys, chal, tokens, budget, stale, proven,
                   loggedOut, answered>>

\* The code is stored and then sent to the chats of the first organisation.
SendRecoveryCode(q) ==
    /\ Reads(q) /\ Privileged(acct) /\ member # "none"
    /\ Spend("codes")
    /\ ToSave(q, [acct EXCEPT !.rec = budget.codes], "reply")
    /\ UNCHANGED <<acct, member, keys, chal, tokens, stale, proven, loggedOut, answered>>

CodeExpires(c) ==
    /\ c > budget.codes /\ c \notin stale
    /\ stale' = stale \cup {c}
    /\ UNCHANGED <<acct, member, keys, chal, tokens, req, budget, proven,
                   loggedOut, answered>>

------------------------------------------------------------------------------
(* Passkeys *)

Active(c, type) == chal[c].st = "active" /\ chal[c].type = type

\* loadActiveWebAuthnChallenge: an active challenge of the type is handed out again,
\* without a change. Otherwise a new one is made, for the credentials that were read.
NewChallenge(q, type, read) ==
    /\ req[q].pc = "idle"
    /\ \A c \in 1..AccChallenges : ~Active(c, type)
    /\ req' = [req EXCEPT ![q].pc = "challenge", ![q].type = type, ![q].keys = read]
    /\ UNCHANGED <<acct, member, keys, chal, tokens, budget, stale, proven,
                   loggedOut, answered>>

\* loadWebAuthnUser: the credentials of the name.
loadWebAuthnUser == keys

WebAuthnRegisterOptions(q) == acct.exists /\ NewChallenge(q, "register", {})

\* NO_PASSKEY without a credential.
WebAuthnLoginOptions(q) ==
    loadWebAuthnUser # {} /\ NewChallenge(q, "login", loadWebAuthnUser)

saveWebAuthnChallenge(q) ==
    /\ req[q].pc = "challenge"
    /\ \/ /\ Spend("challenges")
          /\ chal' = [chal EXCEPT ![budget.challenges] =
                [st |-> "active", type |-> req[q].type, allowed |-> req[q].keys]]
       \/ UNCHANGED <<budget, chal>>
    /\ Replies(q)
    /\ UNCHANGED <<acct, member, keys, tokens, stale, proven, loggedOut, answered>>

\* The newest of the type, refused when expired.
loadWebAuthnChallenge(c, type) ==
    /\ Active(c, type)
    /\ \A d \in 1..(c - 1) : chal[d].type = type => chal[d].st \in {"none", "gone"}

\* What the authenticator sends is parsed and verified against it.
RegisterVerify(q) ==
    /\ req[q].pc = "idle"
    /\ \E c \in 1..AccChallenges :
          /\ loadWebAuthnChallenge(c, "register")
          /\ req' = [req EXCEPT ![q].pc = "store", ![q].id = c]
    /\ UNCHANGED <<acct, member, keys, chal, tokens, budget, stale, proven,
                   loggedOut, answered>>

\* A credential id is unique; when it is not stored the challenge stays.
storeWebAuthnCredential(q) ==
    /\ req[q].pc = "store"
    /\ \/ \E k \in AccKeys \ keys : keys' = keys \cup {k} /\ Goes(q, "forget")
       \/ Replies(q) /\ UNCHANGED keys
    /\ UNCHANGED <<acct, member, chal, tokens, budget, stale, proven, loggedOut, answered>>

\* The type is not looked at.
loadWebAuthnChallengeByID(c) == chal[c].st = "active"

LoginVerify(q, c) ==
    /\ req[q].pc = "idle"
    /\ loadWebAuthnChallengeByID(c)
    /\ req' = [req EXCEPT ![q].pc = "assert", ![q].id = c,
                          ![q].keys = loadWebAuthnUser, ![q].type = "login"]
    /\ UNCHANGED <<acct, member, keys, chal, tokens, budget, stale, proven,
                   loggedOut, answered>>

\* validateLoginRelaxed, for an assertion made with credential k.
validateLogin(q, k) ==
    LET allowed == chal[req[q].id].allowed
    IN  /\ k \in req[q].keys
        /\ allowed # {} => allowed \subseteq req[q].keys /\ k \in allowed

\* Mutant: a refused assertion leaves the challenge.
CheckAssertionKeepsChallenge(q) ==
    /\ req[q].pc = "assert"
    /\ \/ \E k \in keys : validateLogin(q, k) /\ Goes(q, "grant") /\ UNCHANGED answered
       \/ Replies(q) /\ answered' = answered \cup {req[q].id}
    /\ UNCHANGED <<acct, member, keys, chal, tokens, budget, stale, proven, loggedOut>>

\* The credential exists and the assertion is valid, or the login is refused;
\* either way the deferred deletion of the challenge follows.
CheckAssertion(q) ==
    /\ req[q].pc = "assert"
    /\ \/ \E k \in keys : validateLogin(q, k) /\ Goes(q, "grant")
       \/ Goes(q, "forget")
    /\ UNCHANGED <<acct, member, keys, chal, tokens, budget, stale, proven,
                   loggedOut, answered>>

\* touchWebAuthnCredential and resolveRole.
Grant(q) ==
    /\ req[q].pc = "grant"
    /\ IF acct.exists THEN Goes(q, "signin") ELSE Goes(q, "forget")
    /\ UNCHANGED <<acct, member, keys, chal, tokens, budget, stale, proven,
                   loggedOut, answered>>

\* Under the context of the request, which may be over: the statement can fail, and
\* its error is dropped.
deleteWebAuthnChallenge(q) ==
    /\ req[q].pc = "forget"
    /\ \/ /\ chal' = [chal EXCEPT ![req[q].id].st = "gone"]
          /\ answered' = IF req[q].type = "login" THEN answered \cup {req[q].id}
                         ELSE answered
       \/ UNCHANGED <<chal, answered>>
    /\ Replies(q)
    /\ UNCHANGED <<acct, member, keys, tokens, budget, stale, proven, loggedOut>>

ChallengeExpires(c) ==
    /\ chal[c].st = "active"
    /\ chal' = [chal EXCEPT ![c].st = "expired"]
    /\ UNCHANGED <<acct, member, keys, tokens, req, budget, stale, proven,
                   loggedOut, answered>>

CleanupExpiredWebAuthnChallenges ==
    /\ \E c \in 1..AccChallenges : chal[c].st = "expired"
    /\ chal' = [c \in 1..AccChallenges |->
                   IF chal[c].st = "expired" THEN [chal[c] EXCEPT !.st = "gone"]
                   ELSE chal[c]]
    /\ UNCHANGED <<acct, member, keys, tokens, req, budget, stale, proven,
                   loggedOut, answered>>

DeleteWebAuthnCredential(k) ==
    /\ k \in keys
    /\ keys' = keys \ {k}
    /\ UNCHANGED <<acct, member, chal, tokens, req, budget, stale, proven,
                   loggedOut, answered>>

------------------------------------------------------------------------------
(* Administration *)

CreateUser(role) ==
    /\ ~acct.exists /\ Spend("gens")
    /\ acct' = NewRow(budget.gens, role)
    /\ member' = "none"
    /\ UNCHANGED <<keys, chal, tokens, req, stale, proven, loggedOut, answered>>

UpdateUser(q, role) ==
    /\ Reads(q) /\ Spend("edits")
    /\ ToSave(q, [acct EXCEPT !.role = role], "reply")
    /\ UNCHANGED <<acct, member, keys, chal, tokens, stale, proven, loggedOut, answered>>

\* Passkeys, refresh tokens and memberships have no foreign key to users.
DeleteUser ==
    /\ acct.exists
    /\ acct' = [acct EXCEPT !.exists = FALSE]
    /\ UNCHANGED <<member, keys, chal, tokens, req, budget, stale, proven,
                   loggedOut, answered>>

mapOrgRoleToUserRole(role) ==
    IF role \in {"owner", "admin"} THEN "admin" ELSE role

\* In one transaction the account is found (or made) and saved, and the
\* membership is written.
CreateOrgUser(q, role) ==
    /\ req[q].pc = "idle"
    /\ IF acct.exists THEN Spend("edits") ELSE Spend("gens")
    /\ LET row == IF acct.exists
                  THEN [acct EXCEPT !.role = mapOrgRoleToUserRole(role)]
                  ELSE NewRow(budget.gens, mapOrgRoleToUserRole(role))
       IN  req' = [req EXCEPT ![q] = [AccIdle EXCEPT !.pc = "save", !.row = row,
                                         !.then = "member", !.org = role]]
    /\ UNCHANGED <<acct, member, keys, chal, tokens, stale, proven, loggedOut, answered>>

\* Updates of single columns, in one transaction that the enum can abort.
UpdateOrgUser(role) ==
    /\ member # "none" /\ role \in StoredOrgRoles
    /\ Spend("edits")
    /\ member' = role
    /\ acct' = IF acct.exists THEN [acct EXCEPT !.role = mapOrgRoleToUserRole(role)]
               ELSE acct
    /\ UNCHANGED <<keys, chal, tokens, req, stale, proven, loggedOut, answered>>

DeleteOrgUser ==
    /\ member # "none"
    /\ member' = "none"
    /\ UNCHANGED <<acct, keys, chal, tokens, req, budget, stale, proven,
                   loggedOut, answered>>

------------------------------------------------------------------------------
AccHandle(q) ==
    \/ AccSave(q)
    \/ Login(q) \/ CountPasskeys(q) \/ Issue(q)
    \/ \E t \in 1..AccTokens : RefreshRead(q, t)
    \/ resolveRole(q) \/ RefreshTouch(q)
    \/ SetupTOTP(q) \/ VerifyTOTP(q) \/ DisableTOTP(q) \/ SendRecoveryCode(q)
    \/ WebAuthnRegisterOptions(q) \/ WebAuthnLoginOptions(q)
    \/ saveWebAuthnChallenge(q)
    \/ RegisterVerify(q) \/ storeWebAuthnCredential(q)
    \/ \E c \in 1..AccChallenges : LoginVerify(q, c)
    \/ CheckAssertion(q) \/ Grant(q) \/ deleteWebAuthnChallenge(q)
    \/ \E role \in UserRoles : UpdateUser(q, role)
    \/ \E role \in OrgRoles : CreateOrgUser(q, role)

AccNext ==
    \/ \E q \in AccRequests : AccHandle(q)
    \/ \E t \in 1..AccTokens : Logout(t) \/ TokenExpires(t)
    \/ \E c \in 1..AccCodes : CodeExpires(c)
    \/ \E c \in 1..AccChallenges : ChallengeExpires(c)
    \/ CleanupExpiredWebAuthnChallenges
    \/ \E k \in AccKeys : DeleteWebAuthnCredential(k)
    \/ \E role \in UserRoles : CreateUser(role)
    \/ DeleteUser
    \/ \E role \in OrgRoles : UpdateOrgUser(role)
    \/ DeleteOrgUser

AccSpec == AccInit /\ [][AccNext]_AccVars

------------------------------------------------------------------------------
(* Properties *)

\* Whoever is asked for a one-time code has shown one for the very secret that
\* is stored: however setup, verification, recovery and administration overlap,
\* whole-row saves never combine "enabled" with a missing or a newer secret,
\* which would lock the user out.
AccEnabledSecretProven ==
    acct.exists /\ acct.enabled => acct.secret \in proven

\* README.md: "Logout (revokes refresh cookie)". A refresh that has read the
\* token before the logout and extends it afterwards does not bring it back.
AccLogoutFinal == \A t \in loggedOut : tokens[t].revoked

\* Once a request has answered a passkey login, granted or refused, its challenge
\* is gone for all who come later, however many requests answered it at the same
\* time and whatever became of theirs, and the next attempt gets a challenge for the
\* passkeys of that moment. Only the statement that deletes it can leave it: a
\* challenge whose deletions have all failed stays until it expires.
AccAnsweredChallengeGone == \A c \in answered : chal[c].st = "gone"
==============================================================================
