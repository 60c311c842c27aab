----------------------------- MODULE PeopleProofs -----------------------------
(* Theorems about accounts, enrolment, the transfer of an organisation and the   *)
(* configuration of backups, for any number of overlapping requests, secrets,    *)
(* codes, tokens, challenges and passkeys, of names, invites and nodes, of       *)
(* importers, rows and edits, and for every template; and about MCPeople.        *)
EXTENDS MCPeople, FiniteSetTheorems, SequenceTheorems, TLAPS

------------------------------------------------------------------------------
(* Accounts *)

ChalRow == [st : {"none", "active", "expired", "gone"}, type : {"register", "login"},
            allowed : SUBSET AccKeys]
TokenRow == [issued : BOOLEAN, revoked : BOOLEAN, expired : BOOLEAN]
AccPcs == {"idle", "save", "count", "issue", "role", "touch", "challenge", "store",
           "assert", "grant", "signin", "forget"}
AccRequest == [pc : AccPcs, row : AccRow, then : {"reply", "issue", "member"},
               org : OrgRoles, id : Nat, type : {"register", "login"},
               keys : SUBSET AccKeys]

\* The steps of a request that has a challenge to answer, and of one that has read
\* a refresh token.
Answering == {"store", "assert", "grant", "signin", "forget"}
Refreshing == {"role", "touch"}

\* What a request may hold when codes were verified for the secrets "shown" and the
\* challenges up to "unused" have not been made: a row that asks for a one-time code
\* only if its own secret was shown, and ids of things that exist.
GoodRequest(shown, unused) ==
    {r \in AccRequest :
        /\ r.pc = "save" /\ r.row.enabled => r.row.secret \in shown
        /\ r.pc \in Refreshing => r.id \in 1..AccTokens
        /\ r.pc \in Answering => r.id \in 1..AccChallenges /\ r.id > unused}

\* Four parts, each about some of the tables, and the requests that connect them.
AcctInv ==
    /\ acct \in AccRow
    /\ proven \subseteq 1..AccSecrets
    /\ acct.enabled => acct.secret \in proven
RestInv ==
    /\ member \in StoredOrgRoles \cup {"none"}
    /\ keys \subseteq AccKeys
    /\ budget \in AccBudget
    /\ stale \subseteq 1..AccCodes
TokenInv ==
    /\ tokens \in [1..AccTokens -> TokenRow]
    /\ loggedOut \subseteq 1..AccTokens
    /\ \A t \in loggedOut : tokens[t].revoked
ChalInv ==
    /\ chal \in [1..AccChallenges -> ChalRow]
    /\ answered \subseteq 1..AccChallenges
    /\ \A c \in 1..budget.challenges : chal[c].st = "none"
    /\ \A c \in answered : c > budget.challenges /\ chal[c].st = "gone"
ReqInv == req \in [AccRequests -> GoodRequest(proven, budget.challenges)]

AccInv == AcctInv /\ RestInv /\ TokenInv /\ ChalInv /\ ReqInv

------------------------------------------------------------------------------
(* What the operators do to rows and requests *)

LEMMA AccRows ==
    /\ \A g \in 0..AccGens, role \in UserRoles :
          NewRow(g, role) \in AccRow /\ ~NewRow(g, role).enabled
    /\ \A row \in AccRow :
          /\ disableUserTOTP(row) \in AccRow /\ ~disableUserTOTP(row).enabled
          /\ [row EXCEPT !.exists = FALSE] \in AccRow
          /\ [row EXCEPT !.enabled = TRUE] \in AccRow
          /\ \A s \in 0..AccSecrets :
                /\ [row EXCEPT !.secret = s, !.enabled = FALSE] \in AccRow
                /\ ~[row EXCEPT !.secret = s, !.enabled = FALSE].enabled
          /\ \A c \in 0..AccCodes : [row EXCEPT !.rec = c] \in AccRow
          /\ \A role \in UserRoles : [row EXCEPT !.role = role] \in AccRow
    /\ \A role \in OrgRoles : mapOrgRoleToUserRole(role) \in UserRoles
<1>1. \A g \in 0..AccGens, role \in UserRoles :
          NewRow(g, role) \in AccRow /\ ~NewRow(g, role).enabled
    BY AccAssumption DEF NewRow, AccRow
<1>2. ASSUME NEW row \in AccRow
      PROVE  /\ disableUserTOTP(row) \in AccRow /\ ~disableUserTOTP(row).enabled
             /\ [row EXCEPT !.exists = FALSE] \in AccRow
             /\ [row EXCEPT !.enabled = TRUE] \in AccRow
    <2>1. 0 \in 0..AccSecrets /\ 0 \in 0..AccCodes
        BY AccAssumption
    <2> QED
        BY <2>1 DEF disableUserTOTP, AccRow
<1>3. ASSUME NEW row \in AccRow, NEW s \in 0..AccSecrets
      PROVE  /\ [row EXCEPT !.secret = s, !.enabled = FALSE] \in AccRow
             /\ ~[row EXCEPT !.secret = s, !.enabled = FALSE].enabled
    BY DEF AccRow
<1>4. ASSUME NEW row \in AccRow, NEW c \in 0..AccCodes
      PROVE  [row EXCEPT !.rec = c] \in AccRow
    BY DEF AccRow
<1>5. ASSUME NEW row \in AccRow, NEW role \in UserRoles
      PROVE  [row EXCEPT !.role = role] \in AccRow
    BY DEF AccRow
<1>6. \A role \in OrgRoles : mapOrgRoleToUserRole(role) \in UserRoles
    BY DEF mapOrgRoleToUserRole, OrgRoles, UserRoles
<1> QED
    BY <1>1, <1>2, <1>3, <1>4, <1>5, <1>6

\* The columns a single-column update leaves alone.
LEMMA AccColumns ==
    ASSUME NEW row \in AccRow, NEW v
    PROVE  /\ [row EXCEPT !.rec = v].enabled = row.enabled
           /\ [row EXCEPT !.rec = v].secret = row.secret
           /\ [row EXCEPT !.role = v].enabled = row.enabled
           /\ [row EXCEPT !.role = v].secret = row.secret
           /\ [row EXCEPT !.exists = v].enabled = row.enabled
           /\ [row EXCEPT !.exists = v].secret = row.secret
           /\ [row EXCEPT !.enabled = v].secret = row.secret
BY DEF AccRow

\* Verifying more secrets and making more challenges leaves every request good.
LEMMA GoodGrows ==
    ASSUME NEW shown, NEW more, shown \subseteq more,
           NEW unused \in Nat, NEW fewer \in Nat, fewer <= unused
    PROVE  GoodRequest(shown, unused) \subseteq GoodRequest(more, fewer)
<1> SUFFICES ASSUME NEW r \in GoodRequest(shown, unused)
             PROVE  r \in GoodRequest(more, fewer)
    OBVIOUS
<1>1. r.id \in Nat
    BY DEF GoodRequest, AccRequest
<1> QED
    BY <1>1 DEF GoodRequest

\* A request that replies is forgotten; one that saves holds the row alone.
LEMMA SavingRequests ==
    ASSUME NEW shown, NEW unused
    PROVE  /\ AccIdle \in GoodRequest(shown, unused)
           /\ \A row \in AccRow, then \in {"reply", "issue"} :
                 (row.enabled => row.secret \in shown)
                 => [AccIdle EXCEPT !.pc = "save", !.row = row, !.then = then]
                       \in GoodRequest(shown, unused)
           /\ \A row \in AccRow, role \in OrgRoles :
                 (row.enabled => row.secret \in shown)
                 => [AccIdle EXCEPT !.pc = "save", !.row = row, !.then = "member",
                                    !.org = role] \in GoodRequest(shown, unused)
<1>1. NewRow(0, "viewer") \in AccRow
    <2>1. 0 \in 0..AccGens /\ "viewer" \in UserRoles
        BY AccAssumption DEF UserRoles
    <2> QED
        BY <2>1, AccRows
<1> QED
    BY <1>1, ZenonT(40) DEF AccIdle, GoodRequest, AccRequest, AccPcs, OrgRoles, Refreshing, Answering

\* How a request moves from step to step.
LEMMA MovingRequests ==
    ASSUME NEW shown, NEW unused \in Nat, NEW r \in GoodRequest(shown, unused)
    PROVE  /\ \A pc \in {"idle", "count", "issue"} : [r EXCEPT !.pc = pc] \in GoodRequest(shown, unused)
           /\ r.pc = "role" => [r EXCEPT !.pc = "touch"] \in GoodRequest(shown, unused)
           /\ \A t \in 1..AccTokens :
                 [r EXCEPT !.pc = "role", !.id = t] \in GoodRequest(shown, unused)
           /\ \A type \in {"register", "login"}, read \in SUBSET AccKeys :
                 [r EXCEPT !.pc = "challenge", !.type = type, !.keys = read]
                    \in GoodRequest(shown, unused)
           /\ \A c \in 1..AccChallenges : c > unused =>
                 /\ [r EXCEPT !.pc = "store", !.id = c] \in GoodRequest(shown, unused)
                 /\ \A read \in SUBSET AccKeys :
                       [r EXCEPT !.pc = "assert", !.id = c, !.keys = read, !.type = "login"]
                          \in GoodRequest(shown, unused)
           /\ r.pc \in Answering =>
                 \A pc \in Answering : [r EXCEPT !.pc = pc] \in GoodRequest(shown, unused)
<1>0. /\ \A t \in 1..AccTokens : t \in Nat
      /\ \A c \in 1..AccChallenges : c \in Nat
    BY AccAssumption
<1> USE DEF GoodRequest, AccRequest, AccPcs, Refreshing, Answering
<1>1. \A pc \in {"idle", "count", "issue"} : [r EXCEPT !.pc = pc] \in GoodRequest(shown, unused)
    OBVIOUS
<1>2. r.pc = "role" => [r EXCEPT !.pc = "touch"] \in GoodRequest(shown, unused)
    OBVIOUS
<1>3. \A t \in 1..AccTokens :
         [r EXCEPT !.pc = "role", !.id = t] \in GoodRequest(shown, unused)
    BY <1>0
<1>4. \A type \in {"register", "login"}, read \in SUBSET AccKeys :
         [r EXCEPT !.pc = "challenge", !.type = type, !.keys = read]
            \in GoodRequest(shown, unused)
    OBVIOUS
<1>5. ASSUME NEW c \in 1..AccChallenges, c > unused
      PROVE  [r EXCEPT !.pc = "store", !.id = c] \in GoodRequest(shown, unused)
    BY <1>0, <1>5
<1>6. ASSUME NEW c \in 1..AccChallenges, c > unused, NEW read \in SUBSET AccKeys
      PROVE  [r EXCEPT !.pc = "assert", !.id = c, !.keys = read, !.type = "login"]
                \in GoodRequest(shown, unused)
    BY <1>0, <1>6
<1>7. r.pc \in Answering =>
         \A pc \in Answering : [r EXCEPT !.pc = pc] \in GoodRequest(shown, unused)
    OBVIOUS
<1> HIDE DEF GoodRequest, Answering
<1> QED
    BY <1>1, <1>2, <1>3, <1>4, <1>5, <1>6, <1>7

\* Spending a budget: the rest stays as it was.
LEMMA SpendOne ==
    ASSUME RestInv,
           NEW what \in {"secrets", "codes", "tokens", "challenges", "gens", "edits"},
           Spend(what)
    PROVE  /\ budget' \in AccBudget
           /\ what # "challenges" => budget'.challenges = budget.challenges
           /\ what = "challenges" => /\ budget.challenges \in 1..AccChallenges
                                     /\ budget'.challenges = budget.challenges - 1
           /\ what = "tokens" => budget.tokens \in 1..AccTokens
           /\ what = "secrets" => budget.secrets \in 0..AccSecrets
           /\ what = "codes" => budget.codes \in 0..AccCodes
           /\ what = "gens" => budget.gens \in 0..AccGens
<1> USE AccAssumption DEF RestInv, Spend, AccBudget
<1>1. CASE what = "secrets"
    BY <1>1
<1>2. CASE what = "codes"
    BY <1>2
<1>3. CASE what = "tokens"
    BY <1>3
<1>4. CASE what = "challenges"
    BY <1>4
<1>5. CASE what = "gens"
    BY <1>5
<1>6. CASE what = "edits"
    BY <1>6
<1> QED
    BY <1>1, <1>2, <1>3, <1>4, <1>5, <1>6

\* A request moves on while secrets are verified and challenges are made.
LEMMA RequestStep ==
    ASSUME RestInv, ReqInv, NEW q \in AccRequests, proven \subseteq proven',
           budget' \in AccBudget, budget'.challenges <= budget.challenges,
           NEW r \in GoodRequest(proven', budget'.challenges),
           req' = [req EXCEPT ![q] = r]
    PROVE  ReqInv'
<1>1. budget.challenges \in Nat /\ budget'.challenges \in Nat
    BY AccAssumption DEF RestInv, AccBudget
<1>2. GoodRequest(proven, budget.challenges) \subseteq GoodRequest(proven', budget'.challenges)
    BY <1>1, GoodGrows
<1> QED
    BY <1>2 DEF ReqInv

\* What a step leaves alone stays as good as it was.
LEMMA Untouched ==
    ASSUME AccInv
    PROVE  /\ UNCHANGED <<acct, proven>> => AcctInv'
           /\ UNCHANGED <<member, keys, budget, stale>> => RestInv'
           /\ UNCHANGED <<tokens, loggedOut>> => TokenInv'
           /\ UNCHANGED <<chal, answered>> /\ budget'.challenges = budget.challenges
                 => ChalInv'
           /\ UNCHANGED <<req, proven>> /\ budget'.challenges = budget.challenges
                 => ReqInv'
BY DEF AccInv, AcctInv, RestInv, TokenInv, ChalInv, ReqInv

\* Requests that only move on: no table changes.
LEMMA OnlyRequest ==
    ASSUME AccInv, NEW q \in AccRequests, NEW r \in GoodRequest(proven, budget.challenges),
           req' = [req EXCEPT ![q] = r],
           UNCHANGED <<acct, member, keys, chal, tokens, budget, stale, proven,
                       loggedOut, answered>>
    PROVE  AccInv'
<1>1. RestInv /\ ReqInv
    BY DEF AccInv
<1>2. budget' \in AccBudget /\ budget'.challenges <= budget.challenges
    BY AccAssumption, <1>1 DEF RestInv, AccBudget
<1>3. ReqInv'
    BY <1>1, <1>2, RequestStep
<1> QED
    BY <1>3, Untouched DEF AccInv

------------------------------------------------------------------------------
(* Steps *)

\* A request of AccInv, and the two ways it is written.
LEMMA ARequest ==
    ASSUME AccInv, NEW q \in AccRequests
    PROVE  /\ req[q] \in GoodRequest(proven, budget.challenges)
           /\ req[q] \in AccRequest
           /\ budget.challenges \in Nat
           /\ \A pc : Goes(q, pc) => req' = [req EXCEPT ![q] = [req[q] EXCEPT !.pc = pc]]
<1>1. req[q] \in GoodRequest(proven, budget.challenges)
    BY DEF AccInv, ReqInv
<1>2. budget.challenges \in Nat
    BY AccAssumption DEF AccInv, RestInv, AccBudget
<1>3. \A pc : Goes(q, pc) => req' = [req EXCEPT ![q] = [req[q] EXCEPT !.pc = pc]]
    BY DEF Goes
<1> QED
    BY <1>1, <1>2, <1>3 DEF GoodRequest

\* The requests of login, refresh and passkey login that only read.
LEMMA ReadingSteps ==
    ASSUME AccInv, NEW q \in AccRequests,
           \/ Login(q) \/ CountPasskeys(q) \/ resolveRole(q)
           \/ \E t \in 1..AccTokens : RefreshRead(q, t)
           \/ CheckAssertion(q) \/ Grant(q)
    PROVE  AccInv'
<1> DEFINE Good == GoodRequest(proven, budget.challenges)
<1>0. /\ req[q] \in Good /\ budget.challenges \in Nat
      /\ \A pc : Goes(q, pc) => req' = [req EXCEPT ![q] = [req[q] EXCEPT !.pc = pc]]
    BY ARequest
<1>1. AccIdle \in Good /\ (Replies(q) => req' = [req EXCEPT ![q] = AccIdle])
    BY SavingRequests DEF Replies
<1>2. \A pc \in {"issue", "count"} : [req[q] EXCEPT !.pc = pc] \in Good
    BY <1>0, MovingRequests
<1>3. CASE Login(q)
    <2>1. CASE Goes(q, "issue") \/ Goes(q, "count")
        BY <2>1, <1>0, <1>2, <1>3, OnlyRequest DEF Login
    <2>2. CASE ToSave(q, disableUserTOTP(acct), "issue")
        <3>1. acct \in AccRow
            BY DEF AccInv, AcctInv
        <3>2. disableUserTOTP(acct) \in AccRow /\ ~disableUserTOTP(acct).enabled
            BY <3>1, AccRows
        <3>3. [AccIdle EXCEPT !.pc = "save", !.row = disableUserTOTP(acct), !.then = "issue"]
                 \in Good
            BY <3>2, SavingRequests
        <3> QED
            BY <2>2, <3>3, <1>3, OnlyRequest DEF Login, ToSave
    <2> QED
        BY <1>3, <2>1, <2>2 DEF Login
<1>4. CASE CountPasskeys(q)
    BY <1>0, <1>1, <1>2, <1>4, OnlyRequest DEF CountPasskeys
<1>5. CASE resolveRole(q)
    <2>1. [req[q] EXCEPT !.pc = "touch"] \in Good
        BY <1>0, <1>5, MovingRequests DEF resolveRole
    <2> QED
        BY <1>0, <1>1, <1>5, <2>1, OnlyRequest DEF resolveRole
<1>6. ASSUME NEW t \in 1..AccTokens, RefreshRead(q, t)
      PROVE  AccInv'
    <2>1. [req[q] EXCEPT !.pc = "role", !.id = t] \in Good
        BY <1>0, MovingRequests
    <2>2. req' = [req EXCEPT ![q] = [req[q] EXCEPT !.pc = "role", !.id = t]]
        BY <1>6 DEF RefreshRead, AccInv, ReqInv
    <2> QED
        BY <1>6, <2>1, <2>2, OnlyRequest DEF RefreshRead
<1>7. CASE CheckAssertion(q)
    <2>1. \A pc \in Answering : [req[q] EXCEPT !.pc = pc] \in Good
        BY <1>0, <1>7, MovingRequests DEF CheckAssertion, Answering
    <2> QED
        BY <1>0, <1>7, <2>1, OnlyRequest DEF CheckAssertion, Answering
<1>8. CASE Grant(q)
    <2>1. \A pc \in Answering : [req[q] EXCEPT !.pc = pc] \in Good
        BY <1>0, <1>8, MovingRequests DEF Grant, Answering
    <2> QED
        BY <1>0, <1>8, <2>1, OnlyRequest DEF Grant, Answering
<1> QED
    BY <1>3, <1>4, <1>5, <1>6, <1>7, <1>8

\* Handlers that read the row and will save a changed copy of it.
LEMMA EditingSteps ==
    ASSUME AccInv, NEW q \in AccRequests,
           \/ SetupTOTP(q) \/ VerifyTOTP(q) \/ DisableTOTP(q) \/ SendRecoveryCode(q)
           \/ \E role \in UserRoles : UpdateUser(q, role)
           \/ \E role \in OrgRoles : CreateOrgUser(q, role)
    PROVE  AccInv'
<1>0. /\ RestInv /\ ReqInv /\ acct \in AccRow /\ proven \subseteq 1..AccSecrets
      /\ (acct.enabled => acct.secret \in proven)
      /\ budget.challenges \in Nat
    BY ARequest DEF AccInv, AcctInv
<1> DEFINE Saving(row, then) == [AccIdle EXCEPT !.pc = "save", !.row = row, !.then = then]
           Making(row, role) == [AccIdle EXCEPT !.pc = "save", !.row = row,
                                                !.then = "member", !.org = role]
<1>1. ASSUME NEW r \in GoodRequest(proven, budget.challenges),
             req' = [req EXCEPT ![q] = r], budget' \in AccBudget,
             budget'.challenges = budget.challenges,
             UNCHANGED <<acct, member, keys, chal, tokens, stale, proven, loggedOut, answered>>
      PROVE  AccInv'
    <2>1. ReqInv'
        BY <1>0, <1>1 DEF ReqInv
    <2>2. RestInv'
        BY <1>0, <1>1 DEF RestInv
    <2> QED
        BY <1>1, <2>1, <2>2, Untouched DEF AccInv
<1>2. CASE SetupTOTP(q)
    <2>1. /\ budget' \in AccBudget /\ budget'.challenges = budget.challenges
          /\ budget.secrets \in 0..AccSecrets
        BY <1>0, <1>2, SpendOne DEF SetupTOTP
    <2> DEFINE row == [acct EXCEPT !.secret = budget.secrets, !.enabled = FALSE]
    <2>2. row \in AccRow /\ ~row.enabled
        BY <1>0, <2>1, AccRows
    <2>3. Saving(row, "reply") \in GoodRequest(proven, budget.challenges)
        BY <2>2, SavingRequests
    <2> QED
        BY <1>1, <1>2, <2>1, <2>3 DEF SetupTOTP, ToSave
<1>3. CASE VerifyTOTP(q)
    <2> DEFINE row == [acct EXCEPT !.enabled = TRUE]
    <2>1. row \in AccRow /\ row.secret = acct.secret
        BY <1>0, AccRows, AccColumns
    <2>2. acct.secret \in 1..AccSecrets
        BY <1>0, <1>3, AccAssumption DEF VerifyTOTP, verifyTOTPCode, AccRow
    <2>3. proven' = proven \cup {acct.secret}
        BY <1>3 DEF VerifyTOTP
    <2>4. Saving(row, "reply") \in GoodRequest(proven', budget'.challenges)
        BY <2>1, <2>3, SavingRequests
    <2>5. req' = [req EXCEPT ![q] = Saving(row, "reply")]
        BY <1>3 DEF VerifyTOTP, ToSave
    <2>6. budget' \in AccBudget /\ budget'.challenges <= budget.challenges
        BY <1>0, <1>3 DEF VerifyTOTP, RestInv
    <2>7. ReqInv'
        <3> HIDE DEF Saving, row
        <3>1. proven \subseteq proven'
            BY <2>3
        <3> QED
            BY <1>0, <2>4, <2>5, <2>6, <3>1, RequestStep
    <2>8. AcctInv'
        BY <1>0, <1>3, <2>2, <2>3 DEF VerifyTOTP, AcctInv
    <2> QED
        BY <1>3, <2>7, <2>8, Untouched DEF VerifyTOTP, AccInv
<1>4. CASE DisableTOTP(q)
    <2>1. disableUserTOTP(acct) \in AccRow /\ ~disableUserTOTP(acct).enabled
        BY <1>0, AccRows
    <2>2. Saving(disableUserTOTP(acct), "reply") \in GoodRequest(proven, budget.challenges)
        BY <2>1, SavingRequests
    <2> QED
        BY <1>4, <2>2, OnlyRequest DEF DisableTOTP, ToSave
<1>5. CASE SendRecoveryCode(q)
    <2>1. /\ budget' \in AccBudget /\ budget'.challenges = budget.challenges
          /\ budget.codes \in 0..AccCodes
        BY <1>0, <1>5, SpendOne DEF SendRecoveryCode
    <2> DEFINE row == [acct EXCEPT !.rec = budget.codes]
    <2>2. row \in AccRow /\ row.enabled = acct.enabled /\ row.secret = acct.secret
        BY <1>0, <2>1, AccRows, AccColumns
    <2>3. Saving(row, "reply") \in GoodRequest(proven, budget.challenges)
        BY <1>0, <2>2, SavingRequests
    <2> QED
        BY <1>1, <1>5, <2>1, <2>3 DEF SendRecoveryCode, ToSave
<1>6. ASSUME NEW role \in UserRoles, UpdateUser(q, role)
      PROVE  AccInv'
    <2>1. budget' \in AccBudget /\ budget'.challenges = budget.challenges
        BY <1>0, <1>6, SpendOne DEF UpdateUser
    <2> DEFINE row == [acct EXCEPT !.role = role]
    <2>2. row \in AccRow /\ row.enabled = acct.enabled /\ row.secret = acct.secret
        BY <1>0, AccRows, AccColumns
    <2>3. Saving(row, "reply") \in GoodRequest(proven, budget.challenges)
        BY <1>0, <2>2, SavingRequests
    <2> QED
        BY <1>1, <1>6, <2>1, <2>3 DEF UpdateUser, ToSave
<1>7. ASSUME NEW role \in OrgRoles, CreateOrgUser(q, role)
      PROVE  AccInv'
    <2> DEFINE as == mapOrgRoleToUserRole(role)
               row == IF acct.exists THEN [acct EXCEPT !.role = as] ELSE NewRow(budget.gens, as)
    <2>1. /\ budget' \in AccBudget /\ budget'.challenges = budget.challenges
          /\ ~acct.exists => budget.gens \in 0..AccGens
        BY <1>0, <1>7, SpendOne DEF CreateOrgUser
    <2>2. as \in UserRoles
        BY AccRows
    <2>3. row \in AccRow /\ (row.enabled => row.enabled = acct.enabled /\ row.secret = acct.secret)
        <3>1. CASE acct.exists
            <4>1. row = [acct EXCEPT !.role = as]
                BY <3>1
            <4>2. /\ [acct EXCEPT !.role = as] \in AccRow
                  /\ [acct EXCEPT !.role = as].enabled = acct.enabled
                  /\ [acct EXCEPT !.role = as].secret = acct.secret
                BY <1>0, <2>2, AccRows, AccColumns
            <4> QED
                BY <4>1, <4>2
        <3>2. CASE ~acct.exists
            BY <2>1, <2>2, <3>2, AccRows
        <3> QED
            BY <3>1, <3>2
    <2>4. Making(row, role) \in GoodRequest(proven, budget.challenges)
        BY <1>0, <2>3, SavingRequests
    <2> QED
        BY <1>1, <1>7, <2>1, <2>4 DEF CreateOrgUser
<1> QED
    BY <1>2, <1>3, <1>4, <1>5, <1>6, <1>7

\* The save itself: the row that is written is one that was shown to be good when
\* it was read, and secrets stay shown.
LEMMA SaveStep ==
    ASSUME AccInv, NEW q \in AccRequests, AccSave(q)
    PROVE  AccInv'
<1> DEFINE Good == GoodRequest(proven, budget.challenges)
           r == req[q]
<1>0. /\ r \in Good /\ r \in AccRequest /\ budget.challenges \in Nat
      /\ \A pc : Goes(q, pc) => req' = [req EXCEPT ![q] = [req[q] EXCEPT !.pc = pc]]
    BY ARequest
<1>1. r.row \in AccRow /\ (r.row.enabled => r.row.secret \in proven)
    BY <1>0 DEF AccSave, GoodRequest, AccRequest
<1>2. /\ AccIdle \in Good /\ [r EXCEPT !.pc = "issue"] \in Good
    BY <1>0, SavingRequests, MovingRequests
<1>3. ReqInv'
    <2>1. req' = [req EXCEPT ![q] = AccIdle] \/ req' = [req EXCEPT ![q] = [r EXCEPT !.pc = "issue"]]
        BY <1>0 DEF AccSave, Replies
    <2> QED
        BY <1>2, <2>1 DEF AccSave, AccInv, ReqInv
<1>4. AcctInv'
    BY <1>1 DEF AccSave, SaveWholeRow, AccInv, AcctInv
<1>5. RestInv'
    BY <1>0 DEF AccSave, AccInv, RestInv, AccRequest
<1> QED
    BY <1>3, <1>4, <1>5, Untouched DEF AccSave, AccInv

\* Refresh tokens: issued, extended, revoked, expired. None of it un-revokes one.
LEMMA TokenSteps ==
    ASSUME AccInv,
           \/ \E q \in AccRequests : Issue(q) \/ RefreshTouch(q)
           \/ \E t \in 1..AccTokens : Logout(t) \/ TokenExpires(t)
    PROVE  AccInv'
<1>0. RestInv /\ ReqInv /\ TokenInv
    BY DEF AccInv
<1>1. \A row \in TokenRow :
         /\ \A v \in BOOLEAN : /\ [row EXCEPT !.issued = v] \in TokenRow
                               /\ [row EXCEPT !.issued = v].revoked = row.revoked
                               /\ [row EXCEPT !.expired = v] \in TokenRow
                               /\ [row EXCEPT !.expired = v].revoked = row.revoked
         /\ [row EXCEPT !.revoked = TRUE] \in TokenRow
         /\ [row EXCEPT !.revoked = TRUE].revoked
    BY DEF TokenRow
<1>2. ASSUME NEW t \in 1..AccTokens,
             NEW row \in TokenRow, row.revoked = tokens[t].revoked,
             tokens' = [tokens EXCEPT ![t] = row], UNCHANGED loggedOut
      PROVE  TokenInv'
    BY <1>0, <1>2 DEF TokenInv
<1>3. ASSUME NEW q \in AccRequests, Issue(q)
      PROVE  AccInv'
    <2>1. /\ budget' \in AccBudget /\ budget'.challenges = budget.challenges
          /\ issueRefreshToken => budget.tokens \in 1..AccTokens
        BY <1>0, <1>3, SpendOne DEF Issue, issueRefreshToken, RestInv
    <2>2. ASSUME issueRefreshToken PROVE TokenInv'
        <3> DEFINE t == budget.tokens
                   row == [tokens[t] EXCEPT !.issued = TRUE]
        <3>1. tokens[t] \in TokenRow
            BY <1>0, <2>1, <2>2 DEF TokenInv
        <3>2. row \in TokenRow /\ row.revoked = tokens[t].revoked
            BY <1>1, <3>1
        <3>3. tokens' = [tokens EXCEPT ![t] = row] /\ UNCHANGED loggedOut
            BY <1>3, <2>2 DEF Issue, issueRefreshToken
        <3>4. t \in 1..AccTokens
            BY <2>1, <2>2
        <3> HIDE DEF t, row
        <3> QED
            BY <1>2, <3>2, <3>3, <3>4
    <2>5. TokenInv'
        <3>1. CASE UNCHANGED <<tokens, budget>>
            BY <1>0, <1>3, <3>1 DEF Issue, TokenInv
        <3> QED
            BY <1>3, <2>2, <3>1 DEF Issue
    <2>3. RestInv'
        BY <1>0, <1>3, <2>1 DEF Issue, RestInv
    <2>4. ReqInv'
        <3> DEFINE Good == GoodRequest(proven, budget.challenges)
        <3>0. /\ req[q] \in Good /\ budget.challenges \in Nat
              /\ Goes(q, "forget") => req' = [req EXCEPT ![q] = [req[q] EXCEPT !.pc = "forget"]]
            BY ARequest
        <3>1. AccIdle \in Good /\ (Replies(q) => req' = [req EXCEPT ![q] = AccIdle])
            BY SavingRequests DEF Replies
        <3>2. req[q].pc = "signin" => [req[q] EXCEPT !.pc = "forget"] \in Good
            BY <3>0, MovingRequests DEF Answering
        <3> QED
            BY <1>0, <1>3, <2>1, <3>0, <3>1, <3>2 DEF Issue, ReqInv
    <2> QED
        BY <1>3, <2>1, <2>5, <2>3, <2>4, Untouched DEF Issue, AccInv
<1>4. ASSUME NEW q \in AccRequests, RefreshTouch(q)
      PROVE  AccInv'
    <2>0. req[q] \in GoodRequest(proven, budget.challenges)
        BY ARequest
    <2>1. req[q].id \in 1..AccTokens
        BY <1>4, <2>0 DEF RefreshTouch, GoodRequest, Refreshing
    <2>2. TokenInv'
        <3> DEFINE t == req[q].id
                   row == [tokens[t] EXCEPT !.expired = FALSE]
        <3>1. tokens[t] \in TokenRow
            BY <1>0, <2>1 DEF TokenInv
        <3>2. row \in TokenRow /\ row.revoked = tokens[t].revoked
            BY <1>1, <3>1
        <3>3. UNCHANGED loggedOut /\ (UNCHANGED tokens \/ tokens' = [tokens EXCEPT ![t] = row])
            BY <1>4 DEF RefreshTouch
        <3> HIDE DEF t, row
        <3>4. CASE UNCHANGED tokens
            BY <1>0, <3>3, <3>4 DEF TokenInv
        <3> QED
            BY <1>2, <2>1, <3>2, <3>3, <3>4 DEF t
    <2>3. ReqInv'
        BY <1>0, <1>4, SavingRequests DEF RefreshTouch, Replies, ReqInv
    <2> QED
        BY <1>4, <2>2, <2>3, Untouched DEF RefreshTouch, AccInv
<1>5. ASSUME NEW t \in 1..AccTokens, Logout(t)
      PROVE  AccInv'
    <2> DEFINE row == [tokens[t] EXCEPT !.revoked = TRUE]
    <2>1. row \in TokenRow /\ row.revoked
        BY <1>0, <1>1 DEF TokenInv
    <2>2. tokens' = [tokens EXCEPT ![t] = row] /\ loggedOut' = loggedOut \cup {t}
        BY <1>5 DEF Logout
    <2> HIDE DEF row
    <2>3. TokenInv'
        BY <1>0, <2>1, <2>2 DEF TokenInv
    <2> QED
        BY <1>5, <2>3, Untouched DEF Logout, AccInv
<1>6. ASSUME NEW t \in 1..AccTokens, TokenExpires(t)
      PROVE  AccInv'
    <2> DEFINE row == [tokens[t] EXCEPT !.expired = TRUE]
    <2>1. row \in TokenRow /\ row.revoked = tokens[t].revoked
        BY <1>0, <1>1 DEF TokenInv
    <2>2. tokens' = [tokens EXCEPT ![t] = row] /\ UNCHANGED loggedOut
        BY <1>6 DEF TokenExpires
    <2> HIDE DEF row
    <2>3. TokenInv'
        BY <1>2, <2>1, <2>2
    <2> QED
        BY <1>6, <2>3, Untouched DEF TokenExpires, AccInv
<1> QED
    BY <1>3, <1>4, <1>5, <1>6

\* A challenge that was made gets another status: answered ones stay gone.
LEMMA ChalStatus ==
    ASSUME ChalInv, NEW c \in 1..AccChallenges, c > budget.challenges,
           budget.challenges \in Nat, budget'.challenges = budget.challenges,
           NEW st \in {"expired", "gone"}, st = "expired" => chal[c].st = "active",
           chal' = [chal EXCEPT ![c].st = st],
           \/ UNCHANGED answered
           \/ st = "gone" /\ answered' = answered \cup {c}
    PROVE  ChalInv'
<1> DEFINE row == [chal[c] EXCEPT !.st = st]
<1>1. row \in ChalRow /\ row.st = st
    BY DEF ChalInv, ChalRow
<1>2. chal' = [chal EXCEPT ![c] = row]
    OBVIOUS
<1> HIDE DEF row
<1>3. /\ chal' \in [1..AccChallenges -> ChalRow] /\ chal'[c].st = st
      /\ \A d \in 1..AccChallenges : d # c => chal'[d] = chal[d]
    BY <1>1, <1>2 DEF ChalInv
<1>4. \A d \in 1..budget'.challenges : chal'[d].st = "none"
    <2> SUFFICES ASSUME NEW d \in 1..budget'.challenges
                 PROVE  chal'[d].st = "none"
        OBVIOUS
    <2>1. d # c /\ d \in 1..AccChallenges /\ d \in 1..budget.challenges
        BY AccAssumption
    <2> QED
        BY <1>3, <2>1 DEF ChalInv
<1>5. c \in answered => st = "gone"
    BY DEF ChalInv
<1> QED
    BY <1>3, <1>4, <1>5 DEF ChalInv

\* A challenge that is active, or not "none", has been made.
LEMMA Made ==
    ASSUME AccInv, NEW c \in 1..AccChallenges, chal[c].st # "none"
    PROVE  c > budget.challenges /\ budget.challenges \in Nat
<1>1. budget.challenges \in Nat
    BY AccAssumption DEF AccInv, RestInv, AccBudget
<1>2. c \notin 1..budget.challenges
    BY DEF AccInv, ChalInv
<1> QED
    BY <1>1, <1>2, AccAssumption

\* Passkeys: the requests that make and answer challenges.
LEMMA PasskeySteps ==
    ASSUME AccInv, NEW q \in AccRequests,
           \/ WebAuthnRegisterOptions(q) \/ WebAuthnLoginOptions(q)
           \/ saveWebAuthnChallenge(q)
           \/ RegisterVerify(q) \/ storeWebAuthnCredential(q)
           \/ \E c \in 1..AccChallenges : LoginVerify(q, c)
           \/ deleteWebAuthnChallenge(q)
    PROVE  AccInv'
<1> DEFINE Good == GoodRequest(proven, budget.challenges)
<1>0. /\ req[q] \in Good /\ req[q] \in AccRequest /\ budget.challenges \in Nat
      /\ \A pc : Goes(q, pc) => req' = [req EXCEPT ![q] = [req[q] EXCEPT !.pc = pc]]
      /\ RestInv /\ ChalInv /\ ReqInv
    BY ARequest DEF AccInv
<1>1. AccIdle \in Good /\ (Replies(q) => req' = [req EXCEPT ![q] = AccIdle])
    BY SavingRequests DEF Replies
<1>2. ASSUME NEW type \in {"register", "login"}, NEW read \in SUBSET AccKeys,
             NewChallenge(q, type, read)
      PROVE  AccInv'
    <2>1. [req[q] EXCEPT !.pc = "challenge", !.type = type, !.keys = read] \in Good
        BY <1>0, MovingRequests
    <2>2. req' = [req EXCEPT ![q] =
                     [req[q] EXCEPT !.pc = "challenge", !.type = type, !.keys = read]]
        BY <1>2 DEF NewChallenge, AccInv, ReqInv
    <2> QED
        BY <1>2, <2>1, <2>2, OnlyRequest DEF NewChallenge
<1>3. CASE WebAuthnRegisterOptions(q) \/ WebAuthnLoginOptions(q)
    <2>1. keys \in SUBSET AccKeys /\ {} \in SUBSET AccKeys
        BY <1>0 DEF RestInv
    <2> QED
        BY <1>2, <1>3, <2>1 DEF WebAuthnRegisterOptions, WebAuthnLoginOptions, loadWebAuthnUser
<1>9. ASSUME saveWebAuthnChallenge(q), UNCHANGED <<budget, chal>>
      PROVE  AccInv'
    BY <1>1, <1>9, OnlyRequest DEF saveWebAuthnChallenge
<1>4. ASSUME saveWebAuthnChallenge(q), ~UNCHANGED <<budget, chal>>
      PROVE  AccInv'
    <2> DEFINE c == budget.challenges
               row == [st |-> "active", type |-> req[q].type, allowed |-> req[q].keys]
    <2>1. budget' \in AccBudget /\ c \in 1..AccChallenges /\ budget'.challenges = c - 1
        BY <1>0, <1>4, SpendOne DEF saveWebAuthnChallenge
    <2>2. row \in ChalRow
        BY <1>0 DEF ChalRow, AccRequest
    <2>3. chal' = [chal EXCEPT ![c] = row] /\ UNCHANGED answered
        BY <1>4 DEF saveWebAuthnChallenge
    <2> HIDE DEF row
    <2>4. ChalInv'
        <3>1. \A d \in 1..AccChallenges : d # c => chal'[d] = chal[d]
            BY <1>0, <2>3 DEF ChalInv
        <3>2. \A d \in 1..budget'.challenges : d \in 1..c /\ d # c /\ d \in 1..AccChallenges
            BY <2>1, AccAssumption
        <3>3. \A d \in answered : d \in 1..AccChallenges /\ d > c /\ d # c /\ d > budget'.challenges
            BY <1>0, <2>1, AccAssumption DEF ChalInv
        <3>4. \A d \in 1..budget'.challenges : chal'[d].st = "none"
            BY <1>0, <3>1, <3>2 DEF ChalInv
        <3> QED
            BY <1>0, <2>2, <2>3, <3>1, <3>3, <3>4 DEF ChalInv
    <2>5. ReqInv'
        <3>1. budget'.challenges <= budget.challenges /\ proven \subseteq proven'
            BY <1>4, <2>1, AccAssumption DEF saveWebAuthnChallenge
        <3>2. AccIdle \in GoodRequest(proven', budget'.challenges)
            BY SavingRequests
        <3>3. req' = [req EXCEPT ![q] = AccIdle]
            BY <1>1, <1>4 DEF saveWebAuthnChallenge
        <3> QED
            BY <1>0, <2>1, <3>1, <3>2, <3>3, RequestStep
    <2>6. RestInv'
        BY <1>0, <1>4, <2>1 DEF saveWebAuthnChallenge, RestInv
    <2> QED
        BY <1>4, <2>4, <2>5, <2>6, Untouched DEF saveWebAuthnChallenge, AccInv
<1>5. CASE RegisterVerify(q)
    <2>1. PICK c \in 1..AccChallenges :
             /\ loadWebAuthnChallenge(c, "register")
             /\ req' = [req EXCEPT ![q].pc = "store", ![q].id = c]
        BY <1>5 DEF RegisterVerify
    <2>2. c > budget.challenges
        BY <2>1, Made DEF loadWebAuthnChallenge, Active
    <2>3. [req[q] EXCEPT !.pc = "store", !.id = c] \in Good
        BY <1>0, <2>2, MovingRequests
    <2>4. req' = [req EXCEPT ![q] = [req[q] EXCEPT !.pc = "store", !.id = c]]
        BY <2>1 DEF AccInv, ReqInv
    <2> QED
        BY <1>5, <2>3, <2>4, OnlyRequest DEF RegisterVerify
<1>6. CASE storeWebAuthnCredential(q)
    <2>1. [req[q] EXCEPT !.pc = "forget"] \in Good
        BY <1>0, <1>6, MovingRequests DEF storeWebAuthnCredential, Answering
    <2>2. ReqInv'
        BY <1>0, <1>1, <1>6, <2>1 DEF storeWebAuthnCredential, ReqInv
    <2>3. RestInv'
        BY <1>0, <1>6 DEF storeWebAuthnCredential, RestInv
    <2> QED
        BY <1>6, <2>2, <2>3, Untouched DEF storeWebAuthnCredential, AccInv
<1>7. ASSUME NEW c \in 1..AccChallenges, LoginVerify(q, c)
      PROVE  AccInv'
    <2>1. c > budget.challenges
        BY <1>7, Made DEF LoginVerify, loadWebAuthnChallengeByID
    <2>2. keys \in SUBSET AccKeys
        BY <1>0 DEF RestInv
    <2> DEFINE r == [req[q] EXCEPT !.pc = "assert", !.id = c, !.keys = keys, !.type = "login"]
    <2>3. r \in Good
        BY <1>0, <2>1, <2>2, MovingRequests
    <2>4. req' = [req EXCEPT ![q] = r]
        BY <1>7 DEF LoginVerify, loadWebAuthnUser, AccInv, ReqInv
    <2> HIDE DEF r
    <2> QED
        BY <1>7, <2>3, <2>4, OnlyRequest DEF LoginVerify
<1>8. CASE deleteWebAuthnChallenge(q)
    <2> DEFINE c == req[q].id
    <2>1. c \in 1..AccChallenges /\ c > budget.challenges
        BY <1>0, <1>8 DEF deleteWebAuthnChallenge, GoodRequest, Answering
    <2>2. /\ \/ /\ chal' = [chal EXCEPT ![c].st = "gone"]
                /\ UNCHANGED answered \/ answered' = answered \cup {c}
             \/ UNCHANGED <<chal, answered>>
          /\ UNCHANGED budget
        BY <1>8 DEF deleteWebAuthnChallenge
    <2> HIDE DEF c
    <2>3. ChalInv'
        BY <1>0, <2>1, <2>2, ChalStatus, Untouched
    <2>4. ReqInv'
        BY <1>0, <1>1, <1>8 DEF deleteWebAuthnChallenge, ReqInv
    <2> QED
        BY <1>8, <2>3, <2>4, Untouched DEF deleteWebAuthnChallenge, AccInv
<1> QED
    BY <1>3, <1>4, <1>5, <1>6, <1>7, <1>8, <1>9

\* Passkeys: time, the clean-up and the removal of a credential.
LEMMA PasskeyTime ==
    ASSUME AccInv,
           \/ \E c \in 1..AccChallenges : ChallengeExpires(c)
           \/ CleanupExpiredWebAuthnChallenges
           \/ \E k \in AccKeys : DeleteWebAuthnCredential(k)
    PROVE  AccInv'
<1>0. RestInv /\ ChalInv /\ budget.challenges \in Nat
    BY AccAssumption DEF AccInv, RestInv, AccBudget
<1>1. ASSUME NEW c \in 1..AccChallenges, ChallengeExpires(c)
      PROVE  AccInv'
    <2>1. c > budget.challenges
        BY <1>1, Made DEF ChallengeExpires
    <2>2. ChalInv'
        BY <1>0, <1>1, <2>1, ChalStatus DEF ChallengeExpires
    <2> QED
        BY <1>1, <2>2, Untouched DEF ChallengeExpires, AccInv
<1>2. CASE CleanupExpiredWebAuthnChallenges
    <2> DEFINE row(c) == IF chal[c].st = "expired" THEN [chal[c] EXCEPT !.st = "gone"] ELSE chal[c]
    <2>1. \A c \in 1..AccChallenges :
             /\ row(c) \in ChalRow
             /\ chal[c].st \in {"none", "gone"} => row(c).st = chal[c].st
        BY <1>0 DEF ChalInv, ChalRow
    <2>2. chal' = [c \in 1..AccChallenges |-> row(c)] /\ UNCHANGED <<answered, budget>>
        BY <1>2 DEF CleanupExpiredWebAuthnChallenges
    <2> HIDE DEF row
    <2>3. \A c \in 1..budget.challenges : c \in 1..AccChallenges
        BY <1>0, AccAssumption DEF RestInv, AccBudget
    <2>4. ChalInv'
        BY <1>0, <2>1, <2>2, <2>3 DEF ChalInv
    <2> QED
        BY <1>2, <2>4, Untouched DEF CleanupExpiredWebAuthnChallenges, AccInv
<1>3. ASSUME NEW k \in AccKeys, DeleteWebAuthnCredential(k)
      PROVE  AccInv'
    <2>1. RestInv'
        BY <1>0, <1>3 DEF DeleteWebAuthnCredential, RestInv
    <2> QED
        BY <1>3, <2>1, Untouched DEF DeleteWebAuthnCredential, AccInv
<1> QED
    BY <1>1, <1>2, <1>3

\* Accounts and memberships that are made, changed and deleted in one statement, and
\* recovery codes that run out.
LEMMA AdminSteps ==
    ASSUME AccInv,
           \/ \E role \in UserRoles : CreateUser(role)
           \/ DeleteUser
           \/ \E role \in OrgRoles : UpdateOrgUser(role)
           \/ DeleteOrgUser
           \/ \E c \in 1..AccCodes : CodeExpires(c)
    PROVE  AccInv'
<1>0. RestInv /\ AcctInv
    BY DEF AccInv
<1>1. ASSUME NEW role \in UserRoles, CreateUser(role)
      PROVE  AccInv'
    <2>1. /\ budget' \in AccBudget /\ budget'.challenges = budget.challenges
          /\ budget.gens \in 0..AccGens
        BY <1>0, <1>1, SpendOne DEF CreateUser
    <2>2. AcctInv'
        BY <1>0, <1>1, <2>1, AccRows DEF CreateUser, AcctInv
    <2>3. RestInv'
        BY <1>0, <1>1, <2>1 DEF CreateUser, RestInv
    <2> QED
        BY <1>1, <2>1, <2>2, <2>3, Untouched DEF CreateUser, AccInv
<1>2. CASE DeleteUser
    <2>1. AcctInv'
        <3> DEFINE row == [acct EXCEPT !.exists = FALSE]
        <3>1. row \in AccRow /\ row.enabled = acct.enabled /\ row.secret = acct.secret
            BY <1>0, AccRows, AccColumns DEF AcctInv
        <3>2. acct' = row /\ UNCHANGED proven
            BY <1>2 DEF DeleteUser
        <3> QED
            BY <1>0, <3>1, <3>2 DEF AcctInv
    <2> QED
        BY <1>2, <2>1, Untouched DEF DeleteUser, AccInv
<1>3. ASSUME NEW role \in OrgRoles, UpdateOrgUser(role)
      PROVE  AccInv'
    <2>1. budget' \in AccBudget /\ budget'.challenges = budget.challenges
        BY <1>0, <1>3, SpendOne DEF UpdateOrgUser
    <2>2. AcctInv'
        <3> DEFINE row == [acct EXCEPT !.role = mapOrgRoleToUserRole(role)]
        <3>1. row \in AccRow /\ row.enabled = acct.enabled /\ row.secret = acct.secret
            BY <1>0, AccRows, AccColumns DEF AcctInv
        <3>2. acct' \in {row, acct} /\ UNCHANGED proven
            BY <1>3 DEF UpdateOrgUser
        <3> QED
            BY <1>0, <3>1, <3>2 DEF AcctInv
    <2>3. RestInv'
        BY <1>0, <1>3, <2>1 DEF UpdateOrgUser, RestInv
    <2> QED
        BY <1>3, <2>1, <2>2, <2>3, Untouched DEF UpdateOrgUser, AccInv
<1>4. CASE DeleteOrgUser
    <2>1. RestInv'
        BY <1>0, <1>4 DEF DeleteOrgUser, RestInv
    <2> QED
        BY <1>4, <2>1, Untouched DEF DeleteOrgUser, AccInv
<1>5. ASSUME NEW c \in 1..AccCodes, CodeExpires(c)
      PROVE  AccInv'
    <2>1. RestInv'
        BY <1>0, <1>5 DEF CodeExpires, RestInv
    <2> QED
        BY <1>5, <2>1, Untouched DEF CodeExpires, AccInv
<1> QED
    BY <1>1, <1>2, <1>3, <1>4, <1>5

------------------------------------------------------------------------------
LEMMA AccStart == AccInit => AccInv
<1> SUFFICES ASSUME AccInit PROVE AccInv
    OBVIOUS
<1>1. AccGens \in 0..AccGens /\ "admin" \in UserRoles
    BY AccAssumption DEF UserRoles
<1>2. AcctInv
    BY <1>1, AccRows DEF AccInit, AcctInv
<1>3. RestInv
    BY AccAssumption DEF AccInit, RestInv, StoredOrgRoles
<1>4. TokenInv
    BY DEF AccInit, TokenInv, TokenRow, NoToken
<1>5. ChalInv
    <2>1. \A c \in 1..budget.challenges : c \in 1..AccChallenges
        BY <1>3, AccAssumption DEF RestInv, AccBudget
    <2> QED
        BY <2>1 DEF AccInit, ChalInv, ChalRow, NoChallenge
<1>6. ReqInv
    BY SavingRequests DEF AccInit, ReqInv
<1> QED
    BY <1>2, <1>3, <1>4, <1>5, <1>6 DEF AccInv

LEMMA AccStep == AccInv /\ [AccNext]_AccVars => AccInv'
<1> SUFFICES ASSUME AccInv, [AccNext]_AccVars PROVE AccInv'
    OBVIOUS
<1>1. CASE UNCHANGED AccVars
    BY <1>1, Untouched DEF AccVars, AccInv
<1>2. ASSUME NEW q \in AccRequests, AccHandle(q) PROVE AccInv'
    BY <1>2, SaveStep, ReadingSteps, EditingSteps, TokenSteps, PasskeySteps DEF AccHandle
<1>3. ASSUME AccNext, ~\E q \in AccRequests : AccHandle(q) PROVE AccInv'
    BY <1>3, TokenSteps, PasskeyTime, AdminSteps DEF AccNext
<1> QED
    BY <1>1, <1>2, <1>3

\* The invariant says at least what the properties of Accounts say.
LEMMA AccEnough ==
    AccInv => /\ AccTypeOK /\ AccEnabledSecretProven
              /\ AccLogoutFinal /\ AccAnsweredChallengeGone
<1> SUFFICES ASSUME AccInv
             PROVE  /\ AccTypeOK /\ AccEnabledSecretProven
                    /\ AccLogoutFinal /\ AccAnsweredChallengeGone
    OBVIOUS
<1>1. req \in [AccRequests -> AccRequest]
    BY DEF AccInv, ReqInv, GoodRequest
<1>2. AccTypeOK
    BY <1>1 DEF AccInv, AcctInv, RestInv, TokenInv, ChalInv, AccTypeOK, ChalRow, TokenRow,
                AccRequest, AccPcs
<1> QED
    BY <1>2 DEF AccInv, AcctInv, TokenInv, ChalInv, AccEnabledSecretProven, AccLogoutFinal,
                AccAnsweredChallengeGone

\* Rows, requests, tokens and challenges keep their types, however many requests
\* overlap.
THEOREM AccountsTyped == AccSpec => []AccTypeOK
BY AccStart, AccStep, AccEnough, PTL DEF AccSpec

\* Whole-row saves (auth_2fa.go, users.go, orgs.go) never leave an account that asks
\* for codes of a secret no code was verified for.
THEOREM EnabledSecretsProven == AccSpec => []AccEnabledSecretProven
BY AccStart, AccStep, AccEnough, PTL DEF AccSpec

\* A refresh that overlaps a logout (auth_refresh.go) does not bring the token back.
THEOREM LogoutIsFinal == AccSpec => []AccLogoutFinal
BY AccStart, AccStep, AccEnough, PTL DEF AccSpec

\* A login challenge (webauthn.go) that was answered and deleted can never be answered
\* again: every answer goes through the deletion, and a new challenge is always another
\* row.
THEOREM AnsweredChallengesGone == AccSpec => []AccAnsweredChallengeGone
BY AccStart, AccStep, AccEnough, PTL DEF AccSpec

------------------------------------------------------------------------------
(* Enrolment *)

\* A sign-up under way has a code that was made and names somebody.
SignupInv ==
    \A q \in EnrSlots :
        job[q].pc = "commit" /\ job[q].kind = "signup" =>
            /\ job[q].name \in EnrNames /\ job[q].code \in EnrInvites
            /\ invite[job[q].code].st # "none"

\* An agent token is given out once, to one node, and only a token that was given
\* out can be revoked.
AgentTokenInv ==
    /\ \A n \in EnrNodes : cred[n].tok <= agents
    /\ \A n, m \in EnrNodes : cred[n].tok = cred[m].tok /\ cred[n].tok # 0 => n = m
    /\ \A t \in dead : 0 < t /\ t <= agents

\* A registration under way has a registration token.
AgentInv ==
    \A q \in EnrSlots :
        job[q].pc = "commit" /\ job[q].kind = "agent" => job[q].code \in EnrRegs

EnrInv == EnrTypeOK /\ SignupInv /\ AgentInv /\ AgentTokenInv
          /\ EnrInviteAccounting /\ EnrRevokedAgentOut

\* The parts of the invariant that are about invites, and about agents.
InviteInv == SignupInv /\ EnrInviteAccounting
CredInv == AgentInv /\ AgentTokenInv /\ EnrRevokedAgentOut

LEMMA InitHolds == EnrInit => EnrInv
<1> SUFFICES ASSUME EnrInit PROVE EnrInv
    OBVIOUS
<1> USE EnrAssumption DEF EnrInit
<1>2. EnrTypeOK
    BY DEF EnrTypeOK, Invite, UserRow, Request, RegRow, CredRow, EnrIdle
<1>3. SignupInv /\ AgentInv
    BY DEF SignupInv, AgentInv, EnrIdle
<1>4. AgentTokenInv
    BY DEF AgentTokenInv
<1>5. EnrInviteAccounting
    BY DEF EnrInviteAccounting
<1>6. EnrRevokedAgentOut
    BY DEF EnrRevokedAgentOut
<1> QED
    BY <1>2, <1>3, <1>4, <1>5, <1>6 DEF EnrInv

\* Updates of one column keep rows of their type.
LEMMA RowTypes ==
    /\ \A i \in EnrInvites, st \in {"none", "open", "used"}, f \in [EnrInvites -> Invite] :
          [f EXCEPT ![i].st = st] \in [EnrInvites -> Invite]
    /\ \A i \in EnrInvites, f \in [EnrInvites -> Invite] :
          [f EXCEPT ![i].late = TRUE] \in [EnrInvites -> Invite]
    /\ \A i \in EnrInvites, u \in 1..EnrUsers, f \in [EnrInvites -> Invite] :
          [f EXCEPT ![i].st = "used", ![i].by = u] \in [EnrInvites -> Invite]
    /\ \A r \in EnrRegs, st \in {"none", "open", "used"}, f \in [EnrRegs -> RegRow] :
          [f EXCEPT ![r].st = st] \in [EnrRegs -> RegRow]
    /\ \A r \in EnrRegs, f \in [EnrRegs -> RegRow] :
          [f EXCEPT ![r].late = TRUE] \in [EnrRegs -> RegRow]
    /\ \A n \in EnrNodes, f \in [EnrNodes -> CredRow] :
          [f EXCEPT ![n].revoked = TRUE] \in [EnrNodes -> CredRow]
<1>1. \A x \in Invite, st \in {"none", "open", "used"} : [x EXCEPT !.st = st] \in Invite
    BY DEF Invite
<1>2. \A x \in Invite : [x EXCEPT !.late = TRUE] \in Invite
    BY DEF Invite
<1>3. \A x \in Invite, u \in 1..EnrUsers : [x EXCEPT !.st = "used", !.by = u] \in Invite
  <2>1. \A x \in Invite, u \in 0..EnrUsers : [x EXCEPT !.st = "used", !.by = u] \in Invite
      BY DEF Invite
  <2>2. \A u \in 1..EnrUsers : u \in 0..EnrUsers
      BY EnrAssumption
  <2> QED
      BY <2>1, <2>2
<1>4. \A x \in RegRow, st \in {"none", "open", "used"} : [x EXCEPT !.st = st] \in RegRow
    BY DEF RegRow
<1>5. \A x \in RegRow : [x EXCEPT !.late = TRUE] \in RegRow
    BY DEF RegRow
<1>6. \A x \in CredRow : [x EXCEPT !.revoked = TRUE] \in CredRow
    BY DEF CredRow
<1>7. \A i \in EnrInvites, st \in {"none", "open", "used"}, f \in [EnrInvites -> Invite] :
          [f EXCEPT ![i].st = st] \in [EnrInvites -> Invite]
    BY <1>1
<1>8. \A i \in EnrInvites, f \in [EnrInvites -> Invite] :
          [f EXCEPT ![i].late = TRUE] \in [EnrInvites -> Invite]
    BY <1>2
<1>9. \A i \in EnrInvites, u \in 1..EnrUsers, f \in [EnrInvites -> Invite] :
          [f EXCEPT ![i].st = "used", ![i].by = u] \in [EnrInvites -> Invite]
    BY <1>3
<1>10. \A r \in EnrRegs, st \in {"none", "open", "used"}, f \in [EnrRegs -> RegRow] :
          [f EXCEPT ![r].st = st] \in [EnrRegs -> RegRow]
    BY <1>4
<1>11. \A r \in EnrRegs, f \in [EnrRegs -> RegRow] :
          [f EXCEPT ![r].late = TRUE] \in [EnrRegs -> RegRow]
    BY <1>5
<1>12. \A n \in EnrNodes, f \in [EnrNodes -> CredRow] :
          [f EXCEPT ![n].revoked = TRUE] \in [EnrNodes -> CredRow]
    BY <1>6
<1> QED
    BY <1>7, <1>8, <1>9, <1>10, <1>11, <1>12

\* What happens to the table of users: a row is added, or one that was added leaves or
\* comes back; the invite it came with stays.
LEMMA UserRows ==
    ASSUME users \in [1..EnrUsers -> UserRow], NEW u \in 1..EnrUsers
    PROVE  /\ \A n \in EnrNames, i \in EnrInvites \cup {0} :
                 Add(u, n, i) => /\ users' \in [1..EnrUsers -> UserRow]
                                 /\ users'[u].st = "live" /\ users'[u].from = i
                                 /\ \A v \in 1..EnrUsers : v # u => users'[v] = users[v]
           /\ RemoveUser(u) \/ ReturnUser(u) =>
                 /\ users' \in [1..EnrUsers -> UserRow]
                 /\ \A v \in 1..EnrUsers : users'[v].from = users[v].from
                 /\ \A v \in 1..EnrUsers : users[v].st # "none" => users'[v].st # "none"
<1>1. ASSUME NEW n \in EnrNames, NEW i \in EnrInvites \cup {0}, Add(u, n, i)
      PROVE  /\ users' \in [1..EnrUsers -> UserRow]
             /\ users'[u].st = "live" /\ users'[u].from = i
             /\ \A v \in 1..EnrUsers : v # u => users'[v] = users[v]
    BY <1>1 DEF Add, UserRow
<1>2. \A row \in UserRow, st \in {"live", "gone"} :
         /\ [row EXCEPT !.st = st] \in UserRow
         /\ [row EXCEPT !.st = st].from = row.from
         /\ [row EXCEPT !.st = st].st = st
    BY DEF UserRow
<1>3. ASSUME RemoveUser(u) \/ ReturnUser(u)
      PROVE  /\ users' \in [1..EnrUsers -> UserRow]
             /\ \A v \in 1..EnrUsers : users'[v].from = users[v].from
             /\ \A v \in 1..EnrUsers : users[v].st # "none" => users'[v].st # "none"
  <2>1. PICK st \in {"live", "gone"} : users' = [users EXCEPT ![u].st = st]
      BY <1>3 DEF RemoveUser, ReturnUser
  <2> QED
      BY <1>2, <2>1
<1> QED
    BY <1>1, <1>3

LEMMA TypeStep == EnrTypeOK /\ SignupInv /\ AgentInv /\ [EnrNext]_EnrVars => EnrTypeOK'
<1> SUFFICES ASSUME EnrTypeOK, SignupInv, AgentInv, [EnrNext]_EnrVars PROVE EnrTypeOK'
    OBVIOUS
<1> USE EnrAssumption DEF EnrTypeOK
<1>0. EnrIdle \in Request /\ \A q \in EnrSlots : Ends(q) => job' \in [EnrSlots -> Request]
  <2>1. EnrIdle \in Request
      BY ONLY DEF EnrIdle, Request
  <2> QED
      BY <2>1 DEF Ends
<1>1. ASSUME NEW i \in EnrInvites, CreateInvite(i) \/ RevokeInvite(i) \/ InviteExpires(i)
      PROVE  EnrTypeOK'
  <2>0. /\ [invite EXCEPT ![i].st = "open"] \in [EnrInvites -> Invite]
        /\ [invite EXCEPT ![i].st = "used"] \in [EnrInvites -> Invite]
        /\ [invite EXCEPT ![i].late = TRUE] \in [EnrInvites -> Invite]
      BY RowTypes
  <2>1. invite' \in [EnrInvites -> Invite]
      BY ONLY <1>1, <2>0 DEF CreateInvite, RevokeInvite, InviteExpires
  <2> QED
      BY <1>1, <2>1 DEF CreateInvite, RevokeInvite, InviteExpires
<1>2. ASSUME NEW n \in EnrNames, WindowEnds(n) PROVE EnrTypeOK'
    BY <1>2 DEF WindowEnds
<1>3. ASSUME NEW q \in EnrSlots, NEW n \in EnrNames, NEW i \in EnrInvites, SignupRead(q, n, i)
      PROVE  EnrTypeOK'
    BY <1>3 DEF SignupRead, Allow, Request
<1>4. ASSUME NEW q \in EnrSlots, SignupCommit(q) PROVE EnrTypeOK'
  <2>1. job[q].name \in EnrNames /\ job[q].code \in EnrInvites
      BY <1>4 DEF SignupCommit, SignupInv
  <2>0. \A u \in 1..EnrUsers :
           [invite EXCEPT ![job[q].code].st = "used", ![job[q].code].by = u]
              \in [EnrInvites -> Invite]
      BY <2>1, RowTypes
  <2>4. \A u \in 1..EnrUsers : MarkUsed(job[q].code, u) => invite' \in [EnrInvites -> Invite]
      BY <2>0 DEF MarkUsed
  <2>5. \/ \E u \in 1..EnrUsers : MarkUsed(job[q].code, u)
        \/ UNCHANGED invite
      BY <1>4 DEF SignupCommit
  <2>2. invite' \in [EnrInvites -> Invite]
      BY <2>4, <2>5
  <2>3. users' \in [1..EnrUsers -> UserRow]
      BY <1>4, <2>1, UserRows DEF SignupCommit
  <2> QED
      BY <1>0, <1>4, <2>2, <2>3 DEF SignupCommit
<1>5. ASSUME NEW q \in EnrSlots, AgentRegisterCommit(q) PROVE EnrTypeOK'
  <2>1. job[q].code \in EnrRegs /\ RegNode[job[q].code] \in EnrNodes
      BY <1>5 DEF AgentRegisterCommit, AgentInv
  <2>0. [reg EXCEPT ![job[q].code].st = "used"] \in [EnrRegs -> RegRow]
      BY <2>1, RowTypes
  <2>2. reg' \in [EnrRegs -> RegRow]
      BY <1>5, <2>0 DEF AgentRegisterCommit
  <2>3. agents' \in 0..EnrAgents
      BY <1>5 DEF AgentRegisterCommit
  <2>4. agents < EnrAgents =>
           [cred EXCEPT ![RegNode[job[q].code]] = UpsertCredential(RegNode[job[q].code], agents + 1)]
              \in [EnrNodes -> CredRow]
      BY <2>1 DEF UpsertCredential, CredRow
  <2>5. cred' \in [EnrNodes -> CredRow]
      BY <1>5, <2>4 DEF AgentRegisterCommit
  <2> QED
      BY <1>0, <1>5, <2>2, <2>3, <2>5 DEF AgentRegisterCommit
<1>6. ASSUME NEW r \in EnrRegs, CreateOrgNode(r) \/ RegExpires(r) PROVE EnrTypeOK'
  <2>0. /\ [reg EXCEPT ![r].st = "open"] \in [EnrRegs -> RegRow]
        /\ [reg EXCEPT ![r].late = TRUE] \in [EnrRegs -> RegRow]
      BY RowTypes
  <2>1. reg' \in [EnrRegs -> RegRow]
      BY <1>6, <2>0 DEF CreateOrgNode, RegExpires
  <2> QED
      BY <1>6, <2>1 DEF CreateOrgNode, RegExpires
<1>7. ASSUME NEW q \in EnrSlots, NEW r \in EnrRegs, AgentRegisterRead(q, r) PROVE EnrTypeOK'
  <2>1. job' \in [EnrSlots -> Request]
      BY <1>7 DEF AgentRegisterRead, Request
  <2> QED
      BY <1>7, <2>1 DEF AgentRegisterRead
<1>8. ASSUME NEW n \in EnrNodes, DeleteOrgNode(n) PROVE EnrTypeOK'
  <2>1. \A x \in RegRow : [x EXCEPT !.st = "used"] \in RegRow
      BY DEF RegRow
  <2>2. reg' \in [EnrRegs -> RegRow]
      BY <1>8, <2>1 DEF DeleteOrgNode
  <2>3. cred' \in [EnrNodes -> CredRow]
      BY <1>8 DEF DeleteOrgNode, CredRow
  <2> QED
      BY <1>8, <2>2, <2>3 DEF DeleteOrgNode
<1>9. ASSUME NEW n \in EnrNodes, RevokeAgent(n) PROVE EnrTypeOK'
  <2>1. cred' \in [EnrNodes -> CredRow]
      BY <1>9, RowTypes DEF RevokeAgent
  <2>2. dead' \subseteq 1..EnrAgents
      BY <1>9 DEF RevokeAgent, CredRow
  <2> QED
      BY <1>9, <2>1, <2>2 DEF RevokeAgent
<1>10. CASE UNCHANGED EnrVars
    BY <1>10 DEF EnrVars
<1>11. ASSUME NEW u \in 1..EnrUsers,
              RemoveUser(u) \/ ReturnUser(u) \/ \E n \in EnrNames : AddUser(n)
       PROVE  EnrTypeOK'
  <2>1. users' \in [1..EnrUsers -> UserRow]
      BY <1>11, UserRows DEF AddUser
  <2> QED
      BY <1>11, <2>1 DEF AddUser, RemoveUser, ReturnUser
<1>12. ASSUME NEW n \in EnrNames, AddUser(n) PROVE EnrTypeOK'
    BY <1>11, <1>12 DEF AddUser
<1> QED
    BY <1>1, <1>2, <1>3, <1>4, <1>5, <1>6, <1>7, <1>8, <1>9, <1>10, <1>11, <1>12
    DEF EnrNext, AdminCreateInvite, OrgCreateInvite, AdminRevokeInvite, OrgRevokeInvite

LEMMA InviteStep == EnrTypeOK /\ InviteInv /\ [EnrNext]_EnrVars => InviteInv'
<1> SUFFICES ASSUME EnrTypeOK, InviteInv, [EnrNext]_EnrVars PROVE InviteInv'
    OBVIOUS
<1> USE EnrAssumption DEF EnrTypeOK, Invite, UserRow, Request, InviteInv, SignupInv, EnrInviteAccounting
<1>1. ASSUME NEW i \in EnrInvites, CreateInvite(i) \/ RevokeInvite(i) \/ InviteExpires(i)
      PROVE  InviteInv'
  <2>1. /\ \A x \in EnrInvites : invite'[x].by = invite[x].by
        /\ \A x \in EnrInvites : invite[x].st = "used" => invite'[x].st = "used"
        /\ \A x \in EnrInvites : invite[x].st # "none" => invite'[x].st # "none"
    <3>1. /\ \A y \in Invite, v \in {"open", "used"} :
                [y EXCEPT !.st = v].by = y.by /\ [y EXCEPT !.st = v].st = v
          /\ \A y \in Invite :
                [y EXCEPT !.late = TRUE].by = y.by /\ [y EXCEPT !.late = TRUE].st = y.st
        BY ONLY DEF Invite
    <3>2. \E y : /\ invite' = [invite EXCEPT ![i] = y] /\ y.by = invite[i].by
                 /\ invite[i].st = "used" => y.st = "used"
                 /\ invite[i].st # "none" => y.st # "none"
      <4>1. invite \in [EnrInvites -> Invite] /\ invite[i] \in Invite
          OBVIOUS
      <4>2. CASE CreateInvite(i)
        <5> WITNESS [invite[i] EXCEPT !.st = "open"]
        <5> QED
            BY ONLY <3>1, <4>1, <4>2 DEF CreateInvite
      <4>3. CASE RevokeInvite(i)
        <5> WITNESS [invite[i] EXCEPT !.st = "used"]
        <5> QED
            BY ONLY <3>1, <4>1, <4>3 DEF RevokeInvite
      <4>4. CASE InviteExpires(i)
        <5> WITNESS [invite[i] EXCEPT !.late = TRUE]
        <5> QED
            BY ONLY <3>1, <4>1, <4>4 DEF InviteExpires
      <4> QED
          BY ONLY <1>1, <4>2, <4>3, <4>4
    <3> QED
        BY <3>2
  <2>2. UNCHANGED <<users, job>>
      BY <1>1 DEF CreateInvite, RevokeInvite, InviteExpires
  <2>3. SignupInv'
      BY <2>1, <2>2
  <2>4. EnrInviteAccounting'
      BY <2>1, <2>2
  <2> QED
      BY <2>3, <2>4
<1>2. ASSUME NEW q \in EnrSlots, NEW n \in EnrNames, NEW i \in EnrInvites, SignupRead(q, n, i)
      PROVE  InviteInv'
  <2>1. UNCHANGED <<invite, users>>
      BY <1>2 DEF SignupRead
  <2>2. EnrInviteAccounting'
      BY <2>1
  <2>3. CASE UNCHANGED job
      BY <2>1, <2>3
  <2>4. CASE InviteUsable(i) /\ job' = [job EXCEPT ![q] = [pc |-> "commit", name |-> n, code |-> i,
                                                         kind |-> "signup"]]
    <3>1. /\ job'[q].name = n /\ job'[q].code = i
          /\ \A p \in EnrSlots : p # q => job'[p] = job[p]
        BY ONLY <2>4, job \in [EnrSlots -> Request]
    <3>2. invite[i].st = "open"
        BY ONLY <2>4 DEF InviteUsable
    <3> QED
        BY <2>1, <2>2, <3>1, <3>2
  <2> QED
      BY <1>2, <2>3, <2>4 DEF SignupRead
<1>3. ASSUME NEW q \in EnrSlots, SignupCommit(q) PROVE InviteInv'
  <2> DEFINE n == job[q].name
             i == job[q].code
  <2>1. n \in EnrNames /\ i \in EnrInvites /\ invite[i].st # "none"
      BY <1>3 DEF SignupCommit
  <2>5. job'[q].pc = "idle" /\ \A p \in EnrSlots : p # q => job'[p] = job[p]
      BY ONLY <1>3, job \in [EnrSlots -> Request] DEF SignupCommit, Ends, EnrIdle
  <2>6. \A x \in EnrInvites : invite[x].st # "none" => invite'[x].st # "none"
    <3>1. ASSUME NEW u, MarkUsed(i, u)
          PROVE  \A x \in EnrInvites : invite[x].st # "none" => invite'[x].st # "none"
        BY ONLY <3>1, <2>1, invite \in [EnrInvites -> Invite] DEF MarkUsed, Invite
    <3> QED
        BY ONLY <1>3, <3>1 DEF SignupCommit
  <2>2. SignupInv'
      BY <2>5, <2>6
  <2>3. CASE UNCHANGED <<users, invite>>
      BY <2>2, <2>3
  <2>4. ASSUME NEW u \in 1..EnrUsers, NewUser(u), Add(u, n, i), MarkUsed(i, u)
        PROVE  EnrInviteAccounting'
    <3>1. /\ users'[u].st = "live" /\ users'[u].from = i
          /\ \A v \in 1..EnrUsers : v # u => users'[v] = users[v]
        BY <2>1, <2>4, UserRows
    <3>2. users[u].st = "none"
        BY <2>4 DEF NewUser
    <3>3. /\ invite'[i].st = "used"
          /\ \A x \in EnrInvites : invite[x].st = "used" => invite'[x].st = "used"
        BY <2>1, <2>4 DEF MarkUsed
    <3>4. \A x \in EnrInvites : invite'[x].by = invite[x].by \/ (x = i /\ invite'[x].by = u)
        BY <2>1, <2>4 DEF MarkUsed
    <3>5. \A v \in 1..EnrUsers : users'[v].from \in EnrInvites =>
             invite'[users'[v].from].st = "used"
        BY <3>1, <3>3
    <3>6. ASSUME NEW x \in EnrInvites, invite'[x].by # 0
          PROVE  users'[invite'[x].by].st # "none" /\ users'[invite'[x].by].from = x
      <4>1. CASE x = i /\ invite'[x].by = u
          BY <3>1, <4>1
      <4>2. CASE invite'[x].by = invite[x].by
        <5>1. invite[x].by \in 1..EnrUsers /\ users[invite[x].by].st # "none"
            BY <3>6, <4>2
        <5> QED
            BY <3>1, <3>2, <3>6, <4>2, <5>1
      <4> QED
          BY <3>4, <4>1, <4>2
    <3> QED
        BY <3>5, <3>6
  <2> QED
      BY <1>3, <2>2, <2>3, <2>4 DEF SignupCommit
<1>7. ASSUME NEW u \in 1..EnrUsers, RemoveUser(u) \/ ReturnUser(u) PROVE InviteInv'
  <2>1. UNCHANGED <<invite, job>>
      BY <1>7 DEF RemoveUser, ReturnUser
  <2>2. /\ \A v \in 1..EnrUsers : users'[v].from = users[v].from
        /\ \A v \in 1..EnrUsers : users[v].st # "none" => users'[v].st # "none"
      BY <1>7, UserRows
  <2> QED
      BY <2>1, <2>2
<1>8. ASSUME NEW n \in EnrNames, AddUser(n) PROVE InviteInv'
  <2>1. PICK u \in 1..EnrUsers : NewUser(u) /\ Add(u, n, 0)
      BY <1>8 DEF AddUser
  <2>2. /\ users'[u].st = "live" /\ users'[u].from = 0 /\ users[u].st = "none"
        /\ \A v \in 1..EnrUsers : v # u => users'[v] = users[v]
      BY <2>1, UserRows DEF NewUser
  <2>3. UNCHANGED <<invite, job>>
      BY <1>8 DEF AddUser
  <2>4. SignupInv'
      BY <2>3
  <2>5. \A v \in 1..EnrUsers :
           users'[v].from \in EnrInvites => invite'[users'[v].from].st = "used"
      BY <2>2, <2>3
  <2>6. ASSUME NEW x \in EnrInvites, invite'[x].by # 0
        PROVE  users'[invite'[x].by].st # "none" /\ users'[invite'[x].by].from = x
    <3>1. invite[x].by \in 1..EnrUsers /\ users[invite[x].by].st # "none"
          /\ users[invite[x].by].from = x
        BY <2>3, <2>6
    <3> QED
        BY <2>2, <2>3, <3>1
  <2> QED
      BY <2>4, <2>5, <2>6
<1>4. ASSUME UNCHANGED <<invite, users, job>> PROVE InviteInv'
    BY <1>4
<1>5. ASSUME NEW q \in EnrSlots, AgentRegisterCommit(q) PROVE InviteInv'
    BY <1>5 DEF AgentRegisterCommit, Ends, EnrIdle
<1>6. ASSUME NEW q \in EnrSlots, NEW r \in EnrRegs, AgentRegisterRead(q, r) PROVE InviteInv'
    BY <1>6 DEF AgentRegisterRead
<1> QED
    BY <1>1, <1>2, <1>3, <1>4, <1>5, <1>6, <1>7, <1>8
    DEF EnrNext, EnrVars, AdminCreateInvite, OrgCreateInvite, AdminRevokeInvite, OrgRevokeInvite,
        WindowEnds, CreateOrgNode, RegExpires, DeleteOrgNode, RevokeAgent

LEMMA CredStep == EnrTypeOK /\ CredInv /\ [EnrNext]_EnrVars => CredInv'
<1> SUFFICES ASSUME EnrTypeOK, CredInv, [EnrNext]_EnrVars PROVE CredInv'
    OBVIOUS
<1> USE EnrAssumption
    DEF EnrTypeOK, Request, CredRow, CredInv, AgentInv, AgentTokenInv, EnrRevokedAgentOut, Authenticates
<1>1. ASSUME NEW q \in EnrSlots, AgentRegisterCommit(q) PROVE CredInv'
  <2> DEFINE n == RegNode[job[q].code]
  <2>1. n \in EnrNodes
      BY <1>1 DEF AgentRegisterCommit
  <2>2. AgentInv'
      BY <1>1 DEF AgentRegisterCommit, Ends, EnrIdle
  <2>3. CASE agents' = agents + 1 /\ cred' = [cred EXCEPT ![n] = UpsertCredential(n, agents + 1)]
    <3>1. dead' = dead
        BY <1>1 DEF AgentRegisterCommit
    <3>2. /\ cred'[n].tok = agents + 1
          /\ \A m \in EnrNodes : m # n => cred'[m] = cred[m]
        BY <2>1, <2>3 DEF UpsertCredential
    <3>3. AgentTokenInv'
        BY <2>3, <3>1, <3>2
    <3>4. EnrRevokedAgentOut'
        BY <3>1, <3>2
    <3> QED
        BY <2>2, <3>3, <3>4
  <2>4. CASE UNCHANGED <<agents, cred>>
      BY <1>1, <2>2, <2>4 DEF AgentRegisterCommit
  <2> QED
      BY <1>1, <2>3, <2>4 DEF AgentRegisterCommit
<1>2. ASSUME NEW n \in EnrNodes, DeleteOrgNode(n) PROVE CredInv'
    BY <1>2 DEF DeleteOrgNode
<1>3. ASSUME NEW n \in EnrNodes, RevokeAgent(n) PROVE CredInv'
  <2>1. AgentInv' /\ AgentTokenInv'
      BY <1>3 DEF RevokeAgent
  <2>2. EnrRevokedAgentOut'
      BY <1>3 DEF RevokeAgent
  <2> QED
      BY <2>1, <2>2
<1>4. ASSUME UNCHANGED <<job, cred, agents, dead>> PROVE CredInv'
    BY <1>4
<1>5. ASSUME NEW q \in EnrSlots, NEW n \in EnrNames, NEW i \in EnrInvites, SignupRead(q, n, i)
      PROVE  CredInv'
  <2>1. UNCHANGED <<cred, agents, dead>>
      BY <1>5 DEF SignupRead
  <2>2. AgentTokenInv' /\ EnrRevokedAgentOut'
      BY <2>1
  <2>3. CASE UNCHANGED job
      BY <2>2, <2>3
  <2>4. CASE job' = [job EXCEPT ![q] = [pc |-> "commit", name |-> n, code |-> i,
                                        kind |-> "signup"]]
    <3>1. job'[q].kind = "signup" /\ \A p \in EnrSlots : p # q => job'[p] = job[p]
        BY ONLY <2>4, job \in [EnrSlots -> Request]
    <3> QED
        BY <2>2, <3>1
  <2> QED
      BY <1>5, <2>3, <2>4 DEF SignupRead
<1>6. ASSUME NEW q \in EnrSlots, SignupCommit(q) PROVE CredInv'
    BY <1>6 DEF SignupCommit, Ends, EnrIdle
<1>7. ASSUME NEW q \in EnrSlots, NEW r \in EnrRegs, AgentRegisterRead(q, r) PROVE CredInv'
    BY <1>7 DEF AgentRegisterRead
<1> QED
    BY <1>1, <1>2, <1>3, <1>4, <1>5, <1>6, <1>7
    DEF EnrNext, EnrVars, AdminCreateInvite, OrgCreateInvite, AdminRevokeInvite, OrgRevokeInvite,
        CreateInvite, RevokeInvite, InviteExpires, WindowEnds, CreateOrgNode, RegExpires,
        AddUser, RemoveUser, ReturnUser

LEMMA EnrStep == EnrInv /\ [EnrNext]_EnrVars => EnrInv'
BY TypeStep, InviteStep, CredStep DEF EnrInv, InviteInv, CredInv

LEMMA EnrInvariant == EnrSpec => []EnrInv
BY InitHolds, EnrStep, PTL DEF EnrSpec

\* Signup: however look-ups and transactions overlap, fail, or meet a revocation or the
\* deletion of an account, the invite of an account is used up and an invite names an
\* account that was made from it.
THEOREM InviteAccountingHolds == EnrSpec => []EnrInviteAccounting
    BY EnrInvariant, PTL DEF EnrInv

\* AgentRegister, RevokeAgent, AgentAuth: a token that was revoked is never accepted
\* again, however often the node is registered, deleted or made anew.
THEOREM RevokedAgentOutHolds == EnrSpec => []EnrRevokedAgentOut
    BY EnrInvariant, PTL DEF EnrInv

------------------------------------------------------------------------------
(* Export and import of an organisation *)

Tabs == {"node", "service", "bot", "check", "key"}
Table == UNION {[S -> Row] : S \in SUBSET (1..TrfIds)}
TrfImport == [pc : {"idle", "purge", "done"}, org : Orgs, k : 1..6,
              wait : SUBSET (1..TrfIds), gone : SUBSET (1..TrfIds), rows : Table]

TrfTyped ==
    /\ tables \in Table /\ file \in Table
    /\ exp \in [n : 0..TrfExports, org : Orgs, k : 1..6, rows : Table]
    /\ imp \in [TrfImporters -> TrfImport]
    /\ update \in [id : 0..TrfIds, row : Row]
    /\ removing \in [id : 0..TrfIds, gone : SUBSET (1..TrfIds)]
    /\ nextId \in 1..(TrfIds + 1) /\ trfEdits \in 0..TrfEdits /\ disturbed \subseteq Orgs
    /\ dropped \subseteq 1..TrfIds

\* What a row of a table may refer to.
RefersTo(tab) ==
    {to \in {"node", "service", "bot"} : tab # "node" /\ (to # "node" => tab = "check")}

\* A row refers to a row of its organisation, of a table that fits, if there is one:
\* an id is never given twice, but UpdateNode may bring one back.
RowInv(x) ==
    /\ x < nextId /\ tables[x].ref < nextId
    /\ tables[x].tab = "node" => tables[x].ref = 0
    /\ tables[x].tab \in {"service", "bot", "check"} => tables[x].ref # 0
    /\ tables[x].ref \in DOMAIN tables =>
          /\ tables[tables[x].ref].org = tables[x].org
          /\ tables[tables[x].ref].tab \in RefersTo(tables[x].tab)
    /\ tables[x].ref # 0 /\ tables[x].ref = update.id =>
          update.row.org = tables[x].org /\ "node" \in RefersTo(tables[x].tab)
    /\ tables[x].ref # 0 =>
          \/ tables[x].ref \in DOMAIN tables
          \/ /\ tables[x].tab = "check"
             /\ tables[x].org \in disturbed \/ tables[x].ref \in dropped

UpdateInv ==
    /\ update.id < nextId
    /\ update.id # 0 =>
          /\ update.row.tab = "node" /\ update.row.ref = 0
          /\ update.id \in DOMAIN tables =>
                tables[update.id].tab = "node" /\ tables[update.id].org = update.row.org

\* The tables whose statements are done.
Before(k) == {PurgeOrder[j] : j \in 1..(k - 1)}

\* The rows that an import is to insert refer to each other.
FileOK(f) ==
    \A x \in DOMAIN f :
        /\ f[x].tab \in {"service", "bot", "check"} => f[x].ref # 0
        /\ f[x].tab # "node" /\ f[x].ref # 0 =>
              f[x].ref \in DOMAIN f /\ f[f[x].ref].tab \in RefersTo(f[x].tab)

\* A check whose target is gone: no organisation's, for the statements of an import.
Stray(x) == tables[x].tab = "check" /\ tables[x].ref \notin DOMAIN tables

\* What hangs on deleted rows is deleted.
Closed(S) ==
    \A x \in DOMAIN tables :
        tables[x].tab \in {"service", "bot"} /\ tables[x].ref \in S => x \in S

\* What a transaction has deleted, and what it waits for, is of its organisation and
\* of the tables it has got to; unless somebody met it, only strays are left of these.
ImportInv(t) ==
    LET i == imp[t] IN
    /\ i.pc # "purge" => i.wait = {} /\ i.gone = {}
    /\ i.pc = "purge" => FileOK(i.rows)
    /\ i.wait # {} => i.k <= 5
    /\ i.gone \subseteq DOMAIN tables /\ Closed(i.gone)
    /\ \A x \in i.gone : tables[x].tab \in Before(i.k) /\ tables[x].org = i.org
    /\ \A x \in i.wait :
          /\ x < nextId
          /\ x \in DOMAIN tables => tables[x].tab = PurgeOrder[i.k] /\ tables[x].org = i.org
          /\ x = update.id => update.row.tab = PurgeOrder[i.k] /\ update.row.org = i.org
    /\ i.pc = "purge" /\ i.org \notin disturbed =>
          \A x \in DOMAIN tables : tables[x].org = i.org /\ ~Stray(x) =>
              /\ tables[x].tab \in Before(i.k) => x \in i.gone
              /\ i.wait # {} /\ tables[x].tab = PurgeOrder[i.k] => x \in i.wait

\* DeleteNode has deleted checks, all that there are of the node and of what hangs on
\* it, unless a service has come.
RemovingInv ==
    /\ removing.id < nextId
    /\ removing.id = 0 => removing.gone = {}
    /\ removing.gone \subseteq DOMAIN tables
    /\ \A x \in removing.gone : tables[x].tab = "check"
    /\ removing.id # 0 =>
          \A x \in DOMAIN tables :
              /\ tables[x].tab = "check" /\ tables[x].org \notin disturbed
              /\ tables[x].ref \in WithHanging({removing.id})
              => x \in removing.gone

\* Two transactions delete different rows; of two imports of one organisation, one has
\* met the other.
ApartInv ==
    /\ \A t, u \in TrfImporters : t # u =>
          /\ imp[t].gone \cap imp[u].gone = {}
          /\ imp[t].pc = "purge" /\ imp[u].pc = "purge" /\ imp[t].org = imp[u].org
             => imp[t].org \in disturbed
    /\ \A t \in TrfImporters : removing.gone \cap imp[t].gone = {}

TrfInv ==
    /\ TrfTyped
    /\ \A x \in DOMAIN tables : RowInv(x)
    /\ UpdateInv
    /\ \A t \in TrfImporters : ImportInv(t)
    /\ RemovingInv
    /\ ApartInv

------------------------------------------------------------------------------
(* Rows, tables, orders *)

LEMMA TabsOf ==
    /\ {ExportOrder[n] : n \in 1..5} = Tabs /\ {PurgeOrder[n] : n \in 1..5} = Tabs
    /\ \A n \in 1..5 : ExportOrder[n] \in Tabs /\ PurgeOrder[n] \in Tabs
<1>1. /\ ExportOrder[1] = "node" /\ ExportOrder[2] = "service" /\ ExportOrder[3] = "bot"
      /\ ExportOrder[4] = "check" /\ ExportOrder[5] = "key"
      /\ PurgeOrder[1] = "check" /\ PurgeOrder[2] = "service" /\ PurgeOrder[3] = "bot"
      /\ PurgeOrder[4] = "key" /\ PurgeOrder[5] = "node"
    BY DEF ExportOrder, PurgeOrder
<1>2. 1..5 = {1, 2, 3, 4, 5}
    OBVIOUS
<1> QED
    BY <1>1, <1>2 DEF Tabs

LEMMA RowIs ==
    Row = [tab : Tabs, org : Orgs, ref : 0..TrfIds, content : 1..TrfIds, zero : BOOLEAN]
BY TabsOf DEF Row

LEMMA TableIs ==
    ASSUME NEW f \in Table
    PROVE  /\ DOMAIN f \subseteq 1..TrfIds /\ f \in [DOMAIN f -> Row]
           /\ \A x \in DOMAIN f : f[x] \in Row
BY DEF Table

LEMMA TableMade ==
    ASSUME NEW S \in SUBSET (1..TrfIds), NEW f \in [S -> Row]
    PROVE  f \in Table /\ DOMAIN f = S
BY DEF Table

LEMMA EmptyTable == <<>> \in Table /\ DOMAIN <<>> = {}
<1>1. <<>> \in [{} -> Row]
    BY EmptySeq, LenProperties
<1> QED
    BY <1>1, TableMade

LEMMA IdleIs ==
    /\ Idle \in TrfImport /\ Idle.pc = "idle" /\ Idle.k = 1 /\ Idle.wait = {} /\ Idle.gone = {}
<1>1. ASSUME NEW p \in {"idle"}, NEW o \in Orgs, NEW k \in 1..6, NEW s \in SUBSET (1..TrfIds),
             NEW r \in Table
      PROVE  [pc |-> p, org |-> o, k |-> k, wait |-> s, gone |-> s, rows |-> r] \in TrfImport
    BY DEF TrfImport
<1>2. 1 \in Orgs /\ 1 \in 1..6 /\ {} \in SUBSET (1..TrfIds)
    BY DEF Orgs
<1>3. Idle \in TrfImport
    BY <1>1, <1>2, EmptyTable DEF Idle
<1> QED
    BY <1>3 DEF Idle

\* What the statements before the k-th have dealt with.
LEMMA BeforeGrows ==
    /\ Before(1) = {} /\ Before(6) = Tabs
    /\ \A k \in 1..5 : Before(k + 1) = Before(k) \cup {PurgeOrder[k]} /\ PurgeOrder[k] \notin Before(k)
    /\ \A k \in 1..5 : "node" \notin Before(k)
    /\ \A k \in 1..5 : PurgeOrder[k] = "check" => k = 1
    /\ \A k \in 1..5 : PurgeOrder[k] = "node" => k = 5
<1>1. /\ PurgeOrder[1] = "check" /\ PurgeOrder[2] = "service" /\ PurgeOrder[3] = "bot"
      /\ PurgeOrder[4] = "key" /\ PurgeOrder[5] = "node"
    BY DEF PurgeOrder
<1>2. /\ 1..(1-1) = {} /\ 1..(2-1) = {1} /\ 1..(3-1) = {1, 2} /\ 1..(4-1) = {1, 2, 3}
      /\ 1..(5-1) = {1, 2, 3, 4} /\ 1..(6-1) = {1, 2, 3, 4, 5}
    OBVIOUS
<1>3. /\ Before(1) = {} /\ Before(2) = {"check"} /\ Before(3) = {"check", "service"}
      /\ Before(4) = {"check", "service", "bot"} /\ Before(5) = {"check", "service", "bot", "key"}
      /\ Before(6) = {"check", "service", "bot", "key", "node"}
    BY <1>1, <1>2 DEF Before
<1>4. \A k \in 1..5 : k \in {1, 2, 3, 4, 5}
    OBVIOUS
<1>5. Before(6) = Tabs
    BY <1>3 DEF Tabs
<1>6. ASSUME NEW k \in 1..5
      PROVE  /\ Before(k + 1) = Before(k) \cup {PurgeOrder[k]} /\ PurgeOrder[k] \notin Before(k)
             /\ "node" \notin Before(k) /\ (PurgeOrder[k] = "check" => k = 1)
             /\ (PurgeOrder[k] = "node" => k = 5)
    <2>1. CASE k = 1
        BY <1>1, <1>3, <2>1
    <2>2. CASE k = 2
        BY <1>1, <1>3, <2>2
    <2>3. CASE k = 3
        BY <1>1, <1>3, <2>3
    <2>4. CASE k = 4
        BY <1>1, <1>3, <2>4
    <2>5. CASE k = 5
        BY <1>1, <1>3, <2>5
    <2> QED
        BY <1>4, <2>1, <2>2, <2>3, <2>4, <2>5
<1> QED
    BY <1>3, <1>5, <1>6

LEMMA TrfTypeHolds == TrfTyped => TrfTypeOK
<1> SUFFICES ASSUME TrfTyped PROVE TrfTypeOK
    OBVIOUS
<1>1. /\ DOMAIN tables \subseteq 1..TrfIds /\ \A x \in DOMAIN tables : tables[x] \in Row
      /\ \A x \in DOMAIN file : file[x] \in Row
    BY TableIs DEF TrfTyped
<1>2. ASSUME NEW t \in TrfImporters
      PROVE  /\ imp[t].pc \in {"idle", "purge", "done"} /\ imp[t].org \in Orgs
             /\ imp[t].k \in 1..6
             /\ imp[t].wait \cup imp[t].gone \subseteq 1..TrfIds
    BY DEF TrfTyped, TrfImport
<1> QED
    BY <1>1, <1>2 DEF TrfTyped, TrfTypeOK

\* Plus and Restrict.
LEMMA PlusTable ==
    ASSUME NEW f \in Table, NEW g \in Table
    PROVE  /\ Plus(f, g) \in Table /\ DOMAIN Plus(f, g) = DOMAIN f \cup DOMAIN g
           /\ \A x \in DOMAIN g : Plus(f, g)[x] = g[x]
           /\ \A x \in DOMAIN f \ DOMAIN g : Plus(f, g)[x] = f[x]
<1> DEFINE S == DOMAIN f \cup DOMAIN g
           h == [x \in S |-> IF x \in DOMAIN g THEN g[x] ELSE f[x]]
<1>1. S \in SUBSET (1..TrfIds) /\ \A x \in S : (IF x \in DOMAIN g THEN g[x] ELSE f[x]) \in Row
    BY TableIs
<1>2. h \in [S -> Row]
    BY <1>1
<1>3. h = Plus(f, g)
    BY DEF Plus
<1>4. h \in Table /\ DOMAIN h = S
    BY <1>1, <1>2, TableMade
<1> QED
    BY <1>3, <1>4

LEMMA RestrictTable ==
    ASSUME NEW f \in Table, NEW S \in SUBSET DOMAIN f
    PROVE  /\ Restrict(f, S) \in Table /\ DOMAIN Restrict(f, S) = S
           /\ \A x \in S : Restrict(f, S)[x] = f[x]
<1>1. S \in SUBSET (1..TrfIds) /\ [x \in S |-> f[x]] \in [S -> Row]
    BY TableIs
<1>2. Restrict(f, S) = [x \in S |-> f[x]]
    BY DEF Restrict
<1> QED
    BY <1>1, <1>2, TableMade

------------------------------------------------------------------------------
(* What a step leaves of the others *)

\* A step on the committed rows: an id keeps its table and organisation, and what it
\* refers to unless it is a key; a row that comes has a new id or is the one that
\* UpdateNode has read.
TablesGo ==
    /\ \A x \in DOMAIN tables \cap DOMAIN tables' :
          /\ tables'[x].tab = tables[x].tab /\ tables'[x].org = tables[x].org
          /\ \/ tables'[x].ref = tables[x].ref
             \/ tables[x].tab = "key" /\ tables'[x].ref = 0
    /\ \A x \in DOMAIN tables' \ DOMAIN tables :
          \/ ~(x < nextId)
          \/ /\ x = update.id /\ tables'[x].tab = update.row.tab
             /\ tables'[x].org = update.row.org
    /\ disturbed \subseteq disturbed' /\ dropped \subseteq dropped'
    /\ nextId \in Nat /\ nextId' \in Nat /\ nextId <= nextId'
    /\ \/ update'.id = update.id /\ update'.row = update.row
       \/ update'.id = 0
       \/ /\ update'.id \in DOMAIN tables /\ tables[update'.id].tab = "node"
          /\ update'.row.tab = "node" /\ update'.row.ref = 0
          /\ update'.row.org = tables[update'.id].org

LEMMA ImportKept ==
    ASSUME TrfInv, TablesGo, NEW t \in TrfImporters, imp'[t] = imp[t],
           imp[t].gone \subseteq DOMAIN tables',
           \A x \in DOMAIN tables' \ DOMAIN tables :
              /\ tables'[x].org = imp[t].org /\ imp[t].pc = "purge" => imp[t].org \in disturbed'
              /\ tables'[x].tab \in {"service", "bot"} => tables'[x].ref \notin imp[t].gone
    PROVE  ImportInv(t)'
<1> DEFINE i == imp[t]
<1>0. ImportInv(t) /\ i \in TrfImport
    BY DEF TrfInv, TrfTyped
<1>1. /\ i.pc # "purge" => i.wait = {} /\ i.gone = {}
      /\ i.pc = "purge" => FileOK(i.rows)
      /\ i.wait # {} => i.k <= 5
    BY <1>0 DEF ImportInv
<1>2. \A x \in i.gone : tables'[x].tab \in Before(i.k) /\ tables'[x].org = i.org
    BY <1>0 DEF ImportInv, TablesGo
<1>3. ASSUME NEW x \in i.wait
      PROVE  /\ x < nextId'
             /\ x \in DOMAIN tables' => tables'[x].tab = PurgeOrder[i.k] /\ tables'[x].org = i.org
             /\ x = update'.id => update'.row.tab = PurgeOrder[i.k] /\ update'.row.org = i.org
    <2>1. /\ x < nextId /\ x \in Nat /\ x # 0
          /\ x \in DOMAIN tables => tables[x].tab = PurgeOrder[i.k] /\ tables[x].org = i.org
          /\ x = update.id => update.row.tab = PurgeOrder[i.k] /\ update.row.org = i.org
        BY <1>0 DEF ImportInv, TrfImport
    <2>2. x < nextId'
        BY <2>1 DEF TablesGo
    <2> QED
        BY <2>1, <2>2 DEF TablesGo
<1>4. ASSUME i.pc = "purge", i.org \notin disturbed',
             NEW x \in DOMAIN tables', tables'[x].org = i.org, ~Stray(x)'
      PROVE  /\ tables'[x].tab \in Before(i.k) => x \in i.gone
             /\ i.wait # {} /\ tables'[x].tab = PurgeOrder[i.k] => x \in i.wait
    <2>1. x \in DOMAIN tables
        BY <1>4
    <2>2. tables'[x].tab = tables[x].tab /\ tables[x].org = i.org /\ i.org \notin disturbed
        BY <1>4, <2>1 DEF TablesGo
    <2>3. ~Stray(x)
        <3>1. SUFFICES ASSUME tables[x].tab = "check", tables[x].ref \notin DOMAIN tables
                       PROVE  FALSE
            BY DEF Stray
        <3> DEFINE r == tables[x].ref
        <3>2. tables'[x].ref = r /\ r \in DOMAIN tables'
            BY <1>4, <2>1, <2>2, <3>1 DEF TablesGo, Stray
        <3>3. RowInv(x) /\ r # 0 /\ r < nextId
            BY <2>1, <3>1 DEF TrfInv, RowInv
        <3>4. r = update.id /\ tables'[r].org = update.row.org
            BY <3>1, <3>2, <3>3 DEF TablesGo
        <3>5. tables'[r].org = i.org
            BY <2>2, <3>3, <3>4 DEF RowInv
        <3> QED
            BY <1>4, <3>1, <3>2, <3>5
    <2> QED
        BY <1>0, <1>4, <2>1, <2>2, <2>3 DEF ImportInv
<1>5. ASSUME NEW x \in DOMAIN tables', tables'[x].tab \in {"service", "bot"},
             tables'[x].ref \in i.gone
      PROVE  x \in i.gone
    <2>1. x \in DOMAIN tables
        BY <1>5
    <2>2. tables[x].tab \in {"service", "bot"} /\ tables[x].ref \in i.gone
        BY <1>5, <2>1 DEF TablesGo
    <2> QED
        BY <1>0, <2>1, <2>2 DEF ImportInv, Closed
<1> QED
    BY <1>1, <1>2, <1>3, <1>4, <1>5 DEF ImportInv, Before, FileOK, Closed, Stray

LEMMA RemovingKept ==
    ASSUME TrfInv, TablesGo, UNCHANGED removing, removing.gone \subseteq DOMAIN tables',
           \A x \in DOMAIN tables' \ DOMAIN tables :
              /\ tables'[x].tab = "check" /\ removing.id # 0 =>
                    tables'[x].org \in disturbed' \/ tables'[x].ref \notin WithHanging({removing.id})'
    PROVE  RemovingInv'
<1> DEFINE n == removing.id
<1>0. RemovingInv /\ n \in Nat /\ nextId \in Nat /\ nextId' \in Nat
    BY TrfAssumption DEF TrfInv, TrfTyped, TablesGo
<1>1. n < nextId'
    BY <1>0 DEF RemovingInv, TablesGo
<1>2. \A x \in removing.gone : tables'[x].tab = "check"
    BY <1>0 DEF RemovingInv, TablesGo
<1>3. ASSUME n # 0, NEW x \in DOMAIN tables', tables'[x].tab = "check",
             tables'[x].org \notin disturbed', tables'[x].ref \in WithHanging({n})'
      PROVE  x \in removing.gone
    <2> DEFINE r == tables[x].ref
    <2>1. x \in DOMAIN tables
        BY <1>3
    <2>2. tables[x].tab = "check" /\ tables[x].org \notin disturbed /\ tables'[x].ref = r
        BY <1>3, <2>1 DEF TablesGo
    <2>3. r < nextId
        BY <2>1 DEF TrfInv, RowInv
    <2>4. r \in WithHanging({n})
        <3>1. SUFFICES ASSUME r # n PROVE r \in Hanging({n})
            BY DEF WithHanging
        <3>2. r \in DOMAIN tables' /\ tables'[r].tab \in {"service", "bot"} /\ tables'[r].ref = n
            BY <1>3, <2>2, <3>1 DEF WithHanging, Hanging, Of
        <3>3. r \in DOMAIN tables
            <4>1. update.row.tab \in {"node"} \/ update.id = 0
                BY DEF TrfInv, UpdateInv
            <4>2. tables[x].ref # 0
                BY <2>1, <2>2 DEF TrfInv, RowInv
            <4> QED
                BY <2>3, <3>2, <4>1, <4>2 DEF TablesGo
        <3>4. tables[r].tab \in {"service", "bot"} /\ tables[r].ref = n
            BY <3>2, <3>3 DEF TablesGo
        <3> QED
            BY <3>3, <3>4 DEF Hanging, Of
    <2> QED
        BY <1>0, <1>3, <2>1, <2>2, <2>4 DEF RemovingInv
<1> QED
    BY <1>0, <1>1, <1>2, <1>3 DEF RemovingInv

\* A row that stays, when what it refers to does.
LEMMA RowStays ==
    ASSUME TrfInv, TablesGo, tables' \in Table, NEW x \in DOMAIN tables, x \in DOMAIN tables',
           tables'[x].ref # 0 =>
              \/ tables'[x].ref \in DOMAIN tables'
              \/ /\ tables[x].tab = "check"
                 /\ tables[x].org \in disturbed' \/ tables'[x].ref \in dropped'
    PROVE  RowInv(x)'
<1> DEFINE r == tables[x].ref
<1>1. RowInv(x) /\ tables[x] \in Row /\ x \in Nat /\ nextId \in Nat /\ nextId' \in Nat
      /\ UpdateInv
    BY TableIs DEF TrfInv, TrfTyped, TablesGo
<1>2. r \in Nat /\ r < nextId /\ x < nextId
    BY <1>1, TrfAssumption, RowIs DEF RowInv
<1>3. /\ tables'[x].tab = tables[x].tab /\ tables'[x].org = tables[x].org
      /\ tables'[x].ref = r \/ (tables[x].tab = "key" /\ tables'[x].ref = 0)
    BY DEF TablesGo
<1>4. x < nextId' /\ tables'[x].ref < nextId' /\ 0 < nextId'
    BY <1>1, <1>2, <1>3 DEF TablesGo
<1>5. 0 \notin DOMAIN tables'
    BY TableIs
<1>6. ASSUME r # 0, r \in DOMAIN tables'
      PROVE  tables'[r].org = tables[x].org /\ tables'[r].tab \in RefersTo(tables[x].tab)
    <2>1. CASE r \in DOMAIN tables
        BY <1>1, <1>6, <2>1 DEF RowInv, TablesGo
    <2>2. CASE r \notin DOMAIN tables
        <3>1. r = update.id /\ tables'[r].tab = update.row.tab /\ tables'[r].org = update.row.org
            BY <1>2, <1>6, <2>2 DEF TablesGo
        <3> QED
            BY <1>1, <1>6, <3>1 DEF RowInv, UpdateInv
    <2> QED
        BY <2>1, <2>2
<1>7. ASSUME r # 0, r = update'.id
      PROVE  update'.row.org = tables[x].org /\ "node" \in RefersTo(tables[x].tab)
    <2>1. CASE update'.id = update.id /\ update'.row = update.row
        BY <1>1, <1>7, <2>1 DEF RowInv
    <2>2. CASE update'.id \in DOMAIN tables /\ tables[update'.id].tab = "node"
               /\ update'.row.org = tables[update'.id].org
        BY <1>1, <1>7, <2>2 DEF RowInv
    <2> QED
        BY <1>7, <2>1, <2>2 DEF TablesGo
<1>8. CASE tables'[x].ref = 0
    BY <1>1, <1>3, <1>4, <1>5, <1>8 DEF RowInv
<1>9. CASE tables'[x].ref # 0
    BY <1>1, <1>3, <1>4, <1>6, <1>7, <1>9 DEF RowInv
<1> QED
    BY <1>8, <1>9

LEMMA RowsKept ==
    ASSUME TrfInv, TablesGo, UNCHANGED tables
    PROVE  \A x \in DOMAIN tables' : RowInv(x)'
<1> SUFFICES ASSUME NEW x \in DOMAIN tables PROVE RowInv(x)'
    OBVIOUS
<1>1. tables[x].ref # 0 =>
        \/ tables[x].ref \in DOMAIN tables
        \/ tables[x].tab = "check" /\ (tables[x].org \in disturbed \/ tables[x].ref \in dropped)
    BY DEF TrfInv, RowInv
<1> QED
    BY <1>1, RowStays DEF TablesGo, TrfInv, TrfTyped

\* What UpdateNode has read stays a node of its organisation.
LEMMA UpdateKept ==
    ASSUME TrfInv, TablesGo
    PROVE  UpdateInv'
<1>1. UpdateInv /\ update.id \in Nat /\ nextId \in Nat /\ nextId' \in Nat /\ nextId <= nextId'
      /\ tables \in Table /\ nextId >= 1
    BY TrfAssumption DEF TrfInv, TrfTyped, TablesGo
<1>2. CASE update'.id = update.id /\ update'.row = update.row
    <2>1. update.id < nextId'
        BY <1>1 DEF UpdateInv
    <2> QED
        BY <1>1, <1>2, <2>1 DEF UpdateInv, TablesGo
<1>3. CASE update'.id = 0
    BY <1>1, <1>3 DEF UpdateInv
<1>4. CASE /\ update'.id \in DOMAIN tables /\ tables[update'.id].tab = "node"
           /\ update'.row.tab = "node" /\ update'.row.ref = 0
           /\ update'.row.org = tables[update'.id].org
    <2>1. update'.id \in Nat /\ update'.id < nextId
        BY <1>1, <1>4, TableIs DEF TrfInv, RowInv
    <2>2. update'.id < nextId'
        BY <1>1, <2>1
    <2> QED
        BY <1>4, <2>2 DEF UpdateInv, TablesGo
<1> QED
    BY <1>2, <1>3, <1>4 DEF TablesGo

\* Nothing happens to the tables.
LEMMA StillGo ==
    ASSUME TrfInv, UNCHANGED <<tables, nextId, update>>, disturbed \subseteq disturbed',
           dropped \subseteq dropped'
    PROVE  TablesGo
<1>1. nextId \in Nat
    BY TrfAssumption DEF TrfInv, TrfTyped
<1> QED
    BY <1>1 DEF TablesGo

\* The steps that leave imports alone: no transaction loses what it has deleted, and
\* what comes into an organisation meets the imports of it.
LEMMA EditStep ==
    ASSUME TrfInv, TrfTyped', TablesGo, UNCHANGED imp,
           \A x \in DOMAIN tables' : RowInv(x)', RemovingInv',
           \A t \in TrfImporters :
              imp[t].gone \subseteq DOMAIN tables' /\ removing'.gone \cap imp[t].gone = {},
           \A x \in DOMAIN tables' \ DOMAIN tables : \A t \in TrfImporters :
              /\ tables'[x].org = imp[t].org /\ imp[t].pc = "purge" => imp[t].org \in disturbed'
              /\ tables'[x].tab \in {"service", "bot"} => tables'[x].ref \notin imp[t].gone
    PROVE  TrfInv'
<1>1. ASSUME NEW t \in TrfImporters PROVE ImportInv(t)'
    BY ImportKept
<1>2. ApartInv'
    BY DEF TrfInv, ApartInv, TablesGo
<1>3. UpdateInv'
    BY UpdateKept
<1> QED
    BY <1>1, <1>2, <1>3 DEF TrfInv

\* The steps that leave tables, imports and DeleteNode alone.
LEMMA QuietStep ==
    ASSUME TrfInv, TrfTyped', TablesGo, UNCHANGED <<tables, imp, removing>>
    PROVE  TrfInv'
<1>1. \A x \in DOMAIN tables' : RowInv(x)'
    BY RowsKept
<1>2. \A t \in TrfImporters : imp[t].gone \subseteq DOMAIN tables'
                             /\ removing'.gone \cap imp[t].gone = {}
    BY DEF TrfInv, ImportInv, ApartInv
<1>3. removing.gone \subseteq DOMAIN tables'
    BY DEF TrfInv, RemovingInv
<1>4. RemovingInv'
    BY <1>3, RemovingKept
<1> QED
    BY <1>1, <1>2, <1>4, EditStep

\* The steps of one import that leave tables and the others alone.
LEMMA ImportStep ==
    ASSUME TrfInv, UNCHANGED <<tables, file, exp, update, removing, nextId, trfEdits, dropped>>,
           disturbed \subseteq disturbed', disturbed' \subseteq Orgs,
           NEW t \in TrfImporters, NEW new \in TrfImport, imp' = [imp EXCEPT ![t] = new],
           ImportInv(t)', ApartInv'
    PROVE  TrfInv'
<1>1. TablesGo
    BY StillGo
<1>2. TrfTyped'
    BY DEF TrfInv, TrfTyped
<1>3. \A x \in DOMAIN tables' : RowInv(x)'
    BY <1>1, RowsKept
<1>4. UpdateInv'
    BY <1>1, UpdateKept
<1>5. ASSUME NEW u \in TrfImporters \ {t} PROVE ImportInv(u)'
    <2>1. imp'[u] = imp[u] /\ imp[u].gone \subseteq DOMAIN tables'
        BY DEF TrfInv, TrfTyped, ImportInv
    <2> QED
        BY <1>1, <2>1, ImportKept
<1>6. RemovingInv'
    <2>1. removing.gone \subseteq DOMAIN tables'
        BY DEF TrfInv, RemovingInv
    <2> QED
        BY <1>1, <2>1, RemovingKept
<1> QED
    BY <1>2, <1>3, <1>4, <1>5, <1>6 DEF TrfInv

LEMMA MeetsGrows ==
    ASSUME TrfInv, NEW o \in Orgs, NEW other \in BOOLEAN, Meets(o, other)
    PROVE  /\ disturbed \subseteq disturbed' /\ disturbed' \subseteq Orgs
           /\ \A t \in TrfImporters : imp[t].pc = "purge" /\ imp[t].org = o => o \in disturbed'
           /\ other => o \in disturbed'
BY DEF TrfInv, TrfTyped, Meets, Importing

------------------------------------------------------------------------------
(* ExportOrgConfig *)

LEMMA ExportSteps ==
    ASSUME TrfInv, (\E o \in Orgs : ExportBegins(o)) \/ ExportTable
    PROVE  TrfInv'
<1>0. TrfTyped /\ exp \in [n : 0..TrfExports, org : Orgs, k : 1..6, rows : Table]
      /\ exp.rows \in Table /\ tables \in Table
    BY DEF TrfInv, TrfTyped
<1>1. UNCHANGED <<tables, imp, update, removing, nextId, trfEdits, disturbed, dropped>>
    BY DEF ExportBegins, ExportTable
<1>2. TablesGo
    BY <1>1, StillGo
<1>3. exp' \in [n : 0..TrfExports, org : Orgs, k : 1..6, rows : Table] /\ file' \in Table
    <2>1. ASSUME NEW o \in Orgs, ExportBegins(o)
          PROVE  exp' \in [n : 0..TrfExports, org : Orgs, k : 1..6, rows : Table] /\ file' \in Table
        <3>1. exp.n + 1 \in 0..TrfExports
            BY <1>0, <2>1, TrfAssumption DEF ExportBegins
        <3> QED
            BY <1>0, <2>1, <3>1, EmptyTable DEF ExportBegins, TrfTyped
    <2>2. CASE ExportTable
        <3> DEFINE part == Restrict(tables, Exported(ExportOrder[exp.k]))
                   got == Plus(exp.rows, part)
                   rows == IF exp.k = 5 THEN <<>> ELSE got
        <3>1. Exported(ExportOrder[exp.k]) \in SUBSET DOMAIN tables
            BY DEF Exported, Of
        <3>2. part \in Table
            BY <1>0, <3>1, RestrictTable
        <3> HIDE DEF part
        <3>3. got \in Table
            BY <1>0, <3>2, PlusTable
        <3>4. /\ exp' = [exp EXCEPT !.k = @ + 1, !.rows = rows]
              /\ file' = IF exp.k = 5 THEN got ELSE file
              /\ exp.k <= 5
            BY <2>2 DEF ExportTable, part
        <3> HIDE DEF got
        <3>5. rows \in Table
            BY <3>3, EmptyTable
        <3> HIDE DEF rows
        <3>6. exp.k + 1 \in 1..6
            BY <1>0, <3>4
        <3> QED
            BY <1>0, <3>3, <3>4, <3>5, <3>6 DEF TrfTyped
    <2> QED
        BY <2>1, <2>2
<1>4. TrfTyped'
    BY <1>0, <1>1, <1>3 DEF TrfTyped
<1> QED
    BY <1>1, <1>2, <1>4, QuietStep

------------------------------------------------------------------------------
(* ImportOrgConfig *)

\* validateOrgBackupPayload leaves rows that refer to rows it leaves.
LEMMA ValidFile ==
    ASSUME NEW f \in Table
    PROVE  ValidRows(f) \in Table /\ FileOK(ValidRows(f))
<1> DEFINE hosts == Of(f, "node")
           things == hosts \cup {x \in Of(f, "service") \cup Of(f, "bot") : f[x].ref \in hosts}
           ok == things \cup {x \in Of(f, "check") : f[x].ref \in things}
           S == ok \cup Of(f, "key")
           Lost(x) == f[x].tab = "key" /\ f[x].ref \notin hosts
           g == [x \in S |-> IF Lost(x) THEN [f[x] EXCEPT !.ref = 0] ELSE f[x]]
<1>1. g = ValidRows(f)
    BY DEF ValidRows
<1>2. DOMAIN f \subseteq 1..TrfIds /\ \A x \in DOMAIN f : f[x] \in Row
    BY TableIs
<1>3. S \in SUBSET (1..TrfIds) /\ S \subseteq DOMAIN f
    BY <1>2 DEF Of
<1>4. ASSUME NEW x \in S
      PROVE  /\ g[x] \in Row /\ g[x].tab = f[x].tab
             /\ Lost(x) => g[x].ref = 0
             /\ ~Lost(x) => g[x].ref = f[x].ref
    <2>1. f[x] \in Row /\ 0 \in 0..TrfIds
        BY <1>2, <1>3, TrfAssumption
    <2>2. /\ [f[x] EXCEPT !.ref = 0] \in Row /\ [f[x] EXCEPT !.ref = 0].tab = f[x].tab
          /\ [f[x] EXCEPT !.ref = 0].ref = 0
        BY <2>1, RowIs
    <2>3. g[x] = IF Lost(x) THEN [f[x] EXCEPT !.ref = 0] ELSE f[x]
        OBVIOUS
    <2> HIDE DEF g, Lost
    <2>4. CASE Lost(x)
        BY <2>2, <2>3, <2>4
    <2>5. CASE ~Lost(x)
        BY <2>1, <2>3, <2>5
    <2> QED
        BY <2>4, <2>5
<1>5. g \in [S -> Row]
    <2> DEFINE V(x) == IF Lost(x) THEN [f[x] EXCEPT !.ref = 0] ELSE f[x]
    <2>1. \A x \in S : g[x] = V(x)
        OBVIOUS
    <2>2. g = [x \in S |-> V(x)]
        OBVIOUS
    <2>3. \A x \in S : V(x) \in Row
        BY <1>4, <2>1
    <2> HIDE DEF V, S, g
    <2> QED
        BY <2>2, <2>3
<1>6. g \in Table /\ DOMAIN g = S
    <2> HIDE DEF g, S
    <2> QED
        BY <1>3, <1>5, TableMade
<1>7. ASSUME NEW x \in S
      PROVE  /\ g[x].tab \in {"service", "bot", "check"} => g[x].ref # 0
             /\ g[x].tab # "node" /\ g[x].ref # 0 =>
                   g[x].ref \in S /\ g[g[x].ref].tab \in RefersTo(g[x].tab)
    <2>1. /\ f[x].tab \in Tabs
          /\ \A y \in DOMAIN f : y # 0
        BY <1>2, <1>3, RowIs
    <2>2. hosts \subseteq DOMAIN f /\ things \subseteq DOMAIN f
        BY DEF Of
    <2>3. CASE f[x].tab = "node"
        BY <1>4, <2>3
    <2>4. CASE f[x].tab \in {"service", "bot"}
        <3>1. f[x].ref \in hosts /\ ~Lost(x)
            BY <2>4 DEF Of
        <3>2. f[x].ref \in S /\ f[f[x].ref].tab = "node" /\ f[x].ref # 0
            BY <2>1, <3>1 DEF Of
        <3>3. g[x].ref = f[x].ref /\ g[x].tab = f[x].tab /\ g[f[x].ref].tab = "node"
            BY <1>4, <3>1, <3>2
        <3> QED
            BY <2>4, <3>2, <3>3 DEF RefersTo
    <2>5. CASE f[x].tab = "check"
        <3>1. f[x].ref \in things /\ ~Lost(x)
            BY <2>5 DEF Of
        <3>2. f[x].ref \in S /\ f[f[x].ref].tab \in {"node", "service", "bot"} /\ f[x].ref # 0
            BY <2>1, <3>1 DEF Of
        <3>3. g[x].ref = f[x].ref /\ g[x].tab = f[x].tab /\ g[f[x].ref].tab = f[f[x].ref].tab
            BY <1>4, <3>1, <3>2
        <3> QED
            BY <2>5, <3>2, <3>3 DEF RefersTo
    <2>6. CASE f[x].tab = "key" /\ Lost(x)
        BY <1>4, <2>6
    <2>7. CASE f[x].tab = "key" /\ ~Lost(x)
        <3>1. f[x].ref \in hosts
            BY <2>7
        <3>2. f[x].ref \in S /\ f[f[x].ref].tab = "node" /\ f[x].ref # 0
            BY <2>1, <3>1 DEF Of
        <3>3. g[x].ref = f[x].ref /\ g[x].tab = f[x].tab /\ g[f[x].ref].tab = "node"
            BY <1>4, <2>7, <3>2
        <3> QED
            BY <2>7, <3>2, <3>3 DEF RefersTo
    <2> QED
        BY <2>1, <2>3, <2>4, <2>5, <2>6, <2>7 DEF Tabs
<1> HIDE DEF g, S
<1> QED
    BY <1>1, <1>6, <1>7 DEF FileOK

LEMMA ImportBeginsStep ==
    ASSUME TrfInv, NEW t \in TrfImporters, NEW o \in Orgs, ImportBegins(t, o)
    PROVE  TrfInv'
<1>0. TrfTyped /\ ImportInv(t) /\ ApartInv /\ imp \in [TrfImporters -> TrfImport]
    BY DEF TrfInv, TrfTyped
<1> DEFINE rows == ValidRows(file)
           new == [Idle EXCEPT !.pc = "purge", !.org = o, !.rows = rows]
<1>1. rows \in Table /\ FileOK(rows)
    BY <1>0, ValidFile DEF TrfTyped
<1>2. imp' = [imp EXCEPT ![t] = new]
    BY DEF ImportBegins
<1> HIDE DEF rows
<1>3. /\ new \in TrfImport /\ new.pc = "purge" /\ new.org = o /\ new.k = 1 /\ new.wait = {}
      /\ new.gone = {} /\ new.rows = rows
    <2>1. new \in TrfImport
        BY <1>1, IdleIs DEF TrfImport
    <2>2. new.pc = "purge" /\ new.org = o /\ new.rows = rows
        BY IdleIs DEF TrfImport
    <2>3. new.k = Idle.k /\ new.wait = Idle.wait /\ new.gone = Idle.gone
        BY IdleIs DEF TrfImport
    <2> HIDE DEF new
    <2> QED
        BY <2>1, <2>2, <2>3, IdleIs
<1> HIDE DEF new
<1>4. disturbed \subseteq disturbed' /\ disturbed' \subseteq Orgs
      /\ \A u \in TrfImporters : imp[u].pc = "purge" /\ imp[u].org = o => o \in disturbed'
    BY MeetsGrows DEF ImportBegins
<1>5. imp'[t] = new /\ \A u \in TrfImporters \ {t} : imp'[u] = imp[u]
    BY <1>0, <1>2
<1>6. ImportInv(t)'
    BY <1>1, <1>3, <1>5, BeforeGrows DEF ImportInv, FileOK, Closed
<1>7. ApartInv'
    <2>0. \A u \in TrfImporters : removing'.gone \cap imp'[u].gone = {}
        BY <1>0, <1>3, <1>5 DEF ApartInv, ImportBegins
    <2> SUFFICES ASSUME NEW a \in TrfImporters, NEW b \in TrfImporters, a # b
                 PROVE  /\ imp'[a].gone \cap imp'[b].gone = {}
                        /\ imp'[a].pc = "purge" /\ imp'[b].pc = "purge" /\ imp'[a].org = imp'[b].org
                           => imp'[a].org \in disturbed'
        BY <2>0 DEF ApartInv
    <2>1. CASE a = t
        BY <1>3, <1>4, <1>5, <2>1
    <2>2. CASE b = t
        BY <1>3, <1>4, <1>5, <2>2
    <2>3. CASE a # t /\ b # t
        BY <1>0, <1>4, <1>5, <2>3 DEF ApartInv
    <2> QED
        BY <2>1, <2>2, <2>3
<1>8. UNCHANGED <<tables, file, exp, update, removing, nextId, trfEdits, dropped>>
    BY DEF ImportBegins
<1> QED
    BY <1>2, <1>3, <1>4, <1>6, <1>7, <1>8, ImportStep

\* A statement of a transaction finds rows of its table and organisation; all of them,
\* unless somebody met the import.
LEMMA PurgedIs ==
    ASSUME TrfInv, NEW t \in TrfImporters, imp[t].pc = "purge", NEW k \in 1..5, imp[t].k = k,
           NEW found, found = Purged(t, PurgeOrder[k])
    PROVE  /\ found \subseteq DOMAIN tables
           /\ \A x \in found : tables[x].tab = PurgeOrder[k] /\ tables[x].org = imp[t].org
           /\ imp[t].org \notin disturbed =>
                 \A x \in DOMAIN tables :
                     /\ tables[x].org = imp[t].org /\ tables[x].tab = PurgeOrder[k] /\ ~Stray(x)
                     => x \in found \cup imp[t].gone
<1> DEFINE tab == PurgeOrder[k]
           gone == imp[t].gone
           o == imp[t].org
<1>0. ImportInv(t) /\ tables \in Table /\ tab \in Tabs
    BY TabsOf DEF TrfInv, TrfTyped
<1>1. DOMAIN View(t) = DOMAIN tables \ gone /\ \A x \in DOMAIN View(t) : View(t)[x] = tables[x]
    <2>1. DOMAIN tables \ gone \in SUBSET DOMAIN tables
        OBVIOUS
    <2> QED
        BY <1>0, <2>1, RestrictTable DEF View
<1>2. found = {x \in DOMAIN tables \ gone :
                 /\ tables[x].tab = tab
                 /\ IF tab \in {"node", "service", "key"} THEN tables[x].org = o
                    ELSE tables[x].ref \in DOMAIN tables \ gone /\ tables[tables[x].ref].org = o}
    BY <1>1 DEF Purged, Of
<1> HIDE DEF tab
<1>3. \A x \in found : x \in DOMAIN tables \ gone /\ tables[x].tab = tab /\ tables[x].org = o
    BY <1>2 DEF TrfInv, RowInv
<1>4. ASSUME o \notin disturbed, NEW x \in DOMAIN tables, tables[x].org = o, tables[x].tab = tab,
             ~Stray(x), x \notin gone
      PROVE  x \in found
    <2>1. x \notin gone
        BY <1>4
    <2>2. CASE tab \in {"node", "service", "key"}
        BY <1>2, <1>4, <2>1, <2>2
    <2>3. CASE tab \in {"check", "bot"}
        <3>1. tables[x].ref \in DOMAIN tables /\ tables[tables[x].ref].org = o
              /\ tables[tables[x].ref].tab \in RefersTo(tab)
            BY <1>4, <2>3 DEF TrfInv, RowInv, Stray
        <3>2. tables[x].ref \notin gone
            <4>1. CASE tab = "check"
                <5>1. k = 1
                    BY <4>1, BeforeGrows DEF tab
                <5> QED
                    BY <1>0, <5>1, BeforeGrows DEF ImportInv
            <4>2. CASE tab = "bot"
                <5>1. tables[tables[x].ref].tab = "node"
                    BY <3>1, <4>2 DEF RefersTo
                <5> QED
                    BY <1>0, <5>1, BeforeGrows DEF ImportInv
            <4> QED
                BY <2>3, <4>1, <4>2
        <3> QED
            BY <1>2, <1>4, <2>1, <2>3, <3>1, <3>2
    <2> QED
        BY <1>0, <2>2, <2>3 DEF Tabs
<1> QED
    BY <1>3, <1>4 DEF tab

\* What hangs on rows of one table and organisation is of that organisation, and of a
\* table that is dealt with when this one is.
LEMMA HangingIs ==
    ASSUME TrfInv, NEW k \in 1..5, NEW o \in Orgs, NEW S \in SUBSET DOMAIN tables,
           \A x \in S : tables[x].tab = PurgeOrder[k] /\ tables[x].org = o
    PROVE  /\ S \subseteq WithHanging(S) /\ WithHanging(S) \subseteq DOMAIN tables
           /\ Closed(WithHanging(S))
           /\ \A x \in WithHanging(S) : tables[x].tab \in Before(k + 1) /\ tables[x].org = o
<1>1. ASSUME NEW x \in DOMAIN tables, tables[x].tab \in {"service", "bot"}
      PROVE  /\ tables[x].ref \in DOMAIN tables /\ tables[tables[x].ref].tab = "node"
             /\ tables[tables[x].ref].org = tables[x].org /\ tables[x].tab \in Tabs
    BY <1>1 DEF TrfInv, RowInv, RefersTo, Tabs
<1>2. ASSUME NEW x \in Hanging(S)
      PROVE  /\ x \in DOMAIN tables /\ tables[x].tab \in {"service", "bot"} /\ tables[x].ref \in S
             /\ tables[x].tab \in Before(k + 1) /\ tables[x].org = o
    <2>1. x \in DOMAIN tables /\ tables[x].tab \in {"service", "bot"} /\ tables[x].ref \in S
        BY DEF Hanging, Of
    <2>2. PurgeOrder[k] = "node" /\ tables[x].org = o /\ tables[x].tab \in Tabs
        BY <1>1, <2>1
    <2>3. k + 1 = 6
        BY <2>2, BeforeGrows
    <2> QED
        BY <2>1, <2>2, <2>3, BeforeGrows
<1>3. \A x \in S : tables[x].tab \in Before(k + 1)
    BY BeforeGrows
<1>4. ASSUME NEW x \in DOMAIN tables, tables[x].tab \in {"service", "bot"},
             tables[x].ref \in WithHanging(S)
      PROVE  x \in WithHanging(S)
    <2>1. tables[x].ref \in S
        BY <1>1, <1>2, <1>4 DEF WithHanging
    <2> QED
        BY <1>4, <2>1 DEF WithHanging, Hanging, Of
<1> QED
    BY <1>2, <1>3, <1>4 DEF WithHanging, Closed

NoRows == {}

\* The transaction when a statement has deleted S, and what S has to be.
DoneWith(t, S) ==
    [imp[t] EXCEPT !.wait = NoRows, !.k = imp[t].k + 1, !.gone = imp[t].gone \cup S]

Sweeps(t, S) ==
    /\ S \cap Locked(t) = {} /\ Closed(S)
    /\ \A x \in S : tables[x].tab \in Before(imp[t].k + 1) /\ tables[x].org = imp[t].org
    /\ imp[t].org \notin disturbed =>
          \A x \in DOMAIN tables :
              /\ tables[x].org = imp[t].org /\ tables[x].tab = PurgeOrder[imp[t].k] /\ ~Stray(x)
              => x \in S \cup imp[t].gone

\* A statement is done: what it has found, and is still there, is deleted as well.
LEMMA StatementDone ==
    ASSUME TrfInv, NEW t \in TrfImporters, imp[t].pc = "purge", imp[t].k <= 5,
           UNCHANGED <<tables, file, exp, update, removing, nextId, trfEdits, disturbed, dropped>>,
           NEW got \in SUBSET DOMAIN tables, Sweeps(t, got),
           imp' = [imp EXCEPT ![t] = DoneWith(t, got)]
    PROVE  TrfInv'
<1> DEFINE k == imp[t].k
           next == k + 1
           gone == imp[t].gone \cup got
           none == NoRows
           new == DoneWith(t, got)
<1>0. ImportInv(t) /\ ApartInv /\ imp[t] \in TrfImport /\ imp \in [TrfImporters -> TrfImport]
      /\ tables \in Table
    BY DEF TrfInv, TrfTyped
<1>swept. /\ got \cap Locked(t) = {} /\ Closed(got)
          /\ \A x \in got : tables[x].tab \in Before(next) /\ tables[x].org = imp[t].org
          /\ imp[t].org \notin disturbed =>
                \A x \in DOMAIN tables :
                    /\ tables[x].org = imp[t].org /\ tables[x].tab = PurgeOrder[k] /\ ~Stray(x)
                    => x \in gone
    BY DEF Sweeps
<1>1. k \in 1..5 /\ next \in 1..6
    BY <1>0 DEF TrfImport
<1>2. gone \in SUBSET (1..TrfIds) /\ none \in SUBSET (1..TrfIds) /\ none = {}
    BY <1>0, TableIs DEF TrfImport, NoRows
<1>3. imp' = [imp EXCEPT ![t] = new] /\ new = [imp[t] EXCEPT !.wait = none, !.k = next, !.gone = gone]
    BY DEF DoneWith
<1> HIDE DEF none, next, gone, new
<1>4. /\ new \in TrfImport /\ new.pc = imp[t].pc /\ new.org = imp[t].org /\ new.k = next
      /\ new.wait = none /\ new.gone = gone /\ new.rows = imp[t].rows
    BY <1>0, <1>1, <1>2, <1>3 DEF TrfImport
<1>5. imp'[t] = new /\ \A u \in TrfImporters \ {t} : imp'[u] = imp[u]
    BY <1>0, <1>3
<1>6. Before(next) = Before(k) \cup {PurgeOrder[k]}
    BY <1>1, BeforeGrows DEF next
<1>7. gone \subseteq DOMAIN tables /\ Closed(gone)
      /\ \A x \in gone : tables[x].tab \in Before(next) /\ tables[x].org = imp[t].org
    <2>1. Closed(gone)
        BY <1>0, <1>swept DEF ImportInv, gone, Closed
    <2> QED
        BY <1>0, <1>6, <1>swept, <2>1 DEF ImportInv, gone
<1>8. imp[t].org \notin disturbed =>
        \A x \in DOMAIN tables :
            tables[x].org = imp[t].org /\ tables[x].tab \in Before(next) /\ ~Stray(x) => x \in gone
    BY <1>0, <1>6, <1>swept DEF ImportInv, gone
<1>9. FileOK(imp[t].rows)
    BY <1>0 DEF ImportInv
<1>10. ImportInv(t)'
    <2>1. (imp'[t]).wait = {} /\ (imp'[t]).gone = gone /\ (imp'[t]).k = next
          /\ (imp'[t]).org = imp[t].org /\ (imp'[t]).pc = "purge" /\ (imp'[t]).rows = imp[t].rows
        BY <1>2, <1>4, <1>5
    <2>2. FileOK(imp'[t].rows)
        BY <1>9, <2>1
    <2>3. \A x \in gone : tables'[x].tab \in Before(next) /\ tables'[x].org = imp[t].org
        BY <1>7
    <2>4. imp[t].org \notin disturbed' =>
            \A x \in DOMAIN tables' :
                tables'[x].org = imp[t].org /\ tables'[x].tab \in Before(next) /\ ~Stray(x)'
                => x \in gone
        BY <1>8 DEF Stray
    <2>5. gone \subseteq DOMAIN tables'
          /\ \A x \in DOMAIN tables' :
                tables'[x].tab \in {"service", "bot"} /\ tables'[x].ref \in gone => x \in gone
        BY <1>7 DEF Closed
    <2> DEFINE new2 == imp'[t]
               done == Before(next)
    <2>6. ImportInv(t)' <=>
            /\ new2.pc # "purge" => new2.wait = {} /\ new2.gone = {}
            /\ new2.pc = "purge" => FileOK(new2.rows)
            /\ new2.wait # {} => new2.k <= 5
            /\ new2.gone \subseteq DOMAIN tables'
            /\ \A x \in DOMAIN tables' :
                  tables'[x].tab \in {"service", "bot"} /\ tables'[x].ref \in new2.gone => x \in new2.gone
            /\ \A x \in new2.gone : tables'[x].tab \in Before(new2.k) /\ tables'[x].org = new2.org
            /\ \A x \in new2.wait :
                  /\ x < nextId'
                  /\ x \in DOMAIN tables' => tables'[x].tab = PurgeOrder[new2.k] /\ tables'[x].org = new2.org
                  /\ x = update'.id => update'.row.tab = PurgeOrder[new2.k] /\ update'.row.org = new2.org
            /\ new2.pc = "purge" /\ new2.org \notin disturbed' =>
                  \A x \in DOMAIN tables' : tables'[x].org = new2.org /\ ~Stray(x)' =>
                      /\ tables'[x].tab \in Before(new2.k) => x \in new2.gone
                      /\ new2.wait # {} /\ tables'[x].tab = PurgeOrder[new2.k] => x \in new2.wait
        BY DEF ImportInv, FileOK, Before, Closed, Stray
    <2> HIDE DEF new2
    <2>7. new2.wait = {} /\ new2.gone = gone /\ new2.k = next /\ new2.org = imp[t].org
          /\ new2.pc = "purge" /\ FileOK(new2.rows)
        BY <2>1, <2>2 DEF new2
    <2> QED
        BY <2>3, <2>4, <2>5, <2>6, <2>7
<1>11. ApartInv'
    <2>0. \A u \in TrfImporters : removing'.gone \cap imp'[u].gone = {}
        BY <1>0, <1>4, <1>5, <1>swept DEF ApartInv, Locked, gone
    <2> SUFFICES ASSUME NEW a \in TrfImporters, NEW b \in TrfImporters, a # b
                 PROVE  /\ imp'[a].gone \cap imp'[b].gone = {}
                        /\ imp'[a].pc = "purge" /\ imp'[b].pc = "purge" /\ imp'[a].org = imp'[b].org
                           => imp'[a].org \in disturbed'
        BY <2>0 DEF ApartInv
    <2>1. \A u \in TrfImporters \ {t} : got \cap imp[u].gone = {}
        BY <1>swept DEF Locked
    <2>2. imp'[a].pc = imp[a].pc /\ imp'[b].pc = imp[b].pc
          /\ imp'[a].org = imp[a].org /\ imp'[b].org = imp[b].org
        BY <1>4, <1>5
    <2>3. imp[a].gone \cap imp[b].gone = {}
        BY <1>0 DEF ApartInv
    <2>4. imp'[a].gone \cap imp'[b].gone = {}
        <3>1. CASE a = t
            BY <1>4, <1>5, <2>1, <2>3, <3>1 DEF gone
        <3>2. CASE b = t
            BY <1>4, <1>5, <2>1, <2>3, <3>2 DEF gone
        <3>3. CASE a # t /\ b # t
            BY <1>5, <2>3, <3>3
        <3> QED
            BY <3>1, <3>2, <3>3
    <2> QED
        BY <1>0, <2>2, <2>4 DEF ApartInv
<1>12. disturbed \subseteq disturbed' /\ disturbed' \subseteq Orgs
    BY DEF TrfInv, TrfTyped
<1> QED
    BY <1>3, <1>4, <1>10, <1>11, <1>12, ImportStep

LEMMA PurgeSteps ==
    ASSUME TrfInv, NEW t \in TrfImporters, PurgeTable(t) \/ PurgeResumes(t)
    PROVE  TrfInv'
<1> DEFINE k == imp[t].k
<1>0. ImportInv(t) /\ ApartInv /\ UpdateInv /\ imp[t] \in TrfImport
      /\ imp \in [TrfImporters -> TrfImport] /\ tables \in Table
    BY DEF TrfInv, TrfTyped
<1>1. imp[t].pc = "purge" /\ k \in 1..5 /\ k <= 5
      /\ UNCHANGED <<tables, file, exp, update, removing, nextId, trfEdits, disturbed, dropped>>
    BY <1>0 DEF PurgeTable, PurgeResumes, ImportInv, TrfImport
<1>2. CASE PurgeTable(t)
    <2> DEFINE found == Purged(t, PurgeOrder[k])
               all == WithHanging(found)
    <2>1. /\ found \in SUBSET DOMAIN tables
          /\ \A x \in found : tables[x].tab = PurgeOrder[k] /\ tables[x].org = imp[t].org
          /\ imp[t].org \notin disturbed =>
                \A x \in DOMAIN tables :
                    /\ tables[x].org = imp[t].org /\ tables[x].tab = PurgeOrder[k] /\ ~Stray(x)
                    => x \in found \cup imp[t].gone
        BY <1>1, PurgedIs
    <2>2. imp[t].wait = {} /\ imp' = IF all \cap Locked(t) # {} THEN [imp EXCEPT ![t].wait = found]
                  ELSE [imp EXCEPT ![t].k = @ + 1, ![t].gone = @ \cup all]
        BY <1>2 DEF PurgeTable
    <2> HIDE DEF found
    <2>3. /\ found \subseteq all /\ all \in SUBSET DOMAIN tables /\ Closed(all)
          /\ \A x \in all : tables[x].tab \in Before(k + 1) /\ tables[x].org = imp[t].org
        <3>1. imp[t].org \in Orgs
            BY <1>0 DEF TrfImport
        <3> QED
            BY <1>1, <2>1, <3>1, HangingIs
    <2> HIDE DEF all
    <2>4. CASE all \cap Locked(t) = {}
        <3>1. imp' = [imp EXCEPT ![t] = DoneWith(t, all)]
            <4> DEFINE nextK == imp[t].k + 1
                       more == imp[t].gone \cup all
                       w == NoRows
            <4>1. w = imp[t].wait
                BY <2>2 DEF NoRows
            <4>2. imp' = [imp EXCEPT ![t] = [imp[t] EXCEPT !.k = nextK, !.gone = more]]
                BY <1>0, <2>2, <2>4
            <4>3. DoneWith(t, all) = [imp[t] EXCEPT !.wait = w, !.k = nextK, !.gone = more]
                BY DEF DoneWith
            <4> HIDE DEF nextK, more, w
            <4>4. [imp[t] EXCEPT !.k = nextK, !.gone = more]
                  = [imp[t] EXCEPT !.wait = w, !.k = nextK, !.gone = more]
                BY <1>0, <4>1 DEF TrfImport
            <4> QED
                BY <4>2, <4>3, <4>4
        <3>2. Sweeps(t, all)
            BY <2>1, <2>3, <2>4 DEF Sweeps
        <3> QED
            BY <1>1, <2>3, <3>1, <3>2, StatementDone
    <2>5. CASE all \cap Locked(t) # {}
        <3> DEFINE new == [imp[t] EXCEPT !.wait = found]
        <3>1. imp' = [imp EXCEPT ![t] = new]
            BY <1>0, <2>2, <2>5
        <3>2. found \in SUBSET (1..TrfIds)
            BY <1>0, <2>1, TableIs
        <3>3. /\ new \in TrfImport /\ new.pc = imp[t].pc /\ new.org = imp[t].org /\ new.k = k
              /\ new.wait = found /\ new.gone = imp[t].gone /\ new.rows = imp[t].rows
            BY <1>0, <3>2 DEF TrfImport
        <3> HIDE DEF new
        <3>4. imp'[t] = new /\ \A u \in TrfImporters \ {t} : imp'[u] = imp[u]
            BY <1>0, <3>1
        <3>5. ASSUME NEW x \in found
              PROVE  /\ x < nextId
                     /\ x = update.id => update.row.tab = PurgeOrder[k] /\ update.row.org = imp[t].org
            <4>1. x \in DOMAIN tables /\ RowInv(x) /\ x # 0
                BY <2>1, <3>2 DEF TrfInv
            <4> QED
                BY <1>0, <2>1, <4>1 DEF RowInv, UpdateInv
        <3>6. ImportInv(t)'
            <4>1. (imp'[t]).wait = found /\ (imp'[t]).gone = imp[t].gone /\ (imp'[t]).k = k
                  /\ (imp'[t]).org = imp[t].org /\ (imp'[t]).pc = "purge" /\ (imp'[t]).rows = imp[t].rows
                BY <1>1, <3>3, <3>4
            <4>2. FileOK(imp'[t].rows)
                BY <1>0, <1>1, <4>1 DEF ImportInv
            <4>3. /\ imp[t].gone \subseteq DOMAIN tables /\ Closed(imp[t].gone)
                  /\ \A x \in imp[t].gone : tables[x].tab \in Before(k) /\ tables[x].org = imp[t].org
                BY <1>0 DEF ImportInv
            <4>4. imp[t].org \notin disturbed =>
                    \A x \in DOMAIN tables :
                        /\ tables[x].org = imp[t].org /\ tables[x].tab \in Before(k) /\ ~Stray(x)
                        => x \in imp[t].gone
                BY <1>0, <1>1 DEF ImportInv
            <4>5. \A x \in imp[t].gone : tables[x].tab # PurgeOrder[k]
                BY <1>1, <4>3, BeforeGrows
            <4> QED
                BY <1>1, <2>1, <3>5, <4>1, <4>2, <4>3, <4>4, <4>5
                   DEF ImportInv, FileOK, Before, Closed, Stray
        <3>7. ApartInv'
            <4>1. \A u \in TrfImporters : imp'[u].gone = imp[u].gone /\ imp'[u].pc = imp[u].pc
                                          /\ imp'[u].org = imp[u].org
                BY <3>3, <3>4
            <4> QED
                BY <1>0, <1>1, <4>1 DEF ApartInv
        <3>8. disturbed \subseteq disturbed' /\ disturbed' \subseteq Orgs
            BY <1>1 DEF TrfInv, TrfTyped
        <3> QED
            BY <1>1, <3>1, <3>3, <3>6, <3>7, <3>8, ImportStep
    <2> QED
        BY <2>4, <2>5
<1>3. CASE PurgeResumes(t)
    <2> DEFINE got == imp[t].wait \cap DOMAIN tables
               all == WithHanging(got)
    <2>1. imp' = [imp EXCEPT ![t] = DoneWith(t, all)]
        BY <1>0, <1>3 DEF PurgeResumes, DoneWith, NoRows
    <2>2. got \in SUBSET DOMAIN tables /\ all \cap Locked(t) = {} /\ imp[t].wait # {}
        BY <1>3 DEF PurgeResumes
    <2>3. \A x \in got : tables[x].tab = PurgeOrder[k] /\ tables[x].org = imp[t].org
        BY <1>0 DEF ImportInv
    <2>4. imp[t].org \notin disturbed =>
            \A x \in DOMAIN tables :
                /\ tables[x].org = imp[t].org /\ tables[x].tab = PurgeOrder[k] /\ ~Stray(x)
                => x \in got
        BY <1>0, <1>1, <2>2 DEF ImportInv
    <2> HIDE DEF got
    <2>5. /\ got \subseteq all /\ all \in SUBSET DOMAIN tables /\ Closed(all)
          /\ \A x \in all : tables[x].tab \in Before(k + 1) /\ tables[x].org = imp[t].org
        <3>1. imp[t].org \in Orgs
            BY <1>0 DEF TrfImport
        <3> QED
            BY <1>1, <2>2, <2>3, <3>1, HangingIs
    <2> HIDE DEF all
    <2>6. Sweeps(t, all)
        BY <2>2, <2>4, <2>5 DEF Sweeps
    <2> QED
        BY <1>1, <2>1, <2>5, <2>6, StatementDone
<1> QED
    BY <1>2, <1>3

LEMMA ImportGivesUp ==
    ASSUME TrfInv, NEW t \in TrfImporters, ImportFails(t) \/ ImportAnswered(t)
    PROVE  TrfInv'
<1>0. ApartInv /\ imp \in [TrfImporters -> TrfImport]
    BY DEF TrfInv, TrfTyped
<1>1. imp' = [imp EXCEPT ![t] = Idle]
      /\ UNCHANGED <<tables, file, exp, update, removing, nextId, trfEdits, disturbed, dropped>>
    BY DEF ImportFails, ImportAnswered
<1>2. imp'[t] = Idle /\ \A u \in TrfImporters \ {t} : imp'[u] = imp[u]
    BY <1>0, <1>1
<1>3. ImportInv(t)'
    BY <1>2, IdleIs DEF ImportInv, Closed
<1>4. ApartInv'
    BY <1>0, <1>1, <1>2, IdleIs DEF ApartInv
<1>5. disturbed \subseteq disturbed' /\ disturbed' \subseteq Orgs
    BY <1>1 DEF TrfInv, TrfTyped
<1> QED
    BY <1>1, <1>3, <1>4, <1>5, IdleIs, ImportStep

------------------------------------------------------------------------------
(* Edits meanwhile *)

LEMMA RowTyped ==
    ASSUME NEW tab \in Tabs, NEW o \in Orgs, NEW ref \in 0..TrfIds, NEW content \in 1..TrfIds,
           NEW zero \in BOOLEAN
    PROVE  /\ R(tab, o, ref, content, zero) \in Row
           /\ R(tab, o, ref, content, zero).tab = tab /\ R(tab, o, ref, content, zero).org = o
           /\ R(tab, o, ref, content, zero).ref = ref
           /\ R(tab, o, ref, content, zero).content = content
BY RowIs DEF R

LEMMA RowMade ==
    ASSUME NEW tab \in Tabs, NEW o \in Orgs, NEW ref \in 0..TrfIds, NEW content \in 1..TrfIds
    PROVE  /\ R(tab, o, ref, content, FALSE) \in Row /\ R(tab, o, ref, content, TRUE) \in Row
           /\ R(tab, o, ref, content, FALSE).tab = tab /\ R(tab, o, ref, content, TRUE).tab = tab
           /\ R(tab, o, ref, content, FALSE).org = o /\ R(tab, o, ref, content, TRUE).org = o
           /\ R(tab, o, ref, content, FALSE).ref = ref /\ R(tab, o, ref, content, TRUE).ref = ref
<1>1. R(tab, o, ref, content, FALSE) \in Row /\ R(tab, o, ref, content, TRUE) \in Row
    BY RowIs DEF R
<1>2. /\ R(tab, o, ref, content, FALSE).tab = tab /\ R(tab, o, ref, content, TRUE).tab = tab
      /\ R(tab, o, ref, content, FALSE).org = o /\ R(tab, o, ref, content, TRUE).org = o
      /\ R(tab, o, ref, content, FALSE).ref = ref /\ R(tab, o, ref, content, TRUE).ref = ref
    BY DEF R
<1> QED
    BY <1>1, <1>2

\* A row as tx.Create writes it.
LEMMA CreatedIs ==
    ASSUME NEW row \in Row
    PROVE  /\ Created(row) \in Row /\ Created(row).tab = row.tab /\ Created(row).org = row.org
           /\ Created(row).ref = row.ref /\ Created(row).content = row.content
           /\ Created(row).zero = (row.zero /\ row.tab = "key")
<1>1. CASE row.tab = "key"
    BY <1>1, RowIs DEF Created
<1>2. CASE row.tab # "key"
    BY <1>2, RowIs DEF Created
<1> QED
    BY <1>1, <1>2

LEMMA AddServiceStep ==
    ASSUME TrfInv, NEW n \in Of(tables, "node"), AddService(n)
    PROVE  TrfInv'
<1>0. tables \in Table /\ TrfTyped /\ UpdateInv /\ nextId \in Nat /\ nextId >= 1
      /\ n \in DOMAIN tables /\ tables[n].tab = "node" /\ TrfIds \in Nat /\ TrfEdits \in Nat
    BY TrfAssumption DEF TrfInv, TrfTyped, Of
<1> DEFINE S == {nextId, nextId + 1}
           o == tables[n].org
           a == R("service", o, n, nextId, FALSE)
           b == R("check", o, nextId, nextId + 1, FALSE)
           g == [x \in S |-> IF x = nextId THEN R("service", o, n, x, FALSE)
                             ELSE R("check", o, nextId, x, FALSE)]
           other == removing.id = n
<1>1. /\ nextId < TrfIds /\ tables' = Plus(tables, g) /\ nextId' = nextId + 2 /\ Meets(o, other)
      /\ trfEdits < TrfEdits /\ trfEdits' = trfEdits + 1 /\ n \notin LockedByAny
      /\ UNCHANGED <<file, exp, imp, update, removing, dropped>>
    BY DEF AddService, TrfEdit
<1>2. tables[n] \in Row /\ o \in Orgs /\ n \in 1..TrfIds /\ n < nextId
      /\ nextId \in 1..TrfIds /\ nextId + 1 \in 1..TrfIds /\ n \in 0..TrfIds /\ nextId \in 0..TrfIds
    <2>1. tables[n] \in Row /\ n \in 1..TrfIds
        BY <1>0, TableIs
    <2>2. n < nextId
        BY <1>0 DEF TrfInv, RowInv
    <2> QED
        BY <1>0, <1>1, <2>1, <2>2, RowIs
<1>3. /\ a \in Row /\ a.tab = "service" /\ a.org = o /\ a.ref = n
      /\ b \in Row /\ b.tab = "check" /\ b.org = o /\ b.ref = nextId
    <2>1. "service" \in Tabs /\ "check" \in Tabs
        BY DEF Tabs
    <2> HIDE DEF o
    <2>2. a \in Row /\ a.tab = "service" /\ a.org = o /\ a.ref = n
        BY <1>2, <2>1, RowIs DEF R
    <2>3. b \in Row /\ b.tab = "check" /\ b.org = o /\ b.ref = nextId
        BY <1>2, <2>1, RowIs DEF R
    <2> QED
        BY <2>2, <2>3
<1>4. S \in SUBSET (1..TrfIds) /\ g[nextId] = a /\ g[nextId + 1] = b /\ g \in [S -> Row]
    <2>1. S \in SUBSET (1..TrfIds) /\ nextId \in S /\ nextId + 1 \in S /\ nextId + 1 # nextId
        BY <1>2
    <2>2. g[nextId] = a
        BY <2>1
    <2>3. g[nextId + 1] = b
        BY <2>1
    <2>4. \A x \in S : g[x] \in Row
        <3> HIDE DEF a, b, g
        <3> QED
            BY <1>3, <2>2, <2>3
    <2> DEFINE V(x) == IF x = nextId THEN R("service", o, n, x, FALSE)
                       ELSE R("check", o, nextId, x, FALSE)
    <2>5. g = [x \in S |-> V(x)] /\ \A x \in S : g[x] = V(x)
        OBVIOUS
    <2> HIDE DEF V, g
    <2> QED
        BY <2>1, <2>2, <2>3, <2>4, <2>5
<1> HIDE DEF a, b, g
<1>5. g \in Table /\ DOMAIN g = S
    BY <1>4, TableMade
<1>6. /\ tables' \in Table /\ DOMAIN tables' = DOMAIN tables \cup S
      /\ tables'[nextId] = a /\ tables'[nextId + 1] = b
      /\ \A x \in DOMAIN tables \ S : tables'[x] = tables[x]
    <2>1. /\ Plus(tables, g) \in Table /\ DOMAIN Plus(tables, g) = DOMAIN tables \cup DOMAIN g
          /\ \A x \in DOMAIN g : Plus(tables, g)[x] = g[x]
          /\ \A x \in DOMAIN tables \ DOMAIN g : Plus(tables, g)[x] = tables[x]
        BY <1>0, <1>5, PlusTable
    <2> QED
        BY <1>1, <1>4, <1>5, <2>1
<1>7. ASSUME NEW x \in DOMAIN tables
      PROVE  /\ RowInv(x) /\ tables'[x] = tables[x] /\ x \in Nat /\ x < nextId
             /\ tables[x].ref \in Nat /\ tables[x].ref < nextId
    <2>1. RowInv(x) /\ tables[x] \in Row /\ x \in Nat
        BY <1>0, TableIs DEF TrfInv
    <2>2. tables[x].ref \in Nat
        BY <1>0, <2>1, RowIs
    <2>3. x < nextId
        BY <2>1 DEF RowInv
    <2> QED
        BY <1>0, <1>6, <2>1, <2>2, <2>3 DEF RowInv
<1>8. /\ disturbed \subseteq disturbed' /\ disturbed' \subseteq Orgs
      /\ \A t \in TrfImporters : imp[t].pc = "purge" /\ imp[t].org = o => o \in disturbed'
      /\ other => o \in disturbed'
    <2>1. other \in BOOLEAN
        OBVIOUS
    <2> QED
        BY <1>1, <1>2, <2>1, MeetsGrows
<1>9. nextId' \in 1..(TrfIds + 1) /\ trfEdits' \in 0..TrfEdits
    BY <1>0, <1>1 DEF TrfTyped
<1>10. TrfTyped'
    BY <1>0, <1>1, <1>6, <1>8, <1>9 DEF TrfTyped
<1>11. \A x \in DOMAIN tables' \ DOMAIN tables :
          ~(x < nextId) /\ tables'[x].org = o /\ x \in {nextId, nextId + 1}
    BY <1>0, <1>3, <1>6
<1>12. TablesGo
    BY <1>0, <1>1, <1>7, <1>8, <1>11 DEF TablesGo
<1>13. n \in DOMAIN tables' /\ tables'[n] = tables[n]
    BY <1>0, <1>6, <1>7
<1>14. ASSUME NEW x \in DOMAIN tables' PROVE RowInv(x)'
    <2>0. update.id \in Nat /\ update.id < nextId
        BY <1>0 DEF UpdateInv, TrfTyped
    <2>1. CASE x \in DOMAIN tables
        <3>1. tables'[x] = tables[x] /\ RowInv(x)
            BY <1>7, <2>1
        <3>2. DOMAIN tables \subseteq DOMAIN tables'
            BY <1>6
        <3>3. tables'[x].ref # 0 =>
                \/ tables'[x].ref \in DOMAIN tables'
                \/ tables[x].tab = "check" /\ (tables[x].org \in disturbed' \/ tables'[x].ref \in dropped')
            BY <1>1, <1>8, <3>1, <3>2 DEF RowInv
        <3> QED
            BY <1>6, <1>12, <2>1, <3>3, RowStays
    <2>2. CASE x = nextId
        <3>1. tables'[x] = a /\ x < nextId' /\ n < nextId'
            BY <1>0, <1>1, <1>2, <1>6, <2>2
        <3>2. n = update.id => update.row.org = o
            BY <1>0, <1>2 DEF UpdateInv
        <3>3. "node" \in RefersTo("service")
            BY DEF RefersTo
        <3> QED
            BY <1>0, <1>1, <1>2, <1>3, <1>13, <3>1, <3>2, <3>3 DEF RowInv
    <2>3. CASE x = nextId + 1
        <3>1. tables'[x] = b /\ x < nextId' /\ nextId < nextId' /\ nextId \in DOMAIN tables'
              /\ tables'[nextId] = a
            BY <1>0, <1>1, <1>6, <2>3
        <3>2. nextId # update.id /\ nextId # 0
            BY <1>0, <2>0
        <3>3. "service" \in RefersTo("check")
            BY DEF RefersTo
        <3> QED
            BY <1>1, <1>3, <3>1, <3>2, <3>3 DEF RowInv
    <2> QED
        BY <1>6, <2>1, <2>2, <2>3
<1>15. RemovingInv'
    <2> DEFINE m == removing.id
    <2>1. removing.gone \subseteq DOMAIN tables' /\ m \in Nat /\ m < nextId
        BY <1>0, <1>6 DEF TrfInv, TrfTyped, RemovingInv
    <2>2. ASSUME NEW x \in DOMAIN tables' \ DOMAIN tables, tables'[x].tab = "check", ~other
          PROVE  tables'[x].ref \notin WithHanging({m})'
        <3>1. x = nextId + 1 /\ tables'[x].ref = nextId
            BY <1>3, <1>6, <1>11, <2>2
        <3>2. nextId # m /\ tables'[nextId].ref = n
            BY <1>0, <1>3, <1>6, <2>1
        <3> QED
            BY <1>1, <2>2, <3>1, <3>2 DEF WithHanging, Hanging, Of
    <2>3. \A x \in DOMAIN tables' \ DOMAIN tables :
             tables'[x].tab = "check" /\ m # 0 =>
                tables'[x].org \in disturbed' \/ tables'[x].ref \notin WithHanging({m})'
        BY <1>8, <1>11, <2>2
    <2> QED
        BY <1>1, <1>12, <2>1, <2>3, RemovingKept
<1>16. ASSUME NEW t \in TrfImporters
       PROVE  /\ imp[t].gone \subseteq DOMAIN tables' /\ removing'.gone \cap imp[t].gone = {}
              /\ n \notin imp[t].gone
    BY <1>1, <1>6 DEF TrfInv, ImportInv, ApartInv, LockedByAny
<1>17. ASSUME NEW x \in DOMAIN tables' \ DOMAIN tables, NEW t \in TrfImporters
       PROVE  /\ tables'[x].org = imp[t].org /\ imp[t].pc = "purge" => imp[t].org \in disturbed'
              /\ tables'[x].tab \in {"service", "bot"} => tables'[x].ref \notin imp[t].gone
    BY <1>3, <1>6, <1>8, <1>11, <1>16
<1> QED
    BY <1>1, <1>10, <1>12, <1>14, <1>15, <1>16, <1>17, EditStep

LEMMA EditNodeReadsStep ==
    ASSUME TrfInv, NEW n \in Of(tables, "node"), EditNodeReads(n)
    PROVE  TrfInv'
<1>0. tables \in Table /\ TrfTyped /\ nextId \in Nat
      /\ n \in DOMAIN tables /\ tables[n].tab = "node" /\ TrfIds \in Nat /\ TrfEdits \in Nat
    BY TrfAssumption DEF TrfInv, TrfTyped, Of
<1>1. PICK zero \in BOOLEAN : update' = [id |-> n, row |-> [tables[n] EXCEPT !.zero = zero]]
    BY DEF EditNodeReads
<1>2. /\ trfEdits < TrfEdits /\ trfEdits' = trfEdits + 1
      /\ UNCHANGED <<tables, file, exp, imp, removing, nextId, disturbed, dropped>>
    BY DEF EditNodeReads, TrfEdit
<1>3. tables[n] \in Row /\ n \in 0..TrfIds /\ RowInv(n)
    BY <1>0, TableIs DEF TrfInv
<1> DEFINE row == [tables[n] EXCEPT !.zero = zero]
<1>4. row \in Row /\ row.tab = "node" /\ row.org = tables[n].org /\ row.ref = 0
    BY <1>0, <1>3, RowIs DEF RowInv
<1> HIDE DEF row
<1>5. update'.id = n /\ update'.row = row /\ update' \in [id : 0..TrfIds, row : Row]
    BY <1>1, <1>3, <1>4 DEF row
<1>6. trfEdits' \in 0..TrfEdits
    BY <1>0, <1>2 DEF TrfTyped
<1>7. TrfTyped'
    BY <1>0, <1>2, <1>5, <1>6 DEF TrfTyped
<1>8. TablesGo
    BY <1>0, <1>2, <1>4, <1>5 DEF TablesGo
<1> QED
    BY <1>2, <1>7, <1>8, QuietStep

LEMMA EditNodeSavesStep ==
    ASSUME TrfInv, EditNodeSaves
    PROVE  TrfInv'
<1>0. tables \in Table /\ TrfTyped /\ UpdateInv /\ nextId \in Nat /\ nextId >= 1
      /\ update \in [id : 0..TrfIds, row : Row] /\ TrfIds \in Nat
    BY TrfAssumption DEF TrfInv, TrfTyped
<1> DEFINE n == update.id
           row == IF n \in DOMAIN tables THEN update.row ELSE Created(update.row)
           g == [x \in {n} |-> IF x \in DOMAIN tables THEN update.row ELSE Created(update.row)]
<1>1. /\ n # 0 /\ tables' = Plus(tables, g) /\ update' = [update EXCEPT !.id = 0]
      /\ Meets(update.row.org, FALSE)
      /\ UNCHANGED <<file, exp, imp, removing, nextId, trfEdits, dropped>>
    BY DEF EditNodeSaves
<1>2. /\ row \in Row /\ n \in 1..TrfIds /\ row.org \in Orgs /\ update.row \in Row
      /\ row.tab = update.row.tab /\ row.org = update.row.org /\ row.ref = update.row.ref
    BY <1>0, <1>1, CreatedIs, RowIs
<1>3. {n} \in SUBSET (1..TrfIds) /\ g \in [{n} -> Row] /\ g[n] = row
    BY <1>2
<1>4. g \in Table /\ DOMAIN g = {n}
    BY <1>3, TableMade
<1>5. update'.id = 0 /\ update'.row = update.row /\ update' \in [id : 0..TrfIds, row : Row]
    BY <1>0, <1>1
<1> HIDE DEF g, row
<1>6. /\ tables' \in Table /\ DOMAIN tables' = DOMAIN tables \cup {n} /\ tables'[n] = row
      /\ \A x \in DOMAIN tables \ {n} : tables'[x] = tables[x]
    <2>1. /\ Plus(tables, g) \in Table /\ DOMAIN Plus(tables, g) = DOMAIN tables \cup DOMAIN g
          /\ \A x \in DOMAIN g : Plus(tables, g)[x] = g[x]
          /\ \A x \in DOMAIN tables \ DOMAIN g : Plus(tables, g)[x] = tables[x]
        BY <1>0, <1>4, PlusTable
    <2> QED
        BY <1>1, <1>3, <1>4, <2>1
<1>7. disturbed \subseteq disturbed' /\ disturbed' \subseteq Orgs
      /\ \A t \in TrfImporters : imp[t].pc = "purge" /\ imp[t].org = row.org => row.org \in disturbed'
    BY <1>1, <1>2, MeetsGrows
<1>8. TrfTyped'
    BY <1>0, <1>1, <1>5, <1>6, <1>7 DEF TrfTyped
<1>9. row.tab = "node" /\ row.ref = 0 /\ n < nextId
      /\ (n \in DOMAIN tables => /\ tables[n].tab = "node" /\ tables[n].org = row.org
                                 /\ tables[n].ref = 0)
    BY <1>0, <1>1, <1>2 DEF UpdateInv, TrfInv, RowInv
<1>10. TablesGo
    BY <1>0, <1>1, <1>2, <1>5, <1>6, <1>7, <1>9 DEF TablesGo
<1>11. 0 \notin DOMAIN tables' /\ DOMAIN tables \subseteq DOMAIN tables'
    BY <1>6, TableIs
<1>12. ASSUME NEW x \in DOMAIN tables' PROVE RowInv(x)'
    <2>1. CASE x \notin DOMAIN tables
        <3>1. x = n /\ tables'[x] = row /\ 0 < nextId
            BY <1>0, <1>6, <2>1
        <3> QED
            BY <1>1, <1>9, <1>11, <3>1 DEF RowInv
    <2>2. CASE x \in DOMAIN tables
        <3>1. RowInv(x) /\ tables'[x].ref = tables[x].ref
            BY <1>6, <1>9, <2>2 DEF TrfInv
        <3>2. tables'[x].ref # 0 =>
                \/ tables'[x].ref \in DOMAIN tables'
                \/ tables[x].tab = "check" /\ (tables[x].org \in disturbed' \/ tables'[x].ref \in dropped')
            BY <1>1, <1>7, <1>11, <3>1 DEF RowInv
        <3> QED
            BY <1>6, <1>10, <2>2, <3>2, RowStays
    <2> QED
        BY <2>1, <2>2
<1>13. \A x \in DOMAIN tables' \ DOMAIN tables : tables'[x].tab = "node" /\ tables'[x].org = row.org
    BY <1>6, <1>9
<1>14. RemovingInv'
    <2>1. removing.gone \subseteq DOMAIN tables'
        BY <1>11 DEF TrfInv, RemovingInv
    <2> QED
        BY <1>1, <1>10, <1>13, <2>1, RemovingKept
<1>15. ASSUME NEW t \in TrfImporters
       PROVE  imp[t].gone \subseteq DOMAIN tables' /\ removing'.gone \cap imp[t].gone = {}
    BY <1>1, <1>11 DEF TrfInv, ImportInv, ApartInv
<1> QED
    BY <1>1, <1>7, <1>8, <1>10, <1>12, <1>13, <1>14, <1>15, EditStep

\* Rows go, and keys lose what they refer to.
LEMMA LeftIs ==
    ASSUME TrfInv, NEW S \in SUBSET DOMAIN tables
    PROVE  /\ RowsLeft(S) \in Table /\ DOMAIN RowsLeft(S) = DOMAIN tables \ S
           /\ \A x \in DOMAIN tables \ S :
                 /\ RowsLeft(S)[x].tab = tables[x].tab /\ RowsLeft(S)[x].org = tables[x].org
                 /\ IF tables[x].tab = "key" /\ tables[x].ref \in S THEN RowsLeft(S)[x].ref = 0
                    ELSE RowsLeft(S)[x] = tables[x]
<1> DEFINE D == DOMAIN tables \ S
           none == 0
           Freed(x) == tables[x].tab = "key" /\ tables[x].ref \in S
           keyless(x) == [tables[x] EXCEPT !.ref = none]
           left == [x \in D |-> IF Freed(x) THEN keyless(x) ELSE tables[x]]
<1>1. left = RowsLeft(S)
    BY DEF RowsLeft
<1>2. none = 0 /\ none \in 0..TrfIds /\ D \in SUBSET (1..TrfIds)
    BY TrfAssumption, TableIs DEF TrfInv, TrfTyped
<1> HIDE DEF none
<1>3. ASSUME NEW x \in D
      PROVE  /\ tables[x] \in Row /\ keyless(x) \in Row /\ keyless(x).tab = tables[x].tab
             /\ keyless(x).org = tables[x].org /\ keyless(x).ref = 0
    <2>1. tables[x] \in Row
        BY TableIs DEF TrfInv, TrfTyped
    <2> QED
        BY <1>2, <2>1, RowIs
<1> HIDE DEF keyless, D, Freed
<1>4. ASSUME NEW x \in D
      PROVE  /\ left[x] \in Row /\ left[x].tab = tables[x].tab /\ left[x].org = tables[x].org
             /\ IF Freed(x) THEN left[x].ref = 0 ELSE left[x] = tables[x]
    <2>1. CASE Freed(x)
        BY <1>3, <2>1
    <2>2. CASE ~Freed(x)
        BY <1>3, <2>2
    <2> QED
        BY <2>1, <2>2
<1>5. left \in [D -> Row]
    BY <1>4
<1> HIDE DEF left
<1>6. left \in Table /\ DOMAIN left = D
    BY <1>2, <1>5, TableMade
<1> QED
    BY <1>1, <1>4, <1>6 DEF D, Freed

\* A step after which rows are gone, with what hangs on them: the checks on them too, or
\* they are strays by DeleteOrgNode.
LEMMA RowsLeave ==
    ASSUME TrfInv, NEW S \in SUBSET DOMAIN tables, Closed(S), tables' = RowsLeft(S),
           UNCHANGED <<nextId, update, disturbed>>, dropped \subseteq dropped',
           \A x \in DOMAIN tables \ S :
              tables[x].tab = "check" /\ tables[x].ref \in S =>
                 tables[x].org \in disturbed \/ tables[x].ref \in dropped'
    PROVE  /\ tables' \in Table /\ DOMAIN tables' = DOMAIN tables \ S
           /\ TablesGo /\ \A x \in DOMAIN tables' : RowInv(x)'
<1>1. /\ tables' \in Table /\ DOMAIN tables' = DOMAIN tables \ S
      /\ \A x \in DOMAIN tables \ S :
            /\ tables'[x].tab = tables[x].tab /\ tables'[x].org = tables[x].org
            /\ IF tables[x].tab = "key" /\ tables[x].ref \in S THEN tables'[x].ref = 0
               ELSE tables'[x] = tables[x]
    <2> DEFINE left == RowsLeft(S)
    <2>1. /\ left \in Table /\ DOMAIN left = DOMAIN tables \ S
          /\ \A x \in DOMAIN tables \ S :
                /\ left[x].tab = tables[x].tab /\ left[x].org = tables[x].org
                /\ IF tables[x].tab = "key" /\ tables[x].ref \in S THEN left[x].ref = 0
                   ELSE left[x] = tables[x]
        BY LeftIs
    <2>2. tables' = left
        OBVIOUS
    <2> HIDE DEF left
    <2> QED
        BY <2>1, <2>2
<1>2. nextId \in Nat
    BY TrfAssumption DEF TrfInv, TrfTyped
<1>3. TablesGo
    <2>1. \A x \in DOMAIN tables \cap DOMAIN tables' :
             /\ tables'[x].tab = tables[x].tab /\ tables'[x].org = tables[x].org
             /\ tables'[x].ref = tables[x].ref \/ (tables[x].tab = "key" /\ tables'[x].ref = 0)
        BY <1>1
    <2>2. DOMAIN tables' \ DOMAIN tables = {}
        BY <1>1
    <2> QED
        BY <1>2, <2>1, <2>2 DEF TablesGo
<1>4. ASSUME NEW x \in DOMAIN tables' PROVE RowInv(x)'
    <2> DEFINE r == tables[x].ref
    <2>1. RowInv(x) /\ x \in DOMAIN tables /\ x \notin S /\ tables[x].tab \in Tabs
        <3>1. tables[x] \in Row
            BY <1>1, TableIs DEF TrfInv, TrfTyped
        <3> QED
            BY <1>1, <3>1, RowIs DEF TrfInv
    <2>2. ASSUME tables'[x].ref # 0
          PROVE  \/ tables'[x].ref \in DOMAIN tables'
                 \/ tables[x].tab = "check" /\ (tables[x].org \in disturbed' \/ tables'[x].ref \in dropped')
        <3>1. tables'[x].ref = r /\ r # 0 /\ ~(tables[x].tab = "key" /\ r \in S)
            BY <1>1, <2>2
        <3>2. CASE r \in S
            <4>1. tables[x].tab \notin {"service", "bot", "key", "node"}
                BY <2>1, <3>1, <3>2 DEF Closed, RowInv
            <4>2. tables[x].tab = "check"
                BY <2>1, <4>1 DEF Tabs
            <4> QED
                BY <2>1, <3>1, <3>2, <4>2
        <3>3. CASE r \notin S
            BY <1>1, <2>1, <3>1, <3>3 DEF RowInv
        <3> QED
            BY <3>2, <3>3
    <2> QED
        BY <1>1, <1>3, <2>1, <2>2, RowStays
<1> QED
    BY <1>1, <1>3, <1>4

LEMMA RemoveChecksStep ==
    ASSUME TrfInv, NEW n \in Of(tables, "node"), RemoveChecks(n)
    PROVE  TrfInv'
<1>0. /\ tables \in Table /\ TrfTyped /\ nextId \in Nat /\ n \in DOMAIN tables
      /\ TrfIds \in Nat /\ TrfEdits \in Nat
    BY TrfAssumption DEF TrfInv, TrfTyped, Of
<1> DEFINE found == {x \in Of(tables, "check") : tables[x].ref \in WithHanging({n})}
<1>1. /\ trfEdits < TrfEdits /\ trfEdits' = trfEdits + 1 /\ found \cap LockedByAny = {}
      /\ removing' = [id |-> n, gone |-> found]
      /\ UNCHANGED <<tables, file, exp, imp, update, nextId, disturbed, dropped>>
    BY DEF RemoveChecks, TrfEdit
<1>2. /\ found \in SUBSET DOMAIN tables
      /\ \A x \in found : tables[x].tab = "check"
      /\ \A x \in DOMAIN tables :
            tables[x].tab = "check" /\ tables[x].ref \in WithHanging({n}) => x \in found
    BY DEF Of
<1> HIDE DEF found
<1>3. n \in 1..TrfIds /\ n < nextId /\ found \in SUBSET (1..TrfIds)
    BY <1>0, <1>2, TableIs DEF TrfInv, RowInv
<1>4. removing'.id = n /\ removing'.gone = found
      /\ removing' \in [id : 0..TrfIds, gone : SUBSET (1..TrfIds)]
    BY <1>0, <1>1, <1>3
<1>5. trfEdits' \in 0..TrfEdits
    BY <1>0, <1>1 DEF TrfTyped
<1>6. TrfTyped'
    BY <1>0, <1>1, <1>4, <1>5 DEF TrfTyped
<1>7. TablesGo
    BY <1>0, <1>1 DEF TablesGo
<1>8. RemovingInv'
    <2>1. WithHanging({removing.id})' = WithHanging({n})
        BY <1>1, <1>4 DEF WithHanging, Hanging, Of
    <2>2. removing'.id < nextId' /\ removing'.id # 0
        BY <1>1, <1>3, <1>4
    <2> QED
        BY <1>1, <1>2, <1>4, <2>1, <2>2 DEF RemovingInv
<1>9. ASSUME NEW t \in TrfImporters
      PROVE  imp[t].gone \subseteq DOMAIN tables' /\ removing'.gone \cap imp[t].gone = {}
    BY <1>1, <1>4 DEF TrfInv, ImportInv, LockedByAny
<1>10. \A x \in DOMAIN tables' : RowInv(x)'
    BY <1>1, <1>7, RowsKept
<1> QED
    BY <1>1, <1>6, <1>7, <1>8, <1>9, <1>10, EditStep

\* DeleteNode is over.
LEMMA NothingRemoved ==
    ASSUME TrfInv, TrfTyped', removing' = [id |-> 0, gone |-> {}]
    PROVE  /\ removing'.id = 0 /\ removing'.gone = {} /\ RemovingInv'
           /\ removing' \in [id : 0..TrfIds, gone : SUBSET (1..TrfIds)]
<1>1. nextId' \in Nat /\ 0 < nextId'
    BY TrfAssumption DEF TrfTyped
<1> QED
    BY <1>1, TrfAssumption DEF RemovingInv

LEMMA RemoveNodeStep ==
    ASSUME TrfInv, RemoveNode
    PROVE  TrfInv'
<1>0. TrfTyped /\ RemovingInv /\ removing.id \in Nat /\ tables \in Table
    BY DEF TrfInv, TrfTyped
<1> DEFINE n == removing.id
           hanging == WithHanging({n}) \cap DOMAIN tables
           all == removing.gone \cup hanging
<1>1. /\ n # 0 /\ \A t \in TrfImporters : all \cap imp[t].gone = {}
      /\ tables' = RowsLeft(all) /\ removing' = [id |-> 0, gone |-> {}]
      /\ UNCHANGED <<file, exp, imp, update, nextId, trfEdits, disturbed, dropped>>
    BY DEF RemoveNode
<1>2. all \in SUBSET DOMAIN tables
    BY <1>0 DEF RemovingInv
<1>3. ASSUME NEW x \in DOMAIN tables, tables[x].ref \in all, tables[x].tab # "key"
      PROVE  tables[x].ref \in hanging /\ (tables[x].tab \in {"service", "bot"} => x \in hanging)
    <2> DEFINE r == tables[x].ref
    <2>1. r \in DOMAIN tables /\ tables[r].tab \in RefersTo(tables[x].tab)
        BY <1>2, <1>3 DEF TrfInv, RowInv
    <2>2. r \notin removing.gone
        BY <1>0, <2>1 DEF RemovingInv, RefersTo
    <2>3. ASSUME tables[x].tab \in {"service", "bot"} PROVE x \in hanging
        <3>1. tables[r].tab = "node"
            BY <2>1, <2>3 DEF RefersTo
        <3>2. r = n
            BY <1>3, <2>2, <3>1 DEF WithHanging, Hanging, Of
        <3> QED
            BY <2>3, <3>2 DEF WithHanging, Hanging, Of
    <2> QED
        BY <1>3, <2>2, <2>3
<1>4. Closed(all)
    BY <1>3 DEF Closed
<1>5. ASSUME NEW x \in DOMAIN tables \ all, tables[x].tab = "check", tables[x].ref \in all
      PROVE  tables[x].org \in disturbed
    BY <1>0, <1>1, <1>3, <1>5 DEF RemovingInv
<1> HIDE DEF all
<1>6. /\ tables' \in Table /\ DOMAIN tables' = DOMAIN tables \ all
      /\ TablesGo /\ \A x \in DOMAIN tables' : RowInv(x)'
    BY <1>1, <1>2, <1>4, <1>5, RowsLeave
<1>7. removing' \in [id : 0..TrfIds, gone : SUBSET (1..TrfIds)]
    BY <1>1, TrfAssumption
<1>8. TrfTyped'
    BY <1>0, <1>1, <1>6, <1>7 DEF TrfTyped
<1>9. RemovingInv' /\ removing'.gone = {}
    BY <1>1, <1>8, NothingRemoved
<1>10. ASSUME NEW t \in TrfImporters
       PROVE  imp[t].gone \subseteq DOMAIN tables' /\ removing'.gone \cap imp[t].gone = {}
    BY <1>1, <1>6, <1>9 DEF TrfInv, ImportInv
<1> QED
    BY <1>1, <1>6, <1>8, <1>9, <1>10, EditStep

LEMMA RemoveFailsStep ==
    ASSUME TrfInv, RemoveFails
    PROVE  TrfInv'
<1>1. /\ removing' = [id |-> 0, gone |-> {}]
      /\ UNCHANGED <<tables, file, exp, imp, update, nextId, trfEdits, disturbed, dropped>>
    BY DEF RemoveFails
<1>2. removing' \in [id : 0..TrfIds, gone : SUBSET (1..TrfIds)]
    BY <1>1, TrfAssumption
<1>3. TrfTyped'
    BY <1>1, <1>2 DEF TrfInv, TrfTyped
<1>4. TablesGo
    BY <1>1, StillGo
<1>5. RemovingInv' /\ removing'.gone = {}
    BY <1>1, <1>3, NothingRemoved
<1>6. \A t \in TrfImporters : imp[t].gone \subseteq DOMAIN tables' /\ removing'.gone \cap imp[t].gone = {}
    BY <1>1, <1>5 DEF TrfInv, ImportInv
<1>7. \A x \in DOMAIN tables' : RowInv(x)'
    BY <1>1, <1>4, RowsKept
<1> QED
    BY <1>1, <1>3, <1>4, <1>5, <1>6, <1>7, EditStep

LEMMA DropNodeStep ==
    ASSUME TrfInv, NEW n \in Of(tables, "node"), DropNode(n)
    PROVE  TrfInv'
<1>0. /\ tables \in Table /\ TrfTyped /\ nextId \in Nat /\ n \in DOMAIN tables
      /\ tables[n].tab = "node" /\ TrfIds \in Nat /\ TrfEdits \in Nat /\ tables[n] \in Row
    BY TrfAssumption, TableIs DEF TrfInv, TrfTyped, Of
<1> DEFINE all == WithHanging({n})
<1>1. /\ trfEdits < TrfEdits /\ trfEdits' = trfEdits + 1 /\ all \cap LockedByAny = {}
      /\ tables' = RowsLeft(all) /\ dropped' = dropped \cup all
      /\ UNCHANGED <<file, exp, imp, update, removing, nextId, disturbed>>
    BY DEF DropNode, TrfEdit
<1>2. all \in SUBSET DOMAIN tables /\ Closed(all)
    <2>1. PurgeOrder[5] = "node" /\ 5 \in 1..5 /\ {n} \in SUBSET DOMAIN tables /\ tables[n].org \in Orgs
        BY <1>0, RowIs DEF PurgeOrder
    <2>2. \A x \in {n} : tables[x].tab = PurgeOrder[5] /\ tables[x].org = tables[n].org
        BY <1>0, <2>1
    <2> QED
        BY <2>1, <2>2, HangingIs
<1> HIDE DEF all
<1>3. /\ tables' \in Table /\ DOMAIN tables' = DOMAIN tables \ all
      /\ TablesGo /\ \A x \in DOMAIN tables' : RowInv(x)'
    BY <1>1, <1>2, RowsLeave
<1>4. dropped' \subseteq 1..TrfIds /\ trfEdits' \in 0..TrfEdits
    BY <1>0, <1>1, <1>2, TableIs DEF TrfTyped
<1>5. TrfTyped'
    BY <1>0, <1>1, <1>3, <1>4 DEF TrfTyped
<1>6. DOMAIN tables' \subseteq DOMAIN tables
    BY <1>3
<1>7. removing.gone \subseteq DOMAIN tables'
    BY <1>1, <1>3 DEF TrfInv, RemovingInv, LockedByAny
<1>8. RemovingInv'
    BY <1>1, <1>3, <1>6, <1>7, RemovingKept
<1>9. ASSUME NEW t \in TrfImporters
      PROVE  imp[t].gone \subseteq DOMAIN tables' /\ removing'.gone \cap imp[t].gone = {}
    BY <1>1, <1>3 DEF TrfInv, ImportInv, ApartInv, LockedByAny
<1> QED
    BY <1>1, <1>3, <1>5, <1>6, <1>8, <1>9, EditStep

------------------------------------------------------------------------------
(* The inserts of ImportOrgConfig *)

\* Every row of a file gets an id of its own, among those given with the commit.
LEMMA NewIdIs ==
    ASSUME NEW f \in Table, nextId \in Nat
    PROVE  /\ Cardinality(DOMAIN f) \in Nat
           /\ \A x \in DOMAIN f : /\ NewId(f, x) \in Nat /\ nextId <= NewId(f, x)
                                  /\ NewId(f, x) < nextId + Cardinality(DOMAIN f)
           /\ \A x, y \in DOMAIN f : NewId(f, x) = NewId(f, y) => x = y
<1> DEFINE D == DOMAIN f
           Below(x) == {y \in D : y < x}
<1>1. IsFiniteSet(D) /\ Cardinality(D) \in Nat /\ D \subseteq Nat
    <2>1. D \subseteq 1..TrfIds /\ TrfIds \in Nat
        BY TableIs, TrfAssumption
    <2>2. IsFiniteSet(1..TrfIds)
        BY <2>1, FS_Interval
    <2>3. IsFiniteSet(D)
        BY <2>1, <2>2, FS_Subset
    <2> QED
        BY <2>1, <2>3, FS_CardinalityType
<1> HIDE DEF D
<1>2. ASSUME NEW x \in D
      PROVE  /\ IsFiniteSet(Below(x)) /\ Cardinality(Below(x)) \in Nat
             /\ Cardinality(Below(x)) < Cardinality(D)
    <2>1. IsFiniteSet(D \ {x}) /\ Cardinality(D \ {x}) = Cardinality(D) - 1
        BY <1>1, FS_RemoveElement
    <2>2. Below(x) \in SUBSET (D \ {x})
        BY <1>1
    <2>3. IsFiniteSet(Below(x)) /\ Cardinality(Below(x)) <= Cardinality(D \ {x})
        BY <2>1, <2>2, FS_Subset
    <2>4. Cardinality(Below(x)) \in Nat
        BY <2>3, FS_CardinalityType
    <2> QED
        BY <1>1, <2>1, <2>3, <2>4
<1>3. ASSUME NEW x \in D, NEW y \in D, x < y
      PROVE  Cardinality(Below(x)) < Cardinality(Below(y))
    <2>1. IsFiniteSet(Below(x)) /\ Cardinality(Below(x)) \in Nat
          /\ IsFiniteSet(Below(y)) /\ Cardinality(Below(y)) \in Nat
        BY <1>2
    <2>2. Cardinality(Below(x) \cup {x}) = Cardinality(Below(x)) + 1
        <3>1. x \notin Below(x)
            BY <1>1
        <3> QED
            BY <2>1, <3>1, FS_AddElement
    <2>3. Below(x) \cup {x} \in SUBSET Below(y)
        <3>1. \A z \in D : z < x => z < y
            BY <1>1, <1>3
        <3>2. x \in Below(y) /\ \A z \in Below(x) : z \in Below(y)
            BY <1>3, <3>1
        <3> HIDE DEF Below
        <3> QED
            BY <3>2
    <2>4. Cardinality(Below(x) \cup {x}) <= Cardinality(Below(y))
        BY <2>1, <2>3, FS_Subset
    <2> QED
        BY <2>1, <2>2, <2>4
<1>4. \A x : NewId(f, x) = nextId + Cardinality(Below(x))
    BY DEF NewId, D
<1> HIDE DEF Below
<1>5. ASSUME NEW x \in D
      PROVE  NewId(f, x) \in Nat /\ nextId <= NewId(f, x) /\ NewId(f, x) < nextId + Cardinality(D)
    BY <1>1, <1>2, <1>4
<1>6. ASSUME NEW x \in D, NEW y \in D, NewId(f, x) = NewId(f, y)
      PROVE  x = y
    <2>1. Cardinality(Below(x)) = Cardinality(Below(y)) /\ Cardinality(Below(x)) \in Nat
        BY <1>2, <1>4, <1>6
    <2>2. x \in Nat /\ y \in Nat /\ ~(x < y) /\ ~(y < x)
        BY <1>1, <1>3, <2>1
    <2> QED
        BY <2>2
<1> QED
    BY <1>1, <1>5, <1>6 DEF D

\* What is inserted: for each row of the file one of the same table and content in the
\* organisation, as tx.Create writes it, that refers to what came of the row that the
\* file's refers to.
LEMMA InsertedIs ==
    ASSUME TrfInv, NEW t \in TrfImporters, imp[t].pc = "purge",
           nextId + Cardinality(DOMAIN imp[t].rows) <= TrfIds + 1
    PROVE  /\ Inserted(t) \in Table /\ DOMAIN Inserted(t) = NewIds(t)
           /\ \A n \in NewIds(t) : n \in Nat /\ nextId <= n
                                   /\ n < nextId + Cardinality(DOMAIN imp[t].rows)
           /\ \A x \in DOMAIN imp[t].rows :
                 LET n == NewId(imp[t].rows, x)
                     old == imp[t].rows[x]
                     new == Inserted(t)[n]
                 IN  /\ n \in NewIds(t) /\ new.tab = old.tab /\ new.content = old.content
                     /\ new.zero = Created(old).zero /\ new.org = imp[t].org
                     /\ IF old.tab = "node" \/ old.ref = 0 THEN new.ref = 0
                        ELSE old.ref \in DOMAIN imp[t].rows /\ new.ref = NewId(imp[t].rows, old.ref)
<1> DEFINE f == imp[t].rows
           D == DOMAIN f
           o == imp[t].org
<1>0. /\ f \in Table /\ o \in Orgs /\ FileOK(f) /\ nextId \in Nat /\ nextId >= 1 /\ TrfIds \in Nat
    BY TrfAssumption DEF TrfInv, TrfTyped, TrfImport, ImportInv
<1> HIDE DEF f, D, o
<1>1. /\ Cardinality(D) \in Nat
      /\ \A x \in D : /\ NewId(f, x) \in Nat /\ nextId <= NewId(f, x)
                      /\ NewId(f, x) < nextId + Cardinality(D)
      /\ \A x, y \in D : NewId(f, x) = NewId(f, y) => x = y
    BY <1>0, NewIdIs DEF D
<1>2. nextId + Cardinality(D) <= TrfIds + 1
    BY DEF D, f
<1>3. NewIds(t) = {NewId(f, x) : x \in D}
    BY DEF NewIds, D, f
<1>4. ASSUME NEW n \in NewIds(t) PROVE n \in Nat /\ nextId <= n /\ n < nextId + Cardinality(D)
    BY <1>1, <1>3
<1>5. NewIds(t) \in SUBSET (1..TrfIds)
    BY <1>0, <1>1, <1>2, <1>4
<1>6. ASSUME NEW x \in D PROVE OldId(t, NewId(f, x)) = x
    <2> DEFINE y == CHOOSE y \in D : NewId(f, y) = NewId(f, x)
    <2>1. OldId(t, NewId(f, x)) = y
        BY DEF OldId, D, f
    <2>2. y \in D /\ NewId(f, y) = NewId(f, x)
        <3>1. \E z \in D : NewId(f, z) = NewId(f, x)
            OBVIOUS
        <3> QED
            BY <3>1
    <2> QED
        BY <1>1, <2>1, <2>2
<1>7. ASSUME NEW x \in D
      PROVE  /\ InsertRow(t, x) \in Row /\ InsertRow(t, x).tab = f[x].tab
             /\ InsertRow(t, x).content = f[x].content /\ InsertRow(t, x).org = o
             /\ InsertRow(t, x).zero = Created(f[x]).zero
             /\ IF f[x].tab = "node" \/ f[x].ref = 0 THEN InsertRow(t, x).ref = 0
                ELSE f[x].ref \in D /\ InsertRow(t, x).ref = NewId(f, f[x].ref)
    <2> DEFINE ref == IF f[x].tab = "node" \/ f[x].ref = 0 THEN 0 ELSE NewId(f, f[x].ref)
    <2>1. f[x] \in Row /\ f[x].tab \in Tabs
        BY <1>0, TableIs, RowIs DEF D
    <2>2. f[x].tab \in {"service", "bot", "check"} => f[x].ref # 0
        BY <1>0 DEF FileOK, D
    <2>3. f[x].tab # "node" /\ f[x].ref # 0 => f[x].ref \in D
        BY <1>0 DEF FileOK, D
    <2>4. ref \in 0..TrfIds
        <3>1. ASSUME NEW y \in D PROVE NewId(f, y) \in 0..TrfIds
            BY <1>0, <1>1, <1>2
        <3> QED
            BY <1>0, <2>3, <3>1
    <2>5. InsertRow(t, x) = Copied(t, x, ref)
        BY <2>1, <2>2 DEF Tabs, InsertRow, InsertNode, InsertService, InsertBot, InsertCheck,
                          InsertKey, Mapped, f
    <2>6. Copied(t, x, ref) = Created([f[x] EXCEPT !.org = o, !.ref = ref])
        BY DEF Copied, f, o
    <2>7. (f[x].tab = "node" \/ f[x].ref = 0 => ref = 0)
          /\ (~(f[x].tab = "node" \/ f[x].ref = 0) => ref = NewId(f, f[x].ref))
        OBVIOUS
    <2> HIDE DEF ref
    <2>8. /\ InsertRow(t, x) \in Row /\ InsertRow(t, x).tab = f[x].tab
          /\ InsertRow(t, x).content = f[x].content /\ InsertRow(t, x).org = o
          /\ InsertRow(t, x).ref = ref /\ InsertRow(t, x).zero = Created(f[x]).zero
        <3> DEFINE row == [f[x] EXCEPT !.org = o, !.ref = ref]
        <3>1. /\ row \in Row /\ row.tab = f[x].tab /\ row.content = f[x].content /\ row.org = o
              /\ row.ref = ref /\ row.zero = f[x].zero
            BY <1>0, <2>1, <2>4, RowIs
        <3> HIDE DEF row
        <3>2. InsertRow(t, x) = Created(row)
            BY <2>5, <2>6 DEF row
        <3> QED
            BY <2>1, <3>1, <3>2, CreatedIs
    <2> QED
        BY <2>3, <2>7, <2>8
<1>8. ASSUME NEW x \in D PROVE NewId(f, x) \in NewIds(t) /\ Inserted(t)[NewId(f, x)] = InsertRow(t, x)
    BY <1>3, <1>6 DEF Inserted
<1>9. Inserted(t) \in [NewIds(t) -> Row]
    <2>1. ASSUME NEW n \in NewIds(t) PROVE InsertRow(t, OldId(t, n)) \in Row
        <3>1. PICK x \in D : n = NewId(f, x)
            BY <1>3
        <3> QED
            BY <1>6, <1>7, <3>1
    <2> QED
        BY <2>1 DEF Inserted
<1>10. Inserted(t) \in Table /\ DOMAIN Inserted(t) = NewIds(t)
    BY <1>5, <1>9, TableMade
<1>11. ASSUME NEW x \in D
       PROVE LET n == NewId(f, x)
                 old == f[x]
                 new == Inserted(t)[n]
             IN  /\ n \in NewIds(t) /\ new.tab = old.tab /\ new.content = old.content
                 /\ new.zero = Created(old).zero /\ new.org = o
                 /\ IF old.tab = "node" \/ old.ref = 0 THEN new.ref = 0
                    ELSE old.ref \in D /\ new.ref = NewId(f, old.ref)
    BY <1>7, <1>8
<1> QED
    BY <1>4, <1>10, <1>11 DEF f, D, o

\* The tables after a commit: what the transaction has left and what it inserts.
LEMMA CommittedIs ==
    ASSUME TrfInv, NEW t \in TrfImporters, ImportCommits(t)
    PROVE  /\ tables' \in Table
           /\ DOMAIN tables' = (DOMAIN tables \ imp[t].gone) \cup NewIds(t)
           /\ \A x \in DOMAIN tables : x \notin NewIds(t) /\ x \in Nat /\ x < nextId
           /\ \A x \in DOMAIN tables \ imp[t].gone :
                 /\ tables'[x].tab = tables[x].tab /\ tables'[x].org = tables[x].org
                 /\ IF tables[x].tab = "key" /\ tables[x].ref \in imp[t].gone THEN tables'[x].ref = 0
                    ELSE tables'[x] = tables[x]
           /\ \A n \in NewIds(t) : tables'[n] = Inserted(t)[n]
<1> DEFINE left == RowsLeft(imp[t].gone)
<1>1. tables \in Table /\ nextId \in Nat /\ imp[t].gone \in SUBSET DOMAIN tables
    BY TrfAssumption DEF TrfInv, TrfTyped, ImportInv
<1>2. /\ Inserted(t) \in Table /\ DOMAIN Inserted(t) = NewIds(t)
      /\ \A n \in NewIds(t) : n \in Nat /\ nextId <= n
    BY InsertedIs DEF ImportCommits
<1>3. \A x \in DOMAIN tables : x \in Nat /\ x < nextId
    BY <1>1, TableIs DEF TrfInv, RowInv
<1>4. \A x \in DOMAIN tables : x \notin NewIds(t)
    BY <1>1, <1>2, <1>3
<1>5. /\ left \in Table /\ DOMAIN left = DOMAIN tables \ imp[t].gone
      /\ \A x \in DOMAIN tables \ imp[t].gone :
            /\ left[x].tab = tables[x].tab /\ left[x].org = tables[x].org
            /\ IF tables[x].tab = "key" /\ tables[x].ref \in imp[t].gone THEN left[x].ref = 0
               ELSE left[x] = tables[x]
    BY <1>1, LeftIs
<1> HIDE DEF left
<1>6. /\ Plus(left, Inserted(t)) \in Table
      /\ DOMAIN Plus(left, Inserted(t)) = DOMAIN left \cup DOMAIN Inserted(t)
      /\ \A x \in DOMAIN Inserted(t) : Plus(left, Inserted(t))[x] = Inserted(t)[x]
      /\ \A x \in DOMAIN left \ DOMAIN Inserted(t) :
            Plus(left, Inserted(t))[x] = left[x]
    BY <1>2, <1>5, PlusTable
<1>7. tables' = Plus(left, Inserted(t))
    BY DEF ImportCommits, left
<1> QED
    BY <1>2, <1>3, <1>4, <1>5, <1>6, <1>7

LEMMA ImportCommitsStep ==
    ASSUME TrfInv, NEW t \in TrfImporters, ImportCommits(t)
    PROVE  TrfInv'
<1> DEFINE f == imp[t].rows
           D == DOMAIN f
           o == imp[t].org
           gone == imp[t].gone
           new == [Idle EXCEPT !.pc = "done", !.org = o, !.rows = f]
<1>0. /\ TrfTyped /\ ImportInv(t) /\ ApartInv /\ UpdateInv /\ imp \in [TrfImporters -> TrfImport]
      /\ f \in Table /\ o \in Orgs /\ FileOK(f) /\ nextId \in Nat /\ nextId >= 1 /\ TrfIds \in Nat
      /\ tables \in Table /\ update.id \in Nat /\ update.id < nextId
    BY TrfAssumption DEF TrfInv, TrfTyped, TrfImport, ImportInv, ImportCommits, UpdateInv
<1>1. /\ imp[t].pc = "purge" /\ imp[t].k = 6 /\ nextId + Cardinality(D) <= TrfIds + 1
      /\ nextId' = nextId + Cardinality(D) /\ imp' = [imp EXCEPT ![t] = new]
      /\ UNCHANGED <<file, exp, update, removing, trfEdits, disturbed, dropped>>
    BY DEF ImportCommits
<1>2. Cardinality(D) \in Nat
    BY <1>0, NewIdIs
<1>3. /\ new \in TrfImport /\ new.pc = "done" /\ new.wait = {} /\ new.gone = {}
    <2>1. new \in TrfImport
        BY <1>0, IdleIs DEF TrfImport
    <2>2. new.pc = "done" /\ new.wait = Idle.wait /\ new.gone = Idle.gone
        BY IdleIs DEF TrfImport
    <2> HIDE DEF new
    <2> QED
        BY <2>1, <2>2, IdleIs
<1> HIDE DEF new
<1>4. imp'[t] = new /\ \A u \in TrfImporters \ {t} : imp'[u] = imp[u]
    BY <1>0, <1>1
<1>5. /\ tables' \in Table
      /\ DOMAIN tables' = (DOMAIN tables \ gone) \cup NewIds(t)
      /\ \A x \in DOMAIN tables : x \notin NewIds(t) /\ x \in Nat /\ x < nextId
      /\ \A x \in DOMAIN tables \ gone :
            /\ tables'[x].tab = tables[x].tab /\ tables'[x].org = tables[x].org
            /\ IF tables[x].tab = "key" /\ tables[x].ref \in gone THEN tables'[x].ref = 0
               ELSE tables'[x] = tables[x]
      /\ \A n \in NewIds(t) : tables'[n] = Inserted(t)[n]
    BY CommittedIs
<1>6. \A n \in NewIds(t) : n \in Nat /\ nextId <= n /\ n < nextId + Cardinality(D)
    BY <1>1, InsertedIs
<1>7. ASSUME NEW n \in NewIds(t)
      PROVE  \E x \in D : n = NewId(f, x)
    BY DEF NewIds
<1>8. ASSUME NEW x \in D
      PROVE  LET n == NewId(f, x)
             IN  /\ n \in NewIds(t) /\ tables'[n].tab = f[x].tab /\ tables'[n].org = o
                 /\ IF f[x].tab = "node" \/ f[x].ref = 0 THEN tables'[n].ref = 0
                    ELSE f[x].ref \in D /\ tables'[n].ref = NewId(f, f[x].ref)
    BY <1>1, <1>5, InsertedIs
<1> HIDE DEF f, D, o, gone
<1>9. nextId' \in Nat /\ nextId <= nextId' /\ nextId' \in 1..(TrfIds + 1)
    BY <1>0, <1>1, <1>2
<1>10. TrfTyped'
    BY <1>0, <1>1, <1>3, <1>5, <1>9 DEF TrfTyped
<1>11. \A x \in DOMAIN tables' \ DOMAIN tables : x \in NewIds(t) /\ ~(x < nextId)
    BY <1>0, <1>5, <1>6
<1>12. \A x \in DOMAIN tables \cap DOMAIN tables' :
          /\ x \in DOMAIN tables \ gone /\ tables'[x].tab = tables[x].tab
          /\ tables'[x].org = tables[x].org
          /\ tables'[x].ref = tables[x].ref \/ (tables[x].tab = "key" /\ tables'[x].ref = 0)
    BY <1>5
<1>13. TablesGo
    BY <1>0, <1>1, <1>9, <1>11, <1>12 DEF TablesGo
<1>14. 0 \notin DOMAIN tables'
    BY <1>5, TableIs
<1>15. ASSUME NEW x \in DOMAIN tables' PROVE RowInv(x)'
    <2>1. CASE x \in DOMAIN tables
        <3> DEFINE r == tables[x].ref
        <3>1. RowInv(x) /\ x \in DOMAIN tables \ gone /\ tables[x] \in Row
            BY <1>0, <1>12, <2>1, TableIs DEF TrfInv
        <3>2. ASSUME tables'[x].ref # 0, r \in gone
              PROVE  tables[x].tab = "check" /\ tables[x].org \in disturbed
            <4>1. tables'[x].ref = r /\ r # 0 /\ tables[x].tab # "key"
                BY <1>5, <3>1, <3>2
            <4>2. tables[x].tab = "check"
                <5>1. tables[x].tab \notin {"service", "bot"}
                    BY <1>0, <3>1, <3>2 DEF ImportInv, Closed, gone
                <5>2. tables[x].tab # "node" /\ tables[x].tab \in Tabs
                    BY <3>1, <4>1, RowIs DEF RowInv
                <5> QED
                    BY <4>1, <5>1, <5>2 DEF Tabs
            <4>3. r \in DOMAIN tables /\ tables[r].org = o /\ tables[x].org = o /\ ~Stray(x)
                BY <1>0, <3>1, <3>2 DEF ImportInv, RowInv, Stray, gone, o
            <4>4. tables[x].tab \in Before(6)
                BY <3>1, RowIs, BeforeGrows
            <4> QED
                BY <1>0, <1>1, <3>1, <4>2, <4>3, <4>4 DEF ImportInv, gone, o
        <3>3. ASSUME tables'[x].ref # 0
              PROVE  \/ tables'[x].ref \in DOMAIN tables'
                     \/ /\ tables[x].tab = "check"
                        /\ tables[x].org \in disturbed' \/ tables'[x].ref \in dropped'
            <4>1. tables'[x].ref = r /\ r # 0
                BY <1>12, <2>1, <3>3
            <4>2. CASE r \in gone
                BY <1>1, <3>2, <3>3, <4>2
            <4>3. CASE r \notin gone
                BY <1>1, <1>5, <3>1, <4>1, <4>3 DEF RowInv
            <4> QED
                BY <4>2, <4>3
        <3> QED
            BY <1>5, <1>13, <2>1, <3>3, RowStays
    <2>2. CASE x \in NewIds(t)
        <3>1. PICK y \in D : x = NewId(f, y)
            BY <1>7, <2>2
        <3>2. /\ tables'[x].tab = f[y].tab /\ tables'[x].org = o
              /\ IF f[y].tab = "node" \/ f[y].ref = 0 THEN tables'[x].ref = 0
                 ELSE f[y].ref \in D /\ tables'[x].ref = NewId(f, f[y].ref)
            BY <1>8, <3>1
        <3>3. x < nextId' /\ 0 < nextId'
            BY <1>0, <1>1, <1>6, <1>9, <2>2
        <3>4. CASE tables'[x].ref = 0
            <4>1. 0 \notin DOMAIN tables'
                BY <1>14
            <4>2. f[y].tab = "node" \/ f[y].ref = 0
                <5>1. SUFFICES ASSUME f[y].ref \in D, tables'[x].ref = NewId(f, f[y].ref) PROVE FALSE
                    BY <3>2
                <5>2. tables'[x].ref \in NewIds(t)
                    BY <1>8, <5>1
                <5> QED
                    BY <1>0, <1>6, <3>4, <5>2
            <4>3. f[y].tab \notin {"service", "bot", "check"}
                BY <1>0, <4>2 DEF FileOK, D
            <4> QED
                BY <3>2, <3>3, <3>4, <4>1, <4>3 DEF RowInv
        <3>5. CASE tables'[x].ref # 0
            <4> DEFINE r == f[y].ref
                       n == NewId(f, r)
            <4>1. r \in D /\ tables'[x].ref = n /\ f[y].tab # "node" /\ r # 0
                BY <3>2, <3>5
            <4>2. n \in NewIds(t) /\ tables'[n].tab = f[r].tab /\ tables'[n].org = o
                BY <1>8, <4>1
            <4>3. f[r].tab \in RefersTo(f[y].tab)
                BY <1>0, <4>1 DEF FileOK, D
            <4>4. n \in DOMAIN tables' /\ n < nextId' /\ n # update.id
                BY <1>0, <1>1, <1>5, <1>6, <4>2
            <4> QED
                BY <1>1, <3>2, <3>3, <3>5, <4>1, <4>2, <4>3, <4>4 DEF RowInv
        <3> QED
            BY <3>4, <3>5
    <2> QED
        BY <1>5, <2>1, <2>2
<1>16. ASSUME NEW x \in NewIds(t)
       PROVE  tables'[x].org = o /\ (tables'[x].ref # 0 => tables'[x].ref \in NewIds(t))
    <2>1. PICK y \in D : x = NewId(f, y)
        BY <1>7
    <2>2. /\ tables'[x].org = o
          /\ IF f[y].tab = "node" \/ f[y].ref = 0 THEN tables'[x].ref = 0
             ELSE f[y].ref \in D /\ tables'[x].ref = NewId(f, f[y].ref)
        BY <1>8, <2>1
    <2> QED
        BY <1>8, <2>2
<1>17. ASSUME NEW u \in TrfImporters PROVE ImportInv(u)'
    <2>1. CASE u = t
        BY <1>3, <1>4, <2>1 DEF ImportInv, Closed
    <2>2. CASE u # t
        <3>1. imp'[u] = imp[u] /\ imp[u].gone \cap gone = {} /\ imp[u].gone \subseteq DOMAIN tables
            BY <1>0, <1>4, <2>2 DEF ApartInv, TrfInv, ImportInv, gone
        <3>2. imp[u].gone \subseteq DOMAIN tables'
            BY <1>5, <3>1
        <3>3. imp[u].pc = "purge" /\ imp[u].org = o => imp[u].org \in disturbed'
            BY <1>0, <1>1, <2>2 DEF ApartInv, o
        <3>4. ASSUME NEW x \in DOMAIN tables' \ DOMAIN tables, tables'[x].tab \in {"service", "bot"}
              PROVE  tables'[x].ref \notin imp[u].gone
            <4>1. tables'[x].ref \notin DOMAIN tables \/ tables'[x].ref = 0
                BY <1>5, <1>11, <1>16
            <4> QED
                BY <1>0, <3>1, <4>1, TableIs
        <3> QED
            BY <1>11, <1>13, <1>16, <3>1, <3>2, <3>3, <3>4, ImportKept
    <2> QED
        BY <2>1, <2>2
<1>18. ApartInv'
    <2>0. \A u \in TrfImporters : removing'.gone \cap imp'[u].gone = {}
        BY <1>0, <1>1, <1>3, <1>4 DEF ApartInv
    <2> SUFFICES ASSUME NEW a \in TrfImporters, NEW b \in TrfImporters, a # b
                 PROVE  /\ imp'[a].gone \cap imp'[b].gone = {}
                        /\ imp'[a].pc = "purge" /\ imp'[b].pc = "purge" /\ imp'[a].org = imp'[b].org
                           => imp'[a].org \in disturbed'
        BY <2>0 DEF ApartInv
    <2>1. CASE a = t
        BY <1>3, <1>4, <2>1
    <2>2. CASE b = t
        BY <1>3, <1>4, <2>2
    <2>3. CASE a # t /\ b # t
        BY <1>0, <1>1, <1>4, <2>3 DEF ApartInv
    <2> QED
        BY <2>1, <2>2, <2>3
<1>19. RemovingInv'
    <2> DEFINE m == removing.id
    <2>1. removing.gone \subseteq DOMAIN tables' /\ m \in Nat /\ m < nextId
        BY <1>0, <1>5 DEF TrfInv, TrfTyped, RemovingInv, ApartInv, gone
    <2>2. m \notin NewIds(t)
        BY <1>0, <1>6, <2>1
    <2>3. ASSUME NEW x \in DOMAIN tables' \ DOMAIN tables, tables'[x].tab = "check", m # 0
          PROVE  tables'[x].ref \notin WithHanging({m})'
        <3>1. RowInv(x)' /\ x \in NewIds(t)
            BY <1>11, <1>15, <2>3
        <3>2. tables'[x].ref \in NewIds(t)
            BY <1>16, <2>3, <3>1 DEF RowInv
        <3>3. tables'[tables'[x].ref].ref # m
            BY <1>16, <2>2, <2>3, <3>2
        <3> QED
            BY <1>1, <2>2, <3>2, <3>3 DEF WithHanging, Hanging, Of
    <2> QED
        BY <1>1, <1>13, <2>1, <2>3, RemovingKept
<1>20. UpdateInv'
    BY <1>13, UpdateKept
<1> QED
    BY <1>10, <1>15, <1>17, <1>18, <1>19, <1>20 DEF TrfInv

------------------------------------------------------------------------------
LEMMA TrfStarts == TrfInit => TrfInv
<1> SUFFICES ASSUME TrfInit PROVE TrfInv
    OBVIOUS
<1>0. TrfIds \in Nat /\ TrfIds >= 7 /\ TrfExports \in Nat /\ TrfEdits \in Nat /\ Orgs = {1, 2}
    BY TrfAssumption DEF Orgs
<1>1. /\ tables[1] = R("node", 1, 0, 1, FALSE) /\ tables[2] = R("service", 1, 1, 2, FALSE)
      /\ tables[3] = R("bot", 1, 1, 3, FALSE) /\ tables[4] = R("check", 1, 2, 4, TRUE)
      /\ tables[5] = R("key", 1, 1, 5, FALSE) /\ tables[6] = R("node", 2, 0, 6, TRUE)
      /\ tables[7] = R("check", 2, 6, 7, FALSE)
    BY DEF TrfInit
<1>2. DOMAIN tables = 1..7
    BY DEF TrfInit
<1>3. \A n \in 0..7 : n \in 0..TrfIds /\ (n # 0 => n \in 1..TrfIds)
    BY <1>0
<1>4. /\ "node" \in Tabs /\ "service" \in Tabs /\ "bot" \in Tabs /\ "check" \in Tabs
      /\ "key" \in Tabs
    BY DEF Tabs
<1>5. /\ 1..7 = {1, 2, 3, 4, 5, 6, 7} /\ 0..7 = {0, 1, 2, 3, 4, 5, 6, 7}
    OBVIOUS
<1>6. /\ tables[1] \in Row /\ tables[1].tab = "node" /\ tables[1].org = 1 /\ tables[1].ref = 0
      /\ tables[2] \in Row /\ tables[2].tab = "service" /\ tables[2].org = 1 /\ tables[2].ref = 1
      /\ tables[3] \in Row /\ tables[3].tab = "bot" /\ tables[3].org = 1 /\ tables[3].ref = 1
      /\ tables[4] \in Row /\ tables[4].tab = "check" /\ tables[4].org = 1 /\ tables[4].ref = 2
      /\ tables[5] \in Row /\ tables[5].tab = "key" /\ tables[5].org = 1 /\ tables[5].ref = 1
      /\ tables[6] \in Row /\ tables[6].tab = "node" /\ tables[6].org = 2 /\ tables[6].ref = 0
      /\ tables[7] \in Row /\ tables[7].tab = "check" /\ tables[7].org = 2 /\ tables[7].ref = 6
    <2>1. tables[1].tab = "node" /\ tables[1].org = 1 /\ tables[1].ref = 0 /\ tables[1] \in Row
        BY <1>0, <1>1, <1>3, <1>4, <1>5, RowIs DEF R
    <2>2. tables[2].tab = "service" /\ tables[2].org = 1 /\ tables[2].ref = 1 /\ tables[2] \in Row
        BY <1>0, <1>1, <1>3, <1>4, <1>5, RowIs DEF R
    <2>3. tables[3].tab = "bot" /\ tables[3].org = 1 /\ tables[3].ref = 1 /\ tables[3] \in Row
        BY <1>0, <1>1, <1>3, <1>4, <1>5, RowIs DEF R
    <2>4. tables[4].tab = "check" /\ tables[4].org = 1 /\ tables[4].ref = 2 /\ tables[4] \in Row
        BY <1>0, <1>1, <1>3, <1>4, <1>5, RowIs DEF R
    <2>5. tables[5].tab = "key" /\ tables[5].org = 1 /\ tables[5].ref = 1 /\ tables[5] \in Row
        BY <1>0, <1>1, <1>3, <1>4, <1>5, RowIs DEF R
    <2>6. tables[6].tab = "node" /\ tables[6].org = 2 /\ tables[6].ref = 0 /\ tables[6] \in Row
        BY <1>0, <1>1, <1>3, <1>4, <1>5, RowIs DEF R
    <2>7. tables[7].tab = "check" /\ tables[7].org = 2 /\ tables[7].ref = 6 /\ tables[7] \in Row
        BY <1>0, <1>1, <1>3, <1>4, <1>5, RowIs DEF R
    <2> QED
        BY <2>1, <2>2, <2>3, <2>4, <2>5, <2>6, <2>7
<1>7. tables \in Table
    <2> DEFINE s == <<R("node", 1, 0, 1, FALSE), R("service", 1, 1, 2, FALSE),
                      R("bot", 1, 1, 3, FALSE), R("check", 1, 2, 4, TRUE),
                      R("key", 1, 1, 5, FALSE), R("node", 2, 0, 6, TRUE),
                      R("check", 2, 6, 7, FALSE)>>
    <2>1. tables = s
        BY DEF TrfInit
    <2>2. s = [x \in 1..7 |-> s[x]]
        OBVIOUS
    <2> HIDE DEF s
    <2>4. \A x \in 1..7 : s[x] \in Row
        BY <1>5, <1>6, <2>1
    <2>5. tables \in [1..7 -> Row]
        BY <2>1, <2>2, <2>4
    <2>3. 1..7 \in SUBSET (1..TrfIds)
        BY <1>0
    <2> QED
        BY <2>5, <2>3, TableMade
<1>8. /\ nextId = 8 /\ trfEdits = 0 /\ disturbed = {} /\ dropped = {} /\ imp = [t \in TrfImporters |-> Idle]
      /\ file = <<>> /\ exp = [n |-> 0, org |-> 1, k |-> 6, rows |-> <<>>]
      /\ update = [id |-> 0, row |-> R("node", 1, 0, 1, FALSE)]
      /\ removing = [id |-> 0, gone |-> {}]
    BY DEF TrfInit
<1>9. /\ file \in Table /\ exp \in [n : 0..TrfExports, org : Orgs, k : 1..6, rows : Table]
      /\ update \in [id : 0..TrfIds, row : Row] /\ update.id = 0
      /\ removing \in [id : 0..TrfIds, gone : SUBSET (1..TrfIds)]
      /\ removing.id = 0 /\ removing.gone = {}
    <2>1. R("node", 1, 0, 1, FALSE) \in Row
        BY <1>1, <1>6
    <2>2. <<>> \in Table
        BY EmptyTable
    <2>3. file \in Table /\ exp \in [n : 0..TrfExports, org : Orgs, k : 1..6, rows : Table]
        BY <1>0, <1>8, <2>2
    <2>4. update \in [id : 0..TrfIds, row : Row] /\ update.id = 0
        <3> DEFINE first == R("node", 1, 0, 1, FALSE)
        <3>1. update = [id |-> 0, row |-> first]
            BY DEF TrfInit
        <3>2. first \in Row
            BY <2>1
        <3> HIDE DEF first
        <3> QED
            BY <1>0, <3>1, <3>2
    <2>5. /\ removing \in [id : 0..TrfIds, gone : SUBSET (1..TrfIds)]
          /\ removing.id = 0 /\ removing.gone = {}
        <3>1. {} \in SUBSET (1..TrfIds) /\ 0 \in 0..TrfIds
            BY <1>0
        <3> DEFINE none == {}
        <3>2. removing = [id |-> 0, gone |-> none] /\ none \in SUBSET (1..TrfIds) /\ none = {}
            BY <1>8
        <3> HIDE DEF none
        <3> QED
            BY <3>1, <3>2
    <2> QED
        BY <2>3, <2>4, <2>5
<1>10. imp \in [TrfImporters -> TrfImport] /\ \A t \in TrfImporters : imp[t] = Idle
    BY <1>8, IdleIs
<1>11. TrfTyped
    <2>1. nextId \in 1..(TrfIds + 1) /\ trfEdits \in 0..TrfEdits /\ disturbed \subseteq Orgs
          /\ dropped \subseteq 1..TrfIds
        BY <1>0, <1>8
    <2> QED
        BY <1>7, <1>9, <1>10, <2>1 DEF TrfTyped
<1>12. \A x \in DOMAIN tables : RowInv(x)
    <2>1. "node" \in RefersTo("service") /\ "node" \in RefersTo("bot") /\ "node" \in RefersTo("key")
          /\ "service" \in RefersTo("check") /\ "node" \in RefersTo("check")
        BY DEF RefersTo
    <2>2. RowInv(1) /\ RowInv(6)
        BY <1>2, <1>5, <1>6, <1>8, <1>9 DEF RowInv
    <2>3. RowInv(2) /\ RowInv(3) /\ RowInv(5)
        BY <1>2, <1>5, <1>6, <1>8, <1>9, <2>1 DEF RowInv
    <2>4. RowInv(4) /\ RowInv(7)
        BY <1>2, <1>5, <1>6, <1>8, <1>9, <2>1 DEF RowInv
    <2> QED
        BY <1>2, <1>5, <2>2, <2>3, <2>4
<1>13. UpdateInv
    BY <1>8, <1>9 DEF UpdateInv
<1>14. ASSUME NEW t \in TrfImporters PROVE ImportInv(t)
    BY <1>10, IdleIs DEF ImportInv, Closed
<1>15. ApartInv
    BY <1>9, <1>10, IdleIs DEF ApartInv
<1>16. RemovingInv
    BY <1>8, <1>9 DEF RemovingInv
<1> QED
    BY <1>11, <1>12, <1>13, <1>14, <1>15, <1>16 DEF TrfInv

LEMMA TrfStep == TrfInv /\ [TrfNext]_trfVars => TrfInv'
<1> SUFFICES ASSUME TrfInv, [TrfNext]_trfVars PROVE TrfInv'
    OBVIOUS
<1>1. ASSUME NEW o \in Orgs, ExportBegins(o) PROVE TrfInv'
    BY <1>1, ExportSteps
<1>2. ASSUME NEW o \in Orgs, NEW t \in TrfImporters, ImportBegins(t, o) PROVE TrfInv'
    BY <1>2, ImportBeginsStep
<1>3. CASE ExportTable
    BY <1>3, ExportSteps
<1>4. ASSUME NEW t \in TrfImporters, PurgeTable(t) \/ PurgeResumes(t) PROVE TrfInv'
    BY <1>4, PurgeSteps
<1>5. ASSUME NEW t \in TrfImporters, ImportCommits(t) PROVE TrfInv'
    BY <1>5, ImportCommitsStep
<1>6. ASSUME NEW t \in TrfImporters, ImportFails(t) \/ ImportAnswered(t) PROVE TrfInv'
    BY <1>6, ImportGivesUp
<1>7. ASSUME NEW n \in Of(tables, "node"), AddService(n) PROVE TrfInv'
    BY <1>7, AddServiceStep
<1>8. ASSUME NEW n \in Of(tables, "node"), RemoveChecks(n) PROVE TrfInv'
    BY <1>8, RemoveChecksStep
<1>9. ASSUME NEW n \in Of(tables, "node"), EditNodeReads(n) PROVE TrfInv'
    BY <1>9, EditNodeReadsStep
<1>10. CASE EditNodeSaves
    BY <1>10, EditNodeSavesStep
<1>11. CASE UNCHANGED trfVars
    BY <1>11 DEF trfVars, TrfInv, TrfTyped, RowInv, UpdateInv, ImportInv, FileOK, Before, ApartInv,
                 RemovingInv, Closed, Stray, WithHanging, Hanging, Of
<1>12. CASE RemoveNode
    BY <1>12, RemoveNodeStep
<1>13. CASE RemoveFails
    BY <1>13, RemoveFailsStep
<1>14. ASSUME NEW n \in Of(tables, "node"), DropNode(n) PROVE TrfInv'
    BY <1>14, DropNodeStep
<1> QED
    BY <1>1, <1>2, <1>3, <1>4, <1>5, <1>6, <1>7, <1>8, <1>9, <1>10, <1>11, <1>12, <1>13, <1>14
       DEF TrfNext

LEMMA TrfInvHolds == TrfSpec => []TrfInv
BY TrfStarts, TrfStep, PTL DEF TrfSpec

LEMMA TrfEnough == TrfInv => TrfTypeOK /\ TrfNoDangling
<1>1. TrfInv => TrfTypeOK
    BY TrfTypeHolds DEF TrfInv
<1>2. TrfInv => TrfNoDangling
    BY DEF TrfInv, RowInv, TrfNoDangling
<1> QED
    BY <1>1, <1>2

\* Rows, files, transactions and what UpdateNode has read are of their types.
THEOREM TransferTyped == TrfSpec => []TrfTypeOK
BY TrfEnough, TrfInvHolds, PTL

\* Nothing refers to a row that is gone or is another organisation's, except checks where
\* an edit or another import met an import, a service came to a node that was being
\* deleted, or DeleteOrgNode dropped the target.
THEOREM NoDangling == TrfSpec => []TrfNoDangling
BY TrfEnough, TrfInvHolds, PTL

\* Only a commit ends a transaction with success.
LEMMA DoneByCommit ==
    ASSUME TrfInv, [TrfNext]_trfVars, NEW t \in TrfImporters,
           imp[t].pc = "purge", imp'[t].pc = "done"
    PROVE  ImportCommits(t)
<1>0. imp \in [TrfImporters -> TrfImport]
    BY DEF TrfInv, TrfTyped
<1>1. ASSUME NEW o \in Orgs, NEW u \in TrfImporters, ImportBegins(u, o) PROVE FALSE
    <2>1. (imp'[u]).pc = "purge"
        BY <1>0, <1>1, IdleIs DEF ImportBegins, TrfImport
    <2>2. u # t => imp'[t] = imp[t]
        BY <1>0, <1>1 DEF ImportBegins
    <2> QED
        BY <2>1, <2>2
<1>2. ASSUME NEW u \in TrfImporters, PurgeTable(u) \/ PurgeResumes(u) PROVE FALSE
    <2>1. (imp'[t]).pc = imp[t].pc
        <3>1. CASE PurgeTable(u)
            BY <1>0, <3>1 DEF PurgeTable, TrfImport
        <3>2. CASE PurgeResumes(u)
            BY <1>0, <3>2 DEF PurgeResumes, TrfImport
        <3> QED
            BY <1>2, <3>1, <3>2
    <2> QED
        BY <2>1
<1>3. ASSUME NEW u \in TrfImporters, ImportFails(u) \/ ImportAnswered(u) PROVE FALSE
    <2>1. imp' = [imp EXCEPT ![u] = Idle]
        BY <1>3 DEF ImportFails, ImportAnswered
    <2>2. (imp'[t]).pc \in {"idle", imp[t].pc}
        BY <1>0, <2>1, IdleIs
    <2> QED
        BY <2>2
<1>4. ASSUME NEW u \in TrfImporters, u # t, ImportCommits(u) PROVE FALSE
    <2>1. imp'[t] = imp[t]
        BY <1>0, <1>4 DEF ImportCommits
    <2> QED
        BY <2>1
<1>5. ASSUME imp' = imp PROVE FALSE
    BY <1>5
<1> QED
    BY <1>1, <1>2, <1>3, <1>4, <1>5
       DEF TrfNext, trfVars, ExportBegins, ExportTable, AddService, RemoveChecks, RemoveNode,
           RemoveFails, DropNode, EditNodeReads, EditNodeSaves

\* An import that commits and that nothing met leaves of its organisation new rows only,
\* which are those of the file with the defaults for what was zero, and no import changes
\* another organisation's rows.
THEOREM Replaces == TrfSpec => TrfReplaces
<1> DEFINE Replaced(t) ==
        LET o == imp[t].org
            rows == imp[t].rows
        IN  /\ o \notin disturbed =>
                 /\ Belonging(tables', o) \cap DOMAIN tables = {}
                 /\ Contents(tables', Belonging(tables', o))
                    = Contents([x \in DOMAIN rows |-> Created(rows[x])], DOMAIN rows)
            /\ \A x \in DOMAIN tables :
                 tables[x].org # o => x \in DOMAIN tables' /\ tables'[x] = tables[x]
<1>1. ASSUME TrfInv, NEW t \in TrfImporters, ImportCommits(t)
      PROVE  Replaced(t)
    <2> DEFINE f == imp[t].rows
               D == DOMAIN f
               o == imp[t].org
               gone == imp[t].gone
               g == [x \in D |-> Created(f[x])]
               New == Belonging(tables', o)
    <2>0. /\ ImportInv(t) /\ f \in Table /\ tables \in Table /\ imp[t].pc = "purge" /\ imp[t].k = 6
          /\ nextId + Cardinality(D) <= TrfIds + 1 /\ FileOK(f)
        BY <1>1 DEF TrfInv, TrfTyped, TrfImport, ImportCommits, ImportInv
    <2>1. /\ tables' \in Table
          /\ DOMAIN tables' = (DOMAIN tables \ gone) \cup NewIds(t)
          /\ \A x \in DOMAIN tables \ gone :
                /\ tables'[x].tab = tables[x].tab /\ tables'[x].org = tables[x].org
                /\ IF tables[x].tab = "key" /\ tables[x].ref \in gone THEN tables'[x].ref = 0
                   ELSE tables'[x] = tables[x]
          /\ \A x \in DOMAIN tables : x \notin NewIds(t)
          /\ \A n \in NewIds(t) : tables'[n] = Inserted(t)[n]
        BY <1>1, CommittedIs
    <2>2. ASSUME NEW x \in D
          PROVE  LET n == NewId(f, x)
                 IN  /\ n \in NewIds(t) /\ tables'[n].tab = f[x].tab /\ tables'[n].org = o
                     /\ tables'[n].content = f[x].content /\ tables'[n].zero = Created(f[x]).zero
                     /\ IF f[x].tab = "node" \/ f[x].ref = 0 THEN tables'[n].ref = 0
                        ELSE f[x].ref \in D /\ tables'[n].ref = NewId(f, f[x].ref)
        BY <1>1, <2>0, <2>1, InsertedIs
    <2>3. ASSUME NEW n \in NewIds(t) PROVE \E x \in D : n = NewId(f, x)
        BY DEF NewIds
    <2>4. ASSUME NEW x \in D
          PROVE  g[x].tab = f[x].tab /\ g[x].content = f[x].content /\ g[x].zero = Created(f[x]).zero
        <3>1. f[x] \in Row
            BY <2>0, TableIs
        <3> QED
            BY <3>1, CreatedIs
    <2>5. \A x \in gone : tables[x].org = o
        BY <2>0 DEF ImportInv
    <2>6. ASSUME o \notin disturbed, NEW x \in DOMAIN tables \ gone, tables[x].org = o
          PROVE  Stray(x)
        <3>1. tables[x].tab \in Before(6)
            BY <2>0, TableIs, RowIs, BeforeGrows
        <3> QED
            BY <2>0, <2>6, <3>1 DEF ImportInv
    <2> HIDE DEF f, D, o, gone, g, New
    <2>7. ASSUME NEW x \in NewIds(t) PROVE x \in New
        <3>1. PICK y \in D : x = NewId(f, y)
            BY <2>3
        <3>2. tables'[x].tab = f[y].tab /\ tables'[x].org = o /\ x \in DOMAIN tables'
            BY <2>1, <2>2, <3>1
        <3>3. ASSUME f[y].tab \in {"bot", "check"}
              PROVE  tables'[x].ref \in DOMAIN tables' /\ tables'[tables'[x].ref].org = o
            <4>1. f[y].ref # 0 /\ f[y].ref \in D
                BY <2>0, <3>3 DEF FileOK, D
            <4>2. tables'[x].ref = NewId(f, f[y].ref)
                BY <2>2, <3>1, <3>3, <4>1
            <4> QED
                BY <2>1, <2>2, <4>1, <4>2
        <3> QED
            BY <3>2, <3>3 DEF New, Belonging
    <2>8. ASSUME o \notin disturbed, NEW x \in New PROVE x \in NewIds(t)
        <3>1. SUFFICES ASSUME x \in DOMAIN tables \ gone PROVE FALSE
            BY <2>1 DEF New, Belonging
        <3> DEFINE r == tables[x].ref
        <3>2. RowInv(x) /\ tables'[x].tab = tables[x].tab /\ tables'[x].org = tables[x].org
            BY <1>1, <2>1, <3>1 DEF TrfInv
        <3>3. CASE tables[x].tab \notin {"bot", "check"}
            <4>1. tables[x].org = o
                BY <3>2, <3>3 DEF New, Belonging
            <4> QED
                BY <2>6, <2>8, <3>1, <3>3, <4>1 DEF Stray
        <3>4. CASE tables[x].tab \in {"bot", "check"}
            <4>1. tables'[x].ref = r /\ r \in DOMAIN tables' /\ tables'[r].org = o
                BY <2>1, <3>1, <3>2, <3>4 DEF New, Belonging
            <4>2. r \in DOMAIN tables
                <5>1. r < nextId /\ r \in Nat
                    BY <2>0, <3>1, <3>2, TrfAssumption, TableIs, RowIs DEF RowInv
                <5>2. \A n \in NewIds(t) : n \in Nat /\ nextId <= n
                    BY <1>1, <2>0, InsertedIs DEF f, D
                <5>3. nextId \in Nat
                    BY <1>1, TrfAssumption DEF TrfInv, TrfTyped
                <5> QED
                    BY <2>1, <4>1, <5>1, <5>2, <5>3
            <4>3. tables[r].org = o
                BY <2>1, <4>1, <4>2
            <4>4. tables[x].org = o /\ ~Stray(x)
                BY <3>2, <4>2, <4>3 DEF RowInv, Stray
            <4> QED
                BY <2>6, <2>8, <3>1, <4>4
        <3> QED
            BY <3>3, <3>4
    <2>9. ASSUME o \notin disturbed
          PROVE  New \cap DOMAIN tables = {} /\ Contents(tables', New) = Contents(g, D)
        <3>0. New = NewIds(t)
            BY <2>7, <2>8, <2>9
        <3>1. ASSUME NEW e \in Contents(tables', New) PROVE e \in Contents(g, D)
            <4>1. PICK x \in New : e = <<tables'[x].tab, tables'[x].content, tables'[x].zero>>
                BY <3>1 DEF Contents
            <4>2. PICK y \in D : x = NewId(f, y)
                BY <2>3, <3>0
            <4>3. e = <<g[y].tab, g[y].content, g[y].zero>>
                BY <2>2, <2>4, <4>1, <4>2
            <4> QED
                BY <4>3 DEF Contents
        <3>2. ASSUME NEW e \in Contents(g, D) PROVE e \in Contents(tables', New)
            <4>1. PICK y \in D : e = <<g[y].tab, g[y].content, g[y].zero>>
                BY <3>2 DEF Contents
            <4> DEFINE n == NewId(f, y)
            <4>2. n \in New /\ e = <<tables'[n].tab, tables'[n].content, tables'[n].zero>>
                BY <2>2, <2>4, <3>0, <4>1
            <4> HIDE DEF n
            <4> QED
                BY <4>2 DEF Contents
        <3> QED
            BY <2>1, <3>0, <3>1, <3>2
    <2>10. ASSUME NEW x \in DOMAIN tables, tables[x].org # o
           PROVE  x \in DOMAIN tables' /\ tables'[x] = tables[x]
        <3>1. x \notin gone /\ RowInv(x)
            BY <1>1, <2>5, <2>10 DEF TrfInv
        <3>2. tables[x].ref \notin gone
            BY <2>0, <2>5, <2>10, <3>1 DEF RowInv, ImportInv, gone
        <3> QED
            BY <2>1, <3>1, <3>2
    <2> QED
        BY <2>9, <2>10 DEF o, f, D, g, New
<1>2. TrfInv /\ [TrfNext]_trfVars =>
        [\A t \in TrfImporters : Commits(t) => Replaced(t)]_trfVars
    <2> HIDE DEF Replaced
    <2> QED
        BY <1>1, DoneByCommit DEF Commits
<1> QED
    BY <1>2, TrfInvHolds, PTL DEF TrfSpec, TrfReplaces

------------------------------------------------------------------------------
(* Configuration of Backup Center *)

\* Rows that may stand in a table.
GoodTarget == {row \in TargetRow : ValidateStorageConfig(row.type, row.cfg)}
GoodSource ==
    {row \in SourceRow : ~row.retyped => ValidateSourceConfig(row.type, row.cfg)}

\* Requests that are about to write such a row, or none.
GoodBcfRequest ==
    {r \in BcfRequest :
        /\ r.pc = "saveTarget" => r.row \in GoodTarget
        /\ r.pc \in {"insertSource", "saveSource"} => r.row \in GoodSource}

\* A table of BackupConfig: ids to rows.
GoodRows(rows, ids, good) == DOMAIN rows \subseteq ids /\ \A x \in DOMAIN rows : rows[x] \in good

\* What requests hold is checked already, for between check and write nothing looks
\* at it again; and jobs refer to targets that are there.
BcfInv ==
    /\ GoodRows(btarget, BcfTargets, GoodTarget)
    /\ GoodRows(bjob, BcfJobs, JobRow)
    /\ GoodRows(bsrc, BcfSources, GoodSource)
    /\ breq \in [BcfSlots -> GoodBcfRequest]
    /\ \A j \in DOMAIN bjob : bjob[j].target \in DOMAIN btarget

LEMMA GoodRowsWith ==
    ASSUME NEW rows, NEW ids, NEW good, GoodRows(rows, ids, good), NEW id \in ids, NEW row \in good
    PROVE  GoodRows(With(rows, id, row), ids, good)
BY DEF GoodRows, With

LEMMA GoodRowsWithout ==
    ASSUME NEW rows, NEW ids, NEW good, GoodRows(rows, ids, good), NEW gone
    PROVE  GoodRows(Without(rows, gone), ids, good)
BY DEF GoodRows, Without

\* A row is inserted as it was given, or as enabled.
LEMMA SavedRows ==
    /\ \A rows, id, row : \E new \in {row, [row EXCEPT !.enabled = TRUE]} :
          Saved(rows, id, row) = With(rows, id, new)
    /\ \A row \in GoodTarget : [row EXCEPT !.enabled = TRUE] \in GoodTarget
    /\ \A row \in JobRow : /\ [row EXCEPT !.enabled = TRUE] \in JobRow
                           /\ [row EXCEPT !.enabled = TRUE].target = row.target
<1>1. \A rows, id, row : \E new \in {row, [row EXCEPT !.enabled = TRUE]} :
          Saved(rows, id, row) = With(rows, id, new)
    BY DEF Saved
<1>2. \A row \in GoodTarget : [row EXCEPT !.enabled = TRUE] \in GoodTarget
    BY DEF GoodTarget, TargetRow
<1>3. \A row \in JobRow : /\ [row EXCEPT !.enabled = TRUE] \in JobRow
                           /\ [row EXCEPT !.enabled = TRUE].target = row.target
    BY DEF JobRow
<1> QED
    BY <1>1, <1>2, <1>3

\* mergeStorageConfig and ValidateStorageConfig: an edit is good whatever was there.
LEMMA EditedGood ==
    ASSUME NEW old \in TargetRow, NEW type \in StorageTypes, NEW cfg \in BcfInputs,
           NEW on \in BOOLEAN, NEW row \in Edited(old, type, cfg, on)
    PROVE  row \in GoodTarget
<1> DEFINE merged == mergeStorageConfig(old.cfg, cfg)
<1>1. merged \in StorageConfig
    BY BcfAssumption DEF mergeStorageConfig, StorageConfig, TargetRow
<1>2. ValidateStorageConfig(type, merged) /\ row = [type |-> type, cfg |-> merged, enabled |-> on]
    BY DEF Edited
<1>3. row \in TargetRow /\ row.type = type /\ row.cfg = merged
    BY <1>1, <1>2 DEF TargetRow
<1> QED
    BY <1>2, <1>3 DEF GoodTarget

\* ValidateSourceConfig still holds of what is left when foreign fields are dropped.
LEMMA NewSourceGood ==
    ASSUME NEW j \in BcfJobs, NEW type \in SourceTypes, NEW cfg \in SUBSET SourceFields,
           ValidateSourceConfig(type, cfg)
    PROVE  NewSource(j, type, cfg) \in GoodSource
<1>1. Normalized(type, cfg) \in SUBSET SourceFields
    BY DEF Normalized
<1>2. ValidateSourceConfig(type, Normalized(type, cfg))
    BY DEF Normalized, ValidateSourceConfig
<1>3. /\ NewSource(j, type, cfg) \in SourceRow
      /\ NewSource(j, type, cfg).type = type
      /\ NewSource(j, type, cfg).cfg = Normalized(type, cfg)
    BY <1>1 DEF NewSource, SourceRow
<1> QED
    BY <1>2, <1>3 DEF GoodSource

\* What the requests may become.
LEMMA Requests ==
    /\ BcfIdle \in GoodBcfRequest
    /\ \A t \in BcfTargets : \A pc \in {"editTarget", "deleteTarget"} :
          [BcfIdle EXCEPT !.pc = pc, !.id = t, !.row = NoRow] \in GoodBcfRequest
    /\ \A t \in BcfTargets, row \in GoodTarget :
          [BcfIdle EXCEPT !.pc = "saveTarget", !.id = t, !.row = row] \in GoodBcfRequest
    /\ \A j \in BcfJobs, row \in JobRow, k \in {0, 1} :
          [pc |-> "insertJob", id |-> j, k |-> k, row |-> row] \in GoodBcfRequest
    /\ \A j \in BcfJobs, row \in JobRow, pc \in {"findTarget", "saveJob"} :
          [BcfIdle EXCEPT !.pc = pc, !.id = j, !.row = row] \in GoodBcfRequest
    /\ \A s \in BcfSources, row \in GoodSource, pc \in {"insertSource", "saveSource"} :
          [BcfIdle EXCEPT !.pc = pc, !.id = s, !.row = row] \in GoodBcfRequest
<1> USE DEF GoodBcfRequest, BcfRequest, BcfIdle
<1>1. BcfIdle \in GoodBcfRequest
    OBVIOUS
<1>2. \A t \in BcfTargets : \A pc \in {"editTarget", "deleteTarget"} :
          [BcfIdle EXCEPT !.pc = pc, !.id = t, !.row = NoRow] \in GoodBcfRequest
    OBVIOUS
<1>3. \A t \in BcfTargets, row \in GoodTarget :
          [BcfIdle EXCEPT !.pc = "saveTarget", !.id = t, !.row = row] \in GoodBcfRequest
    BY DEF GoodTarget
<1>4. \A j \in BcfJobs, row \in JobRow, k \in {0, 1} :
          [pc |-> "insertJob", id |-> j, k |-> k, row |-> row] \in GoodBcfRequest
    OBVIOUS
<1>5. \A j \in BcfJobs, row \in JobRow, pc \in {"findTarget", "saveJob"} :
          [BcfIdle EXCEPT !.pc = pc, !.id = j, !.row = row] \in GoodBcfRequest
    OBVIOUS
<1>6. \A s \in BcfSources, row \in GoodSource, pc \in {"insertSource", "saveSource"} :
          [BcfIdle EXCEPT !.pc = pc, !.id = s, !.row = row] \in GoodBcfRequest
    BY DEF GoodSource
<1> QED
    BY <1>1, <1>2, <1>3, <1>4, <1>5, <1>6

\* What a request that is somewhere holds.
LEMMA Held ==
    ASSUME NEW r \in GoodBcfRequest
    PROVE  /\ r.pc \in {"editTarget", "deleteTarget"} => r.id \in BcfTargets
           /\ r.pc = "saveTarget" => r.id \in BcfTargets /\ r.row \in GoodTarget /\ r.k = 0
           /\ r.pc = "insertJob" => r.id \in BcfJobs /\ r.row \in JobRow /\ r.k \in {0, 1}
           /\ r.pc \in {"findTarget", "saveJob"} =>
                 r.id \in BcfJobs /\ r.row \in JobRow /\ r.k = 0
           /\ r.pc \in {"insertSource", "saveSource"} =>
                 r.id \in BcfSources /\ r.row \in GoodSource
           /\ r.pc = "template" =>
                 r.id \in BcfJobs /\ r.row = NoRow /\ r.k \in 1..Len(BcfTemplate)
BY DEF GoodBcfRequest, BcfRequest, BcfIdle

\* What a request may go on to with what it holds.
LEMMA Onwards ==
    ASSUME NEW r \in GoodBcfRequest
    PROVE  /\ r.pc = "insertJob" /\ r.k \in 1..Len(BcfTemplate) =>
                 [r EXCEPT !.pc = "template", !.row = NoRow] \in GoodBcfRequest
           /\ r.pc = "findTarget" => \A on \in BOOLEAN :
                 [r EXCEPT !.pc = "saveJob", !.row.enabled = on] \in GoodBcfRequest
           /\ r.pc = "template" /\ r.k + 1 \in 1..Len(BcfTemplate) =>
                 [r EXCEPT !.k = @ + 1] \in GoodBcfRequest
<1>1. ASSUME r.pc = "insertJob", r.k \in 1..Len(BcfTemplate)
      PROVE  [r EXCEPT !.pc = "template", !.row = NoRow] \in GoodBcfRequest
  <2>1. r \in [pc : {"insertJob"}, id : BcfJobs, row : JobRow, k : {0, 1}]
      BY <1>1 DEF GoodBcfRequest, BcfRequest, BcfIdle
  <2>2. [r EXCEPT !.pc = "template", !.row = NoRow]
           \in [pc : {"template"}, id : BcfJobs, row : {NoRow}, k : 1..Len(BcfTemplate)]
      BY <1>1, <2>1
  <2> QED
      BY <2>2 DEF GoodBcfRequest, BcfRequest
<1>2. ASSUME r.pc = "findTarget", NEW on \in BOOLEAN
      PROVE  [r EXCEPT !.pc = "saveJob", !.row.enabled = on] \in GoodBcfRequest
  <2>1. r \in [pc : {"findTarget", "saveJob"}, id : BcfJobs, row : JobRow, k : {0}]
      BY <1>2 DEF GoodBcfRequest, BcfRequest, BcfIdle
  <2>2. [r.row EXCEPT !.enabled = on] \in JobRow
      BY <2>1 DEF JobRow
  <2>3. [r EXCEPT !.pc = "saveJob", !.row.enabled = on]
           \in [pc : {"findTarget", "saveJob"}, id : BcfJobs, row : JobRow, k : {0}]
      BY <2>1, <2>2
  <2> QED
      BY <2>1, <2>3 DEF GoodBcfRequest, BcfRequest
<1>3. ASSUME r.pc = "template", r.k + 1 \in 1..Len(BcfTemplate)
      PROVE  [r EXCEPT !.k = @ + 1] \in GoodBcfRequest
  <2>1. r \in [pc : {"template"}, id : BcfJobs, row : {NoRow}, k : 1..Len(BcfTemplate)]
      BY <1>3 DEF GoodBcfRequest, BcfRequest, BcfIdle
  <2>2. [r EXCEPT !.k = @ + 1]
           \in [pc : {"template"}, id : BcfJobs, row : {NoRow}, k : 1..Len(BcfTemplate)]
      BY <1>3, <2>1
  <2> QED
      BY <2>2 DEF GoodBcfRequest, BcfRequest
<1> QED
    BY <1>1, <1>2, <1>3

\* One request changes, the tables stay.
LEMMA OnlyBcfRequest ==
    ASSUME BcfInv, NEW q \in BcfSlots, NEW r \in GoodBcfRequest,
           breq' = [breq EXCEPT ![q] = r], UNCHANGED <<btarget, bjob, bsrc>>
    PROVE  BcfInv'
BY DEF BcfInv, GoodRows

\* A table gets a row, and the request is answered or goes on.
LEMMA TargetWritten ==
    ASSUME BcfInv, NEW id \in BcfTargets, NEW row \in GoodTarget,
           btarget' = With(btarget, id, row), UNCHANGED <<bjob, bsrc>>,
           breq' \in [BcfSlots -> GoodBcfRequest]
    PROVE  BcfInv'
<1>1. GoodRows(btarget', BcfTargets, GoodTarget)
    BY GoodRowsWith DEF BcfInv
<1>2. DOMAIN btarget \subseteq DOMAIN btarget'
    BY DEF With
<1> QED
    BY <1>1, <1>2 DEF BcfInv, GoodRows

LEMMA JobWritten ==
    ASSUME BcfInv, NEW id \in BcfJobs, NEW row \in JobRow, row.target \in DOMAIN btarget,
           bjob' = With(bjob, id, row), UNCHANGED <<btarget, bsrc>>,
           breq' \in [BcfSlots -> GoodBcfRequest]
    PROVE  BcfInv'
<1>1. GoodRows(bjob', BcfJobs, JobRow)
    BY GoodRowsWith DEF BcfInv
<1>2. \A j \in DOMAIN bjob' : bjob'[j].target \in DOMAIN btarget
    BY DEF With, BcfInv
<1> QED
    BY <1>1, <1>2 DEF BcfInv, GoodRows

LEMMA SourceWritten ==
    ASSUME BcfInv, NEW id \in BcfSources, NEW row \in GoodSource,
           bsrc' = With(bsrc, id, row), UNCHANGED <<btarget, bjob>>,
           breq' \in [BcfSlots -> GoodBcfRequest]
    PROVE  BcfInv'
<1>1. GoodRows(bsrc', BcfSources, GoodSource)
    BY GoodRowsWith DEF BcfInv
<1> QED
    BY <1>1 DEF BcfInv, GoodRows

LEMMA AnswersGood ==
    ASSUME BcfInv, NEW q \in BcfSlots, Answers(q)
    PROVE  breq' \in [BcfSlots -> GoodBcfRequest]
BY Requests DEF Answers, BcfInv

LEMMA TargetSteps ==
    ASSUME BcfInv
    PROVE  /\ \A t \in BcfTargets, type \in StorageTypes, cfg \in BcfInputs :
                 CreateStorageTarget(t, type, cfg) => BcfInv'
           /\ \A q \in BcfSlots, t \in BcfTargets :
                 UpdateBackupStorageTarget(q, t) \/ TestStorageTarget(q, t) \/ CountJobs(q, t)
                    => BcfInv'
           /\ \A q \in BcfSlots :
                 UpdateStorageTarget(q) \/ SaveTarget(q) \/ DeleteStorageTarget(q) => BcfInv'
<1>1. ASSUME NEW t \in BcfTargets, NEW type \in StorageTypes, NEW cfg \in BcfInputs,
             CreateStorageTarget(t, type, cfg)
      PROVE  BcfInv'
  <2> DEFINE row == [type |-> type, cfg |-> cfg, enabled |-> TRUE]
  <2>1. row \in TargetRow /\ row.type = type /\ row.cfg = cfg
      BY BcfAssumption DEF TargetRow
  <2>2. row \in GoodTarget
      BY <1>1, <2>1 DEF GoodTarget, CreateStorageTarget
  <2>3. /\ btarget' = With(btarget, t, row) /\ UNCHANGED <<bjob, bsrc>>
        /\ breq' \in [BcfSlots -> GoodBcfRequest]
      BY <1>1 DEF CreateStorageTarget, BcfInv
  <2> QED
      BY <2>2, <2>3, TargetWritten
<1>2. ASSUME NEW q \in BcfSlots, NEW t \in BcfTargets,
             UpdateBackupStorageTarget(q, t) \/ CountJobs(q, t)
      PROVE  BcfInv'
  <2>1. /\ UNCHANGED <<btarget, bjob, bsrc>>
        /\ \E pc \in {"editTarget", "deleteTarget"} : Holds(q, pc, t, NoRow)
      BY <1>2 DEF UpdateBackupStorageTarget, CountJobs
  <2> QED
      BY <2>1, OnlyBcfRequest, Requests DEF Holds
<1>3. ASSUME NEW q \in BcfSlots, NEW t \in BcfTargets, TestStorageTarget(q, t)
      PROVE  BcfInv'
  <2>1. /\ UNCHANGED <<btarget, bjob, bsrc>> /\ Holds(q, "saveTarget", t, btarget[t])
        /\ btarget[t] \in GoodTarget
      BY <1>3 DEF TestStorageTarget, BcfInv, GoodRows
  <2> QED
      BY <2>1, OnlyBcfRequest, Requests DEF Holds
<1>4. ASSUME NEW q \in BcfSlots, UpdateStorageTarget(q) PROVE BcfInv'
  <2> DEFINE t == breq[q].id
  <2>1. t \in BcfTargets /\ UNCHANGED <<btarget, bjob, bsrc>>
      BY <1>4, Held DEF UpdateStorageTarget, BcfInv
  <2>2. CASE Answers(q)
      BY <2>1, <2>2, OnlyBcfRequest, Requests DEF Answers
  <2>3. ASSUME NEW type \in StorageTypes, NEW cfg \in BcfInputs, NEW on \in BOOLEAN,
               t \in DOMAIN btarget, NEW row \in Edited(btarget[t], type, cfg, on),
               Holds(q, "saveTarget", t, row)
        PROVE  BcfInv'
    <3>1. btarget[t] \in TargetRow
        BY <2>3 DEF BcfInv, GoodRows, GoodTarget
    <3>2. row \in GoodTarget
        BY <2>3, <3>1, EditedGood
    <3> QED
        BY <2>1, <2>3, <3>2, OnlyBcfRequest, Requests DEF Holds
  <2> QED
      BY <1>4, <2>2, <2>3 DEF UpdateStorageTarget
<1>5. ASSUME NEW q \in BcfSlots, SaveTarget(q) PROVE BcfInv'
  <2>1. breq[q].id \in BcfTargets /\ breq[q].row \in GoodTarget
      BY <1>5, Held DEF SaveTarget, BcfInv
  <2>2. CASE Rejected(q)
      BY <2>2, OnlyBcfRequest, Requests DEF Rejected, Answers
  <2>3. CASE ~Rejected(q)
    <3>1. PICK row \in {breq[q].row, [breq[q].row EXCEPT !.enabled = TRUE]} :
             Saved(btarget, breq[q].id, breq[q].row) = With(btarget, breq[q].id, row)
        BY SavedRows
    <3>2. row \in GoodTarget
        BY <2>1, <3>1, SavedRows
    <3>3. /\ btarget' = With(btarget, breq[q].id, row) /\ UNCHANGED <<bjob, bsrc>>
          /\ Answers(q)
        BY <1>5, <2>3, <3>1 DEF SaveTarget
    <3> QED
        BY <2>1, <3>2, <3>3, TargetWritten, AnswersGood
  <2> QED
      BY <2>2, <2>3
<1>6. ASSUME NEW q \in BcfSlots, DeleteStorageTarget(q) PROVE BcfInv'
  <2>1. CASE Rejected(q)
      BY <2>1, OnlyBcfRequest, Requests DEF Rejected, Answers
  <2>2. CASE ~Rejected(q)
    <3> DEFINE t == breq[q].id
    <3>1. /\ \A j \in DOMAIN bjob : bjob[j].target # t
          /\ btarget' = Without(btarget, {t}) /\ Answers(q) /\ UNCHANGED <<bjob, bsrc>>
        BY <1>6, <2>2 DEF DeleteStorageTarget, InUse
    <3>2. GoodRows(btarget', BcfTargets, GoodTarget)
        BY <3>1, GoodRowsWithout DEF BcfInv
    <3>3. \A j \in DOMAIN bjob : bjob[j].target \in DOMAIN btarget'
        BY <3>1 DEF Without, BcfInv
    <3>4. breq' \in [BcfSlots -> GoodBcfRequest]
        BY <3>1, AnswersGood
    <3> QED
        BY <3>1, <3>2, <3>3, <3>4 DEF BcfInv, GoodRows
  <2> QED
      BY <2>1, <2>2
<1> QED
    BY <1>1, <1>2, <1>3, <1>4, <1>5, <1>6

LEMMA JobSteps ==
    ASSUME BcfInv
    PROVE  /\ \A q \in BcfSlots, j \in BcfJobs, t \in BcfTargets :
                 (\E k \in {0, 1} : CreateJob(q, j, t, k)) \/ UpdateJob(q, j, t) => BcfInv'
           /\ \A q \in BcfSlots, j \in BcfJobs, on \in BOOLEAN : SetJobEnabled(q, j, on) => BcfInv'
           /\ \A q \in BcfSlots : InsertJob(q) \/ FindTarget(q) \/ SaveJob(q) => BcfInv'
           /\ \A j \in BcfJobs : DeleteBackupJob(j) => BcfInv'
<1>1. ASSUME NEW q \in BcfSlots, NEW j \in BcfJobs, NEW t \in BcfTargets, NEW k \in {0, 1},
             CreateJob(q, j, t, k)
      PROVE  BcfInv'
  <2>1. [target |-> t, enabled |-> TRUE] \in JobRow
      BY DEF JobRow
  <2> QED
      BY <1>1, <2>1, OnlyBcfRequest, Requests DEF CreateJob
<1>2. ASSUME NEW q \in BcfSlots, NEW j \in BcfJobs, NEW t \in BcfTargets, UpdateJob(q, j, t)
      PROVE  BcfInv'
  <2>1. bjob[j] \in JobRow
      BY <1>2 DEF UpdateJob, BcfInv, GoodRows
  <2>2. [bjob[j] EXCEPT !.target = t] \in JobRow
      BY <2>1 DEF JobRow
  <2> QED
      BY <1>2, <2>2, OnlyBcfRequest, Requests DEF UpdateJob, Holds
<1>3. ASSUME NEW q \in BcfSlots, NEW j \in BcfJobs, NEW on \in BOOLEAN, SetJobEnabled(q, j, on)
      PROVE  BcfInv'
  <2>1. bjob[j] \in JobRow
      BY <1>3 DEF SetJobEnabled, BcfInv, GoodRows
  <2>2. [bjob[j] EXCEPT !.enabled = on] \in JobRow
      BY <2>1 DEF JobRow
  <2> QED
      BY <1>3, <2>2, OnlyBcfRequest, Requests DEF SetJobEnabled, Holds
<1>4. ASSUME NEW q \in BcfSlots, InsertJob(q) PROVE BcfInv'
  <2> DEFINE r == breq[q]
  <2>1. r.id \in BcfJobs /\ r.row \in JobRow /\ r.k \in {0, 1}
      BY <1>4, Held DEF InsertJob, BcfInv
  <2>2. CASE Rejected(q)
      BY <2>2, OnlyBcfRequest, Requests DEF Rejected, Answers
  <2>3. CASE ~Rejected(q)
    <3>1. /\ r.row.target \in DOMAIN btarget /\ bjob' = With(bjob, r.id, r.row)
          /\ UNCHANGED <<btarget, bsrc>>
        BY <1>4, <2>3 DEF InsertJob, TargetKey
    <3>2. breq' \in [BcfSlots -> GoodBcfRequest]
      <4>1. CASE r.k = 0
          BY <1>4, <2>3, <4>1, AnswersGood DEF InsertJob
      <4>2. CASE r.k # 0
        <5>1. Len(BcfTemplate) \in Nat /\ Len(BcfTemplate) # 0
            BY BcfAssumption
        <5>2. r.k = 1 /\ 1 \in 1..Len(BcfTemplate)
            BY <2>1, <4>2, <5>1
        <5>3. breq' = [breq EXCEPT ![q].pc = "template", ![q].row = NoRow]
            BY <1>4, <2>3, <4>2 DEF InsertJob
        <5>4. breq' = [breq EXCEPT ![q] = [r EXCEPT !.pc = "template", !.row = NoRow]]
            BY <5>3
        <5>5. r \in GoodBcfRequest /\ r.pc = "insertJob"
            BY <1>4 DEF InsertJob, BcfInv
        <5>6. [r EXCEPT !.pc = "template", !.row = NoRow] \in GoodBcfRequest
            BY <5>2, <5>5, Onwards
        <5> QED
            BY <5>4, <5>6 DEF BcfInv
      <4> QED
          BY <4>1, <4>2
    <3> QED
        BY <2>1, <3>1, <3>2, JobWritten
  <2> QED
      BY <2>2, <2>3
<1>5. ASSUME NEW q \in BcfSlots, FindTarget(q) PROVE BcfInv'
  <2> DEFINE r == breq[q]
  <2>1. r \in GoodBcfRequest /\ r.pc = "findTarget"
      BY <1>5 DEF FindTarget, BcfInv
  <2>2. UNCHANGED <<btarget, bjob, bsrc>>
      BY <1>5 DEF FindTarget
  <2>3. CASE Answers(q)
      BY <2>2, <2>3, OnlyBcfRequest, Requests DEF Answers
  <2>4. ASSUME NEW on \in BOOLEAN,
               breq' = [breq EXCEPT ![q].pc = "saveJob", ![q].row.enabled = on]
        PROVE  BcfInv'
    <3>1. breq' = [breq EXCEPT ![q] = [r EXCEPT !.pc = "saveJob", !.row.enabled = on]]
        BY <2>4
    <3>2. [r EXCEPT !.pc = "saveJob", !.row.enabled = on] \in GoodBcfRequest
        BY <2>1, Onwards
    <3> QED
        BY <2>2, <3>1, <3>2, OnlyBcfRequest
  <2> QED
      BY <1>5, <2>3, <2>4 DEF FindTarget
<1>6. ASSUME NEW q \in BcfSlots, SaveJob(q) PROVE BcfInv'
  <2>1. breq[q].id \in BcfJobs /\ breq[q].row \in JobRow
      BY <1>6, Held DEF SaveJob, BcfInv
  <2>2. CASE Rejected(q)
      BY <2>2, OnlyBcfRequest, Requests DEF Rejected, Answers
  <2>3. CASE ~Rejected(q)
    <3>1. PICK row \in {breq[q].row, [breq[q].row EXCEPT !.enabled = TRUE]} :
             Saved(bjob, breq[q].id, breq[q].row) = With(bjob, breq[q].id, row)
        BY SavedRows
    <3>2. row \in JobRow /\ row.target = breq[q].row.target
        BY <2>1, <3>1, SavedRows
    <3>3. /\ bjob' = With(bjob, breq[q].id, row) /\ UNCHANGED <<btarget, bsrc>>
          /\ breq[q].row.target \in DOMAIN btarget /\ Answers(q)
        BY <1>6, <2>3, <3>1 DEF SaveJob, TargetKey
    <3> QED
        BY <2>1, <3>2, <3>3, JobWritten, AnswersGood
  <2> QED
      BY <2>2, <2>3
<1>7. ASSUME NEW j \in BcfJobs, DeleteBackupJob(j) PROVE BcfInv'
  <2>1. GoodRows(bjob', BcfJobs, JobRow) /\ GoodRows(bsrc', BcfSources, GoodSource)
      BY <1>7, GoodRowsWithout DEF DeleteBackupJob, BcfInv
  <2>2. \A i \in DOMAIN bjob' : bjob'[i].target \in DOMAIN btarget
      BY <1>7 DEF DeleteBackupJob, Without, BcfInv
  <2> QED
      BY <1>7, <2>1, <2>2 DEF DeleteBackupJob, BcfInv, GoodRows
<1> QED
    BY <1>1, <1>2, <1>3, <1>4, <1>5, <1>6, <1>7

LEMMA SourceSteps ==
    ASSUME BcfInv
    PROVE  /\ \A q \in BcfSlots, j \in BcfJobs, s \in BcfSources, type \in SourceTypes,
                 cfg \in SUBSET SourceFields : AddSource(q, j, s, type, cfg) => BcfInv'
           /\ \A q \in BcfSlots, s \in BcfSources, type \in SourceTypes,
                 cfg \in SUBSET SourceFields, given \in BOOLEAN :
                    UpdateSource(q, s, type, cfg, given) => BcfInv'
           /\ \A q \in BcfSlots : WriteSource(q) => BcfInv'
           /\ \A q \in BcfSlots, s \in BcfSources : TemplateSource(q, s) => BcfInv'
           /\ \A s \in BcfSources : DeleteSource(s) => BcfInv'
<1>1. ASSUME NEW q \in BcfSlots, NEW j \in BcfJobs, NEW s \in BcfSources, NEW type \in SourceTypes,
             NEW cfg \in SUBSET SourceFields, AddSource(q, j, s, type, cfg)
      PROVE  BcfInv'
  <2>1. NewSource(j, type, cfg) \in GoodSource
      BY <1>1, NewSourceGood DEF AddSource
  <2> QED
      BY <1>1, <2>1, OnlyBcfRequest, Requests DEF AddSource, Holds
<1>2. ASSUME NEW q \in BcfSlots, NEW s \in BcfSources, NEW type \in SourceTypes,
             NEW cfg \in SUBSET SourceFields, NEW given \in BOOLEAN,
             UpdateSource(q, s, type, cfg, given)
      PROVE  BcfInv'
  <2> DEFINE old == bsrc[s]
  <2>1. old \in GoodSource /\ old.job \in BcfJobs
      BY <1>2 DEF UpdateSource, BcfInv, GoodRows, GoodSource, SourceRow
  <2>2. given => NewSource(old.job, type, cfg) \in GoodSource
      BY <1>2, <2>1, NewSourceGood DEF UpdateSource
  <2>3. [old EXCEPT !.type = type, !.retyped = @ \/ type # old.type] \in GoodSource
      BY <2>1 DEF GoodSource, SourceRow
  <2>4. \E row \in GoodSource : Holds(q, "saveSource", s, row)
      BY <1>2, <2>2, <2>3 DEF UpdateSource
  <2>5. UNCHANGED <<btarget, bjob, bsrc>>
      BY <1>2 DEF UpdateSource
  <2> QED
      BY <2>4, <2>5, OnlyBcfRequest, Requests DEF Holds
<1>3. ASSUME NEW q \in BcfSlots, WriteSource(q) PROVE BcfInv'
  <2>1. breq[q].id \in BcfSources /\ breq[q].row \in GoodSource
      BY <1>3, Held DEF WriteSource, BcfInv
  <2>2. CASE Rejected(q)
      BY <2>2, OnlyBcfRequest, Requests DEF Rejected, Answers
  <2>3. CASE ~Rejected(q)
    <3>1. /\ bsrc' = With(bsrc, breq[q].id, breq[q].row) /\ Answers(q)
          /\ UNCHANGED <<btarget, bjob>>
        BY <1>3, <2>3 DEF WriteSource
    <3> QED
        BY <2>1, <3>1, SourceWritten, AnswersGood
  <2> QED
      BY <2>2, <2>3
<1>4. ASSUME NEW q \in BcfSlots, NEW s \in BcfSources, TemplateSource(q, s) PROVE BcfInv'
  <2> DEFINE r == breq[q]
             src == BcfTemplate[r.k]
  <2>1. /\ r.pc = "template"
        /\ r.id \in BcfJobs /\ r.row = NoRow /\ r.k \in 1..Len(BcfTemplate)
      BY <1>4, Held DEF TemplateSource, BcfInv
  <2>2. src.type \in SourceTypes /\ src.cfg \in SUBSET SourceFields
    <3>1. src \in SourceInput
        BY <2>1, BcfAssumption
    <3> QED
        BY <3>1 DEF SourceInput
  <2>3. CASE Rejected(q)
      BY <2>3, OnlyBcfRequest, Requests DEF Rejected, Answers
  <2>4. CASE ~Rejected(q)
    <3>1. /\ ValidateSourceConfig(src.type, src.cfg)
          /\ bsrc' = With(bsrc, s, NewSource(r.id, src.type, src.cfg))
          /\ UNCHANGED <<btarget, bjob>>
        BY <1>4, <2>4 DEF TemplateSource
    <3>2. NewSource(r.id, src.type, src.cfg) \in GoodSource
        BY <2>1, <2>2, <3>1, NewSourceGood
    <3>3. breq' \in [BcfSlots -> GoodBcfRequest]
      <4>1. CASE r.k = Len(BcfTemplate)
          BY <1>4, <2>4, <4>1, AnswersGood DEF TemplateSource
      <4>2. CASE r.k # Len(BcfTemplate)
        <5>1. r.k + 1 \in 1..Len(BcfTemplate)
            BY <2>1, <4>2, BcfAssumption
        <5>2. breq' = [breq EXCEPT ![q].k = @ + 1]
            BY <1>4, <2>4, <4>2 DEF TemplateSource
        <5>3. breq' = [breq EXCEPT ![q] = [r EXCEPT !.k = @ + 1]]
            BY <5>2
        <5>4. r \in GoodBcfRequest
            BY DEF BcfInv
        <5>5. [r EXCEPT !.k = @ + 1] \in GoodBcfRequest
            BY <2>1, <5>1, <5>4, Onwards
        <5> QED
            BY <5>3, <5>5 DEF BcfInv
      <4> QED
          BY <4>1, <4>2
    <3> QED
        BY <3>1, <3>2, <3>3, SourceWritten
  <2> QED
      BY <2>3, <2>4
<1>5. ASSUME NEW s \in BcfSources, DeleteSource(s) PROVE BcfInv'
  <2>1. GoodRows(bsrc', BcfSources, GoodSource)
      BY <1>5, GoodRowsWithout DEF DeleteSource, BcfInv
  <2> QED
      BY <1>5, <2>1 DEF DeleteSource, BcfInv, GoodRows
<1> QED
    BY <1>1, <1>2, <1>3, <1>4, <1>5

LEMMA BcfStep == BcfInv /\ [BcfNext]_bcfVars => BcfInv'
<1> SUFFICES ASSUME BcfInv, [BcfNext]_bcfVars PROVE BcfInv'
    OBVIOUS
<1>1. CASE UNCHANGED bcfVars
    BY <1>1 DEF bcfVars, BcfInv, GoodRows
<1>2. CASE BcfNext
    BY <1>2, TargetSteps, JobSteps, SourceSteps
    DEF BcfNext, CreateBackupStorageTarget, TestBackupStorageTarget, DeleteBackupStorageTarget,
        CreateBackupJob, CreateBackupJobFromTemplate, UpdateBackupJob, setBackupJobEnabled,
        CreateBackupSource, UpdateBackupSource, DeleteBackupSource
<1> QED
    BY <1>1, <1>2

LEMMA BcfInitHolds == BcfInit => BcfInv
<1> SUFFICES ASSUME BcfInit PROVE BcfInv
    OBVIOUS
<1>1. DOMAIN btarget = {} /\ DOMAIN bjob = {} /\ DOMAIN bsrc = {}
    BY DEF BcfInit
<1>2. breq \in [BcfSlots -> GoodBcfRequest]
    BY Requests DEF BcfInit
<1> QED
    BY <1>1, <1>2 DEF BcfInv, GoodRows

\* Ids that were given out, the template and the count of requests.
BcfCounts ==
    /\ btpl \in BOOLEAN
    /\ bused \subseteq ({"target"} \X BcfTargets) \cup ({"job"} \X BcfJobs)
                       \cup ({"source"} \X BcfSources)
    /\ bcount \in 0..BcfRequests

LEMMA BcfCountsStep == BcfCounts /\ [BcfNext]_bcfVars => BcfCounts'
<1> SUFFICES ASSUME BcfCounts, [BcfNext]_bcfVars PROVE BcfCounts'
    OBVIOUS
<1>0. BcfRequests \in Nat
    BY BcfAssumption
<1>1. ASSUME bcount < BcfRequests, bcount' = bcount + 1 PROVE bcount' \in 0..BcfRequests
    BY <1>0, <1>1 DEF BcfCounts
<1>2. ASSUME UNCHANGED btpl,
             \/ UNCHANGED bcount
             \/ bcount < BcfRequests /\ bcount' = bcount + 1,
             \/ UNCHANGED bused
             \/ \E t \in BcfTargets : Fresh("target", t)
             \/ \E j \in BcfJobs : Fresh("job", j)
             \/ \E s \in BcfSources : Fresh("source", s)
      PROVE  BcfCounts'
    <2> DEFINE ids == ({"target"} \X BcfTargets) \cup ({"job"} \X BcfJobs)
                      \cup ({"source"} \X BcfSources)
    <2>1. ASSUME NEW table, NEW id, Fresh(table, id), <<table, id>> \in ids
          PROVE  bused' \subseteq ids
        BY <2>1 DEF BcfCounts, Fresh
    <2>2. /\ \A t \in BcfTargets : <<"target", t>> \in ids
          /\ \A j \in BcfJobs : <<"job", j>> \in ids
          /\ \A s \in BcfSources : <<"source", s>> \in ids
        OBVIOUS
    <2>3. bused' \subseteq ids
        <3>1. CASE UNCHANGED bused
            BY <3>1 DEF BcfCounts
        <3> HIDE DEF ids
        <3> QED
            BY <1>2, <2>1, <2>2, <3>1
    <2>4. bcount' \in 0..BcfRequests /\ btpl' \in BOOLEAN
        BY <1>1, <1>2 DEF BcfCounts
    <2> QED
        BY <2>3, <2>4 DEF BcfCounts
<1>3. ASSUME NEW t \in BcfTargets, NEW type \in StorageTypes, NEW cfg \in BcfInputs,
             CreateBackupStorageTarget(t, type, cfg)
      PROVE  BcfCounts'
    BY <1>2, <1>3 DEF CreateBackupStorageTarget, CreateStorageTarget
<1>4. ASSUME NEW j \in BcfJobs, DeleteBackupJob(j) PROVE BcfCounts'
    BY <1>2, <1>4 DEF DeleteBackupJob
<1>5. ASSUME NEW s \in BcfSources, DeleteBackupSource(s) PROVE BcfCounts'
    BY <1>2, <1>5 DEF DeleteBackupSource, DeleteSource
<1>6. ASSUME NEW q \in BcfSlots, NEW t \in BcfTargets,
             \/ UpdateBackupStorageTarget(q, t) \/ TestBackupStorageTarget(q, t)
             \/ DeleteBackupStorageTarget(q, t)
      PROVE  BcfCounts'
    BY <1>2, <1>6 DEF UpdateBackupStorageTarget, TestBackupStorageTarget, TestStorageTarget,
                      DeleteBackupStorageTarget, CountJobs, Arrives
<1>7. ASSUME NEW q \in BcfSlots,
             \/ UpdateStorageTarget(q) \/ SaveTarget(q) \/ DeleteStorageTarget(q)
             \/ InsertJob(q) \/ FindTarget(q) \/ SaveJob(q) \/ WriteSource(q)
      PROVE  BcfCounts'
    BY <1>2, <1>7 DEF UpdateStorageTarget, SaveTarget, DeleteStorageTarget, InsertJob, FindTarget,
                      SaveJob, WriteSource
<1>8. ASSUME NEW q \in BcfSlots, NEW j \in BcfJobs, NEW t \in BcfTargets,
             \/ CreateBackupJob(q, j, t) \/ CreateBackupJobFromTemplate(q, j, t)
             \/ UpdateBackupJob(q, j, t)
      PROVE  BcfCounts'
    BY <1>2, <1>8 DEF CreateBackupJob, CreateBackupJobFromTemplate, CreateJob, UpdateBackupJob,
                      UpdateJob, Arrives
<1>9. ASSUME NEW q \in BcfSlots, NEW j \in BcfJobs, NEW on \in BOOLEAN,
             setBackupJobEnabled(q, j, on)
      PROVE  BcfCounts'
    BY <1>2, <1>9 DEF setBackupJobEnabled, SetJobEnabled, Arrives
<1>10. ASSUME NEW q \in BcfSlots, NEW s \in BcfSources, NEW type \in SourceTypes,
              NEW cfg \in SUBSET SourceFields,
              \/ \E j \in BcfJobs : CreateBackupSource(q, j, s, type, cfg)
              \/ \E given \in BOOLEAN : UpdateBackupSource(q, s, type, cfg, given)
       PROVE  BcfCounts'
    BY <1>2, <1>10 DEF CreateBackupSource, AddSource, UpdateBackupSource, UpdateSource, Arrives
<1>11. ASSUME NEW q \in BcfSlots, NEW s \in BcfSources, TemplateSource(q, s) PROVE BcfCounts'
    BY <1>2, <1>11 DEF TemplateSource
<1>12. CASE UNCHANGED bcfVars
    BY <1>2, <1>12 DEF bcfVars
<1> QED
    BY <1>3, <1>4, <1>5, <1>6, <1>7, <1>8, <1>9, <1>10, <1>11, <1>12 DEF BcfNext

LEMMA BcfCountsStart == BcfInit => BcfCounts
BY BcfAssumption DEF BcfInit, BcfCounts

LEMMA BcfEnough == BcfInv /\ BcfCounts => BcfTypeOK /\ BcfUsable
<1> SUFFICES ASSUME BcfInv, BcfCounts PROVE BcfTypeOK /\ BcfUsable
    OBVIOUS
<1>1. BcfUsable
    BY DEF BcfInv, BcfUsable, GoodRows, GoodTarget, GoodSource
<1>2. breq \in [BcfSlots -> BcfRequest]
    BY DEF BcfInv, GoodBcfRequest
<1>3. BcfTypeOK
    BY <1>2 DEF BcfInv, BcfCounts, BcfTypeOK, GoodRows, GoodTarget, GoodSource
<1> QED
    BY <1>1, <1>3

\* Rows, requests and ids of Backup Center's configuration keep their types.
THEOREM ConfigurationTyped == BcfSpec => []BcfTypeOK
BY BcfInitHolds, BcfCountsStart, BcfStep, BcfCountsStep, BcfEnough, PTL DEF BcfSpec

\* Targets, jobs and sources of Backup Center: however requests overlap, the
\* target of a job exists and what is stored was checked for its type, for every
\* number of requests, every template and every configuration that is sent.
THEOREM UsableHolds == BcfSpec => []BcfUsable
BY BcfInitHolds, BcfCountsStart, BcfStep, BcfCountsStep, BcfEnough, PTL DEF BcfSpec

------------------------------------------------------------------------------
(* MCPeople: one of the four moves, the others rest. *)

PeopleInv == AccInv /\ EnrInv /\ TrfInv /\ BcfInv /\ BcfCounts

\* What the run checks, for any values of the constants: types, and what is said of
\* accounts, invites, agents, rows and configuration, in the product of the four.
THEOREM PeopleHolds ==
    MCSpec => [](/\ PeopleTypeOK
                 /\ AccEnabledSecretProven /\ AccLogoutFinal /\ AccAnsweredChallengeGone
                 /\ EnrInviteAccounting /\ EnrRevokedAgentOut
                 /\ TrfNoDangling /\ BcfUsable)
<1>1. MCInit => PeopleInv
    BY AccStart, InitHolds, TrfStarts, BcfInitHolds, BcfCountsStart DEF MCInit, PeopleInv
<1>2. PeopleInv /\ [MCNext]_<<AccVars, EnrVars, trfVars, bcfVars, focus>> => PeopleInv'
    <2> SUFFICES ASSUME PeopleInv, [MCNext]_<<AccVars, EnrVars, trfVars, bcfVars, focus>>
                 PROVE  PeopleInv'
        OBVIOUS
    <2>1. [AccNext]_AccVars /\ [EnrNext]_EnrVars /\ [TrfNext]_trfVars /\ [BcfNext]_bcfVars
        BY DEF MCNext, Account, Enrol, Transfer, Backups
    <2> QED
        BY <2>1, AccStep, EnrStep, TrfStep, BcfStep, BcfCountsStep DEF PeopleInv
<1>3. PeopleInv => /\ PeopleTypeOK
                   /\ AccEnabledSecretProven /\ AccLogoutFinal /\ AccAnsweredChallengeGone
                   /\ EnrInviteAccounting /\ EnrRevokedAgentOut
                   /\ TrfNoDangling /\ BcfUsable
    BY AccEnough, TrfEnough, BcfEnough DEF PeopleInv, EnrInv, PeopleTypeOK
<1> QED
    BY <1>1, <1>2, <1>3, PTL DEF MCSpec
==============================================================================
