------------------------------ MODULE Enrolment ------------------------------
(***************************************************************************)
(* Codes that let somebody in: invites and the accounts made from them     *)
(* (backend/internal/http/invites.go), registration tokens and the agents  *)
(* that trade them for a credential (agent_auth.go, orgs.go).              *)
(*                                                                         *)
(* Signup and AgentRegister look the code up, decide, and commit later in  *)
(* a transaction of their own; between the two steps anything may happen   *)
(* to the code, the name and the node.                                     *)
(***************************************************************************)
EXTENDS Integers, FiniteSets

CONSTANTS
    EnrNames,     \* user names
    NoName,       \* not one of them
    EnrUsers,     \* accounts are numbered up to this
    EnrInvites,   \* invite codes
    EnrNodes,     \* nodes
    EnrRegs,      \* registration tokens; RegNode gives the node of each
    RegNode,
    EnrAgents,    \* bound on agent tokens ever generated
    EnrSlots,     \* requests that overlap
    EnrLimit      \* attempts per name and window (5 in the code)

ASSUME EnrAssumption ==
    /\ RegNode \in [EnrRegs -> EnrNodes]
    /\ NoName \notin EnrNames /\ 0 \notin EnrInvites /\ EnrUsers \in Nat
    /\ EnrAgents \in Nat /\ EnrLimit \in Nat \ {0}

VARIABLES
    invite,    \* invites
    users,     \* users by id, with the invite each came with (a history: the row
               \* does not say), those deleted since too
    hits,      \* signupLimiter: attempts of the name in the window
    nodes,     \* rows of nodes
    reg,       \* node_registration_tokens
    cred,      \* agent_credentials: the token of a node's agent, and revoked_at
    job,       \* the requests being handled
    agents,    \* agent tokens generated so far
    dead       \* history: agent tokens that RevokeAgent has met

EnrVars == <<invite, users, hits, nodes, reg, cred, job, agents, dead>>

Invite == [st : {"none", "open", "used"}, late : BOOLEAN,
           by : 0..EnrUsers]   \* used_by_user_id: no foreign key; 0 is NULL
UserRow == [st : {"none", "live", "gone"}, name : EnrNames \cup {NoName},
            from : EnrInvites \cup {0}]
RegRow == [st : {"none", "open", "used"}, late : BOOLEAN]
CredRow == [tok : 0..EnrAgents, revoked : BOOLEAN]
Request == [pc : {"idle", "commit"}, name : EnrNames \cup {NoName},
            code : EnrInvites \cup EnrRegs \cup {0}, kind : {"signup", "agent"}]
EnrIdle == [pc |-> "idle", name |-> NoName, code |-> 0, kind |-> "signup"]

EnrTypeOK ==
    /\ invite \in [EnrInvites -> Invite]
    /\ users \in [1..EnrUsers -> UserRow]
    /\ hits \in [EnrNames -> 0..EnrLimit]
    /\ nodes \subseteq EnrNodes
    /\ reg \in [EnrRegs -> RegRow]
    /\ cred \in [EnrNodes -> CredRow]
    /\ job \in [EnrSlots -> Request]
    /\ agents \in 0..EnrAgents
    /\ dead \subseteq 1..EnrAgents

EnrInit ==
    /\ invite = [i \in EnrInvites |-> [st |-> "none", late |-> FALSE, by |-> 0]]
    /\ users = [u \in 1..EnrUsers |-> [st |-> "none", name |-> NoName, from |-> 0]]
    /\ hits = [n \in EnrNames |-> 0]
    /\ nodes = {}
    /\ reg = [r \in EnrRegs |-> [st |-> "none", late |-> FALSE]]
    /\ cred = [n \in EnrNodes |-> [tok |-> 0, revoked |-> FALSE]]
    /\ job = [q \in EnrSlots |-> EnrIdle]
    /\ agents = 0
    /\ dead = {}

Ends(q) == job' = [job EXCEPT ![q] = EnrIdle]

------------------------------------------------------------------------------
(* Invites *)

\* A fresh code, retried while it is taken.
CreateInvite(i) ==
    /\ invite[i].st = "none"
    /\ invite' = [invite EXCEPT ![i].st = "open"]
    /\ UNCHANGED <<users, hits, nodes, reg, cred, job, agents, dead>>

AdminCreateInvite(i) == CreateInvite(i)
OrgCreateInvite(i) == CreateInvite(i)

\* used_at is set where it is not yet, used_by_user_id is not.
RevokeInvite(i) ==
    /\ invite[i].st = "open"
    /\ invite' = [invite EXCEPT ![i].st = "used"]
    /\ UNCHANGED <<users, hits, nodes, reg, cred, job, agents, dead>>

OrgRevokeInvite(i) == RevokeInvite(i)
AdminRevokeInvite(i) == RevokeInvite(i)

InviteExpires(i) ==
    /\ invite[i].st # "none" /\ ~invite[i].late
    /\ invite' = [invite EXCEPT ![i].late = TRUE]
    /\ UNCHANGED <<users, hits, nodes, reg, cred, job, agents, dead>>

\* Mutant: one attempt too many.
AllowOneMore(n) == hits[n] <= EnrLimit /\ hits' = [hits EXCEPT ![n] = @ + 1]

\* signupLimiter.Allow: a window holds EnrLimit attempts of a name.
Allow(n) == hits[n] < EnrLimit /\ hits' = [hits EXCEPT ![n] = @ + 1]

WindowEnds(n) ==
    /\ hits[n] > 0
    /\ hits' = [hits EXCEPT ![n] = 0]
    /\ UNCHANGED <<invite, users, nodes, reg, cred, job, agents, dead>>

InviteUsable(i) == invite[i].st = "open" /\ ~invite[i].late

\* Names of users are unique, ids are new.
Named(n) == \E u \in 1..EnrUsers : users[u].st = "live" /\ users[u].name = n
NewUser(u) == /\ users[u].st = "none"
            /\ \A v \in 1..EnrUsers : v < u => users[v].st # "none"
Add(u, n, i) == users' = [users EXCEPT ![u] = [st |-> "live", name |-> n, from |-> i]]

\* The request gets past the limiter, finds a usable invite and no such user.
\* An attempt that is refused still counts.
SignupRead(q, n, i) ==
    /\ job[q].pc = "idle"
    /\ Allow(n)
    /\ IF InviteUsable(i) /\ ~Named(n)
       THEN job' = [job EXCEPT ![q] = [pc |-> "commit", name |-> n, code |-> i,
                                       kind |-> "signup"]]
       ELSE UNCHANGED job
    /\ UNCHANGED <<invite, users, nodes, reg, cred, agents, dead>>

MarkUsed(i, u) ==
    invite' = IF invite[i].st = "open"
              THEN [invite EXCEPT ![i].st = "used", ![i].by = u] ELSE invite

\* Mutant: the invite is marked before the transaction, which may then fail.
SignupCommitMarksFirst(q) ==
    /\ job[q].pc = "commit" /\ job[q].kind = "signup"
    /\ \E u \in 1..EnrUsers :
          /\ NewUser(u) /\ MarkUsed(job[q].code, u)
          /\ IF Named(job[q].name) THEN UNCHANGED users
             ELSE Add(u, job[q].name, job[q].code)
    /\ Ends(q)
    /\ UNCHANGED <<hits, nodes, reg, cred, agents, dead>>

\* The transaction: the user (unique by name), the organisation or membership,
\* and the invite where it is still unused. How many invites were updated is not
\* looked at. It may fail as a whole.
SignupCommit(q) ==
    /\ job[q].pc = "commit" /\ job[q].kind = "signup"
    /\ \/ \E u \in 1..EnrUsers :
             /\ NewUser(u) /\ ~Named(job[q].name)
             /\ Add(u, job[q].name, job[q].code)
             /\ MarkUsed(job[q].code, u)
       \/ UNCHANGED <<users, invite>>
    /\ Ends(q)
    /\ UNCHANGED <<hits, nodes, reg, cred, agents, dead>>

\* users.go: an administrator makes an account without an invite, or deletes one.
AddUser(n) ==
    /\ ~Named(n)
    /\ \E u \in 1..EnrUsers : NewUser(u) /\ Add(u, n, 0)
    /\ UNCHANGED <<invite, hits, nodes, reg, cred, job, agents, dead>>

RemoveUser(u) ==
    /\ users[u].st = "live"
    /\ users' = [users EXCEPT ![u].st = "gone"]
    /\ UNCHANGED <<invite, hits, nodes, reg, cred, job, agents, dead>>

\* A request that has read the row before saves it whole (see Accounts): it is
\* inserted again, with its id, unless the name was taken.
ReturnUser(u) ==
    /\ users[u].st = "gone" /\ ~Named(users[u].name)
    /\ users' = [users EXCEPT ![u].st = "live"]
    /\ UNCHANGED <<invite, hits, nodes, reg, cred, job, agents, dead>>

------------------------------------------------------------------------------
(* Nodes and their agents *)

\* CreateOrgNode: the node and its registration token in one transaction.
CreateOrgNode(r) ==
    /\ reg[r].st = "none" /\ RegNode[r] \notin nodes
    /\ nodes' = nodes \cup {RegNode[r]}
    /\ reg' = [reg EXCEPT ![r].st = "open"]
    /\ UNCHANGED <<invite, users, hits, cred, job, agents, dead>>

\* Tokens and credential go with the node (ON DELETE CASCADE).
DeleteOrgNode(n) ==
    /\ n \in nodes
    /\ nodes' = nodes \ {n}
    /\ cred' = [cred EXCEPT ![n] = [tok |-> 0, revoked |-> FALSE]]
    /\ reg' = [r \in EnrRegs |-> IF RegNode[r] = n /\ reg[r].st # "none"
                                 THEN [reg[r] EXCEPT !.st = "used"] ELSE reg[r]]
    /\ UNCHANGED <<invite, users, hits, job, agents, dead>>

RegExpires(r) ==
    /\ reg[r].st # "none" /\ ~reg[r].late
    /\ reg' = [reg EXCEPT ![r].late = TRUE]
    /\ UNCHANGED <<invite, users, hits, nodes, cred, job, agents, dead>>

AgentRegisterRead(q, r) ==
    /\ job[q].pc = "idle"
    /\ reg[r].st = "open" /\ ~reg[r].late /\ RegNode[r] \in nodes
    /\ job' = [job EXCEPT ![q] = [pc |-> "commit", name |-> NoName, code |-> r,
                                  kind |-> "agent"]]
    /\ UNCHANGED <<invite, users, hits, nodes, reg, cred, agents, dead>>

\* Mutant: on conflict the old hash stays.
UpsertKeepsHash(n, tok) ==
    [tok |-> IF cred[n].tok = 0 THEN tok ELSE cred[n].tok, revoked |-> FALSE]

\* ON CONFLICT (node_id): token_hash is replaced and revoked_at cleared.
UpsertCredential(n, tok) == [tok |-> tok, revoked |-> FALSE]

\* The token is marked where it is unused, and the node's credential replaced;
\* that breaks the foreign key when the node is gone. The update of the node's
\* agent_last_seen_at that follows is left out.
AgentRegisterCommit(q) ==
    /\ job[q].pc = "commit" /\ job[q].kind = "agent"
    /\ agents < EnrAgents
    /\ LET r == job[q].code
           n == RegNode[r]
       IN  \/ /\ n \in nodes
              /\ agents' = agents + 1
              /\ reg' = [reg EXCEPT ![r].st = "used"]
              /\ cred' = [cred EXCEPT ![n] = UpsertCredential(n, agents + 1)]
           \/ UNCHANGED <<agents, reg, cred>>
    /\ Ends(q)
    /\ UNCHANGED <<invite, users, hits, nodes, dead>>

RevokeAgent(n) ==
    /\ n \in nodes /\ cred[n].tok # 0 /\ ~cred[n].revoked
    /\ cred' = [cred EXCEPT ![n].revoked = TRUE]
    /\ dead' = dead \cup {cred[n].tok}
    /\ UNCHANGED <<invite, users, hits, nodes, reg, job, agents>>

\* AgentAuth, in front of AgentHeartbeat (which only moves last_seen_at).
Authenticates(tok) == \E n \in EnrNodes : cred[n].tok = tok /\ ~cred[n].revoked

------------------------------------------------------------------------------
EnrNext ==
    \/ \E i \in EnrInvites :
          \/ AdminCreateInvite(i) \/ OrgCreateInvite(i)
          \/ AdminRevokeInvite(i) \/ OrgRevokeInvite(i)
          \/ InviteExpires(i)
    \/ \E n \in EnrNames : WindowEnds(n) \/ AddUser(n)
    \/ \E u \in 1..EnrUsers : RemoveUser(u) \/ ReturnUser(u)
    \/ \E q \in EnrSlots, n \in EnrNames, i \in EnrInvites : SignupRead(q, n, i)
    \/ \E q \in EnrSlots : SignupCommit(q) \/ AgentRegisterCommit(q)
    \/ \E r \in EnrRegs : CreateOrgNode(r) \/ RegExpires(r)
    \/ \E q \in EnrSlots, r \in EnrRegs : AgentRegisterRead(q, r)
    \/ \E n \in EnrNodes : DeleteOrgNode(n) \/ RevokeAgent(n)

EnrSpec == EnrInit /\ [][EnrNext]_EnrVars

------------------------------------------------------------------------------
(* Properties *)

\* Accounts and invites are accounted for on both sides, whatever overlaps or
\* fails: the invite of an account can no longer be used, also when the account was
\* deleted and its name given to another; and the id an invite names was given to an
\* account made from this very invite, not to an attempt that failed on the name or
\* to an account of that name which an administrator made. The account may have been
\* deleted since.
EnrInviteAccounting ==
    /\ \A u \in 1..EnrUsers :
          users[u].from \in EnrInvites => invite[users[u].from].st = "used"
    /\ \A i \in EnrInvites :
          invite[i].by # 0 =>
             users[invite[i].by].st # "none" /\ users[invite[i].by].from = i

\* An agent that was revoked stays out, also when its node is registered again
\* and the new registration clears revoked_at.
EnrRevokedAgentOut == \A t \in dead : ~Authenticates(t)
==============================================================================
