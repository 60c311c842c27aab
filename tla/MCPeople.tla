------------------------------- MODULE MCPeople -------------------------------
(* What people do through the API, for TLC: accounts, enrolment, the transfer  *)
(* of an organisation and the configuration of backups. They share no row      *)
(* whose change matters to another, so a behaviour is about one of them (of    *)
(* enrolment: about invites or about agents) and leaves the rest alone.        *)
EXTENDS Accounts, Enrolment, OrgTransfer, BackupConfig, TLC

CONSTANTS q1, q2, k1, k2

B(secrets, codes, tokens_, challenges, gens, edits_) ==
    [secrets |-> secrets, codes |-> codes, tokens |-> tokens_,
     challenges |-> challenges, gens |-> gens, edits |-> edits_]

\* 2FA with recovery and administration; a session and a passkey; passkeys with a
\* challenge of each type, or one after the other; an account that is deleted and
\* made again.
MCBudgets == {B(2, 1, 0, 0, 0, 1), B(0, 0, 1, 1, 0, 0), B(0, 0, 0, 2, 0, 0),
              B(1, 0, 1, 0, 1, 0)}

MCRegNode == <<1, 1>>

\* A request that fills in nothing; ftp; a key for sftp; s3.
MCInputs == {[has |-> {}, auth |-> ""],
             [has |-> {"host", "user", "password"}, auth |-> ""],
             [has |-> {"key"}, auth |-> "key"],
             [has |-> {"host", "bucket", "keys"}, auth |-> ""]}

MCTemplate == <<[type |-> "path", cfg |-> {"path"}], [type |-> "snapshot", cfg |-> {}]>>

MCPeopleSymmetry == Permutations({q1, q2}) \cup Permutations({k1, k2})

VARIABLE focus

MCInit ==
    /\ AccInit /\ EnrInit /\ TrfInit /\ BcfInit
    /\ focus \in {"accounts", "invites", "agents", "transfer", "backups"}
    /\ focus # "accounts" => budget = B(1, 0, 1, 0, 1, 0)
    /\ focus # "backups" => btpl

Account == focus = "accounts" /\ AccNext /\ UNCHANGED <<EnrVars, trfVars, bcfVars, focus>>
Enrol ==
    /\ focus \in {"invites", "agents"} /\ EnrNext
    /\ focus = "invites" => UNCHANGED <<nodes, reg, cred, agents, dead>>
    /\ focus = "agents" => UNCHANGED <<invite, users, hits>>
    /\ UNCHANGED <<AccVars, trfVars, bcfVars, focus>>
\* Two imports at a time where nothing is edited; and where something is, no row more
\* than an import of organisation 1 or, with two edits, one of organisation 2 and a
\* service need.
Transfer ==
    /\ focus = "transfer" /\ TrfNext
    /\ trfEdits' > 0 =>
          nextId' <= 14 - trfEdits' /\ \E t \in TrfImporters : imp'[t].pc = "idle"
    /\ UNCHANGED <<AccVars, EnrVars, bcfVars, focus>>
Backups == focus = "backups" /\ BcfNext /\ UNCHANGED <<AccVars, EnrVars, trfVars, focus>>

MCNext == Account \/ Enrol \/ Transfer \/ Backups

MCSpec == MCInit /\ [][MCNext]_<<AccVars, EnrVars, trfVars, bcfVars, focus>>

\* Every variable of the four has its type.
PeopleTypeOK == AccTypeOK /\ EnrTypeOK /\ TrfTypeOK /\ BcfTypeOK
==============================================================================
