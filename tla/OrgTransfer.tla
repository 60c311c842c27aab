------------------------------ MODULE OrgTransfer ------------------------------
(***************************************************************************)
(* Export and import of an organisation's configuration                    *)
(* (backend/internal/http/org_backup.go) while users edit the same tables  *)
(* (internal/http/{nodes,orgs,services}.go).                               *)
(*                                                                         *)
(* An export reads one table after the other. An import is a transaction   *)
(* of a delete statement per table and the inserts, under READ COMMITTED:  *)
(* a statement sees what was committed when it began, and waits for the    *)
(* rows that another transaction has deleted and not yet committed. A row  *)
(* is its table, its organisation (of a bot or a check, which have no such *)
(* column, the one it was made in), the row it refers to, its content, and *)
(* whether a column that db.go gives a default to is false, 0 or empty: an *)
(* insert through gorm replaces that by the default.                       *)
(* Services and bots go with their node and keys lose theirs (ON DELETE);  *)
(* checks have no foreign key.                                             *)
(***************************************************************************)
EXTENDS Naturals, Sequences, FiniteSets, Functions

CONSTANTS
    TrfImporters,  \* requests for an import at the same time
    TrfIds,        \* bound on ids of rows
    TrfExports,    \* bound on exports
    TrfEdits       \* bound on requests that edit

ASSUME TrfAssumption == TrfIds \in Nat /\ TrfIds >= 7
                        /\ TrfExports \in Nat /\ TrfEdits \in Nat

Orgs == {1, 2}
ExportOrder == <<"node", "service", "bot", "check", "key">>
PurgeOrder == <<"check", "service", "bot", "key", "node">>

VARIABLES
    tables,    \* the committed rows: [id -> row]
    file,      \* the exported file: [id -> row]
    exp,       \* the export: organisation, next table, what it has read
    imp,       \* the imports
    update,    \* UpdateNode: the row it is to save
    removing,  \* DeleteNode: the node and the checks it has deleted
    nextId, trfEdits,
    disturbed, \* history: organisations where something met an import or a DeleteNode
    dropped    \* history: what DeleteOrgNode has removed

trfVars == <<tables, file, exp, imp, update, removing, nextId, trfEdits, disturbed, dropped>>

Row == [tab : {ExportOrder[n] : n \in 1..5}, org : Orgs, ref : 0..TrfIds,
        content : 1..TrfIds, zero : BOOLEAN]

R(tab, org, ref, content, zero) ==
    [tab |-> tab, org |-> org, ref |-> ref, content |-> content, zero |-> zero]

Idle == [pc |-> "idle", org |-> 1, k |-> 1, wait |-> {}, gone |-> {}, rows |-> <<>>]

TrfTypeOK ==
    /\ DOMAIN tables \subseteq 1..TrfIds /\ \A x \in DOMAIN tables : tables[x] \in Row
    /\ \A x \in DOMAIN file : file[x] \in Row
    /\ exp.org \in Orgs /\ exp.k \in 1..6 /\ exp.n \in 0..TrfExports
    /\ \A t \in TrfImporters :
          /\ imp[t].pc \in {"idle", "purge", "done"} /\ imp[t].org \in Orgs
          /\ imp[t].k \in 1..6
          /\ imp[t].wait \cup imp[t].gone \subseteq 1..TrfIds
    /\ update \in [id : 0..TrfIds, row : Row]
    /\ removing \in [id : 0..TrfIds, gone : SUBSET (1..TrfIds)]
    /\ nextId \in 1..(TrfIds + 1) /\ trfEdits \in 0..TrfEdits /\ disturbed \subseteq Orgs
    /\ dropped \subseteq 1..TrfIds

TrfInit ==
    /\ tables = <<R("node", 1, 0, 1, FALSE), R("service", 1, 1, 2, FALSE),
                  R("bot", 1, 1, 3, FALSE), R("check", 1, 2, 4, TRUE),
                  R("key", 1, 1, 5, FALSE), R("node", 2, 0, 6, TRUE),
                  R("check", 2, 6, 7, FALSE)>>
    /\ file = <<>>
    /\ exp = [n |-> 0, org |-> 1, k |-> 6, rows |-> <<>>]
    /\ imp = [t \in TrfImporters |-> Idle]
    /\ update = [id |-> 0, row |-> R("node", 1, 0, 1, FALSE)]
    /\ removing = [id |-> 0, gone |-> {}]
    /\ nextId = 8 /\ trfEdits = 0 /\ disturbed = {} /\ dropped = {}

------------------------------------------------------------------------------
Plus(f, g) ==
    [x \in DOMAIN f \cup DOMAIN g |-> IF x \in DOMAIN g THEN g[x] ELSE f[x]]

Of(f, tab) == {x \in DOMAIN f : f[x].tab = tab}

Locked(t) == removing.gone \cup UNION {imp[u].gone : u \in TrfImporters \ {t}}
LockedByAny == removing.gone \cup UNION {imp[u].gone : u \in TrfImporters}

\* A request in an organisation that is being imported, or one that something else
\* makes it meet.
Importing(o) == {t \in TrfImporters : imp[t].pc = "purge" /\ imp[t].org = o}
Meets(o, other) ==
    disturbed' = IF Importing(o) # {} \/ other THEN disturbed \cup {o} ELSE disturbed

\* What a node takes along, by foreign key, and rows when others of their table go.
Hanging(S) ==
    {x \in Of(tables, "service") \cup Of(tables, "bot") : tables[x].ref \in S}
WithHanging(S) == S \cup Hanging(S)
RowsLeft(S) ==
    [x \in DOMAIN tables \ S |->
        IF tables[x].tab = "key" /\ tables[x].ref \in S
        THEN [tables[x] EXCEPT !.ref = 0] ELSE tables[x]]

\* tx.Create of a struct: what is zero gets the default of its column's tag.
Created(row) == IF row.tab = "key" THEN row ELSE [row EXCEPT !.zero = FALSE]

------------------------------------------------------------------------------
(* ExportOrgConfig *)

ExportBegins(o) ==
    /\ exp.k = 6 /\ exp.n < TrfExports
    /\ exp' = [n |-> exp.n + 1, org |-> o, k |-> 1, rows |-> <<>>]
    /\ UNCHANGED <<tables, file, imp, update, removing, nextId, trfEdits, disturbed, dropped>>

\* Nodes, services and keys by organisation, bots and checks by what they refer to.
Exported(tab) ==
    {x \in Of(tables, tab) :
        IF tab \in {"node", "service", "key"} THEN tables[x].org = exp.org
        ELSE tables[x].ref \in DOMAIN exp.rows}

ExportTable ==
    /\ exp.k <= 5
    /\ LET got == Plus(exp.rows, Restrict(tables, Exported(ExportOrder[exp.k])))
       IN  /\ exp' = [exp EXCEPT !.k = @ + 1, !.rows = IF exp.k = 5 THEN <<>> ELSE got]
           /\ file' = IF exp.k = 5 THEN got ELSE file
    /\ UNCHANGED <<tables, imp, update, removing, nextId, trfEdits, disturbed, dropped>>

------------------------------------------------------------------------------
(* ImportOrgConfig *)

\* validateOrgBackupPayload: a service or bot whose node is not in the file is
\* skipped, then a check whose target is not; a key only loses its node.
ValidRows(f) ==
    LET nodes == Of(f, "node")
        things == nodes \cup {x \in Of(f, "service") \cup Of(f, "bot") : f[x].ref \in nodes}
        ok == things \cup {x \in Of(f, "check") : f[x].ref \in things}
    IN  [x \in ok \cup Of(f, "key") |->
            IF f[x].tab = "key" /\ f[x].ref \notin nodes THEN [f[x] EXCEPT !.ref = 0] ELSE f[x]]

ImportBegins(t, o) ==
    /\ imp[t].pc = "idle"
    /\ DOMAIN ValidRows(file) # {}
    /\ imp' = [imp EXCEPT ![t] = [Idle EXCEPT !.pc = "purge", !.org = o,
                                              !.rows = ValidRows(file)]]
    /\ Meets(o, FALSE)
    /\ UNCHANGED <<tables, file, exp, update, removing, nextId, trfEdits, dropped>>

\* What the transaction sees, and which rows of it a statement is to delete.
View(t) == Restrict(tables, DOMAIN tables \ imp[t].gone)

\* Mutant: the checks are deleted whatever they belong to.
PurgedAllChecks(t, tab) ==
    {x \in Of(View(t), tab) :
        \/ tab = "check"
        \/ IF tab \in {"node", "service", "key"} THEN tables[x].org = imp[t].org
           ELSE tables[x].ref \in DOMAIN tables /\ tables[tables[x].ref].org = imp[t].org}

Purged(t, tab) ==
    {x \in Of(View(t), tab) :
        IF tab \in {"node", "service", "key"} THEN tables[x].org = imp[t].org
        ELSE tables[x].ref \in DOMAIN View(t) /\ tables[tables[x].ref].org = imp[t].org}

\* purgeOrgBackupData, a statement: it deletes what it found and what hangs on that,
\* or waits for another transaction with what it found;
PurgeTable(t) ==
    /\ imp[t].pc = "purge" /\ imp[t].k <= 5 /\ imp[t].wait = {}
    /\ LET found == Purged(t, PurgeOrder[imp[t].k])
           all == WithHanging(found)
       IN  imp' = IF all \cap Locked(t) # {} THEN [imp EXCEPT ![t].wait = found]
                  ELSE [imp EXCEPT ![t].k = @ + 1, ![t].gone = @ \cup all]
    /\ UNCHANGED <<tables, file, exp, update, removing, nextId, trfEdits, disturbed, dropped>>

\* the other one has committed: what is left of that is deleted.
PurgeResumes(t) ==
    /\ imp[t].wait # {}
    /\ LET all == WithHanging(imp[t].wait \cap DOMAIN tables)
       IN  /\ all \cap Locked(t) = {}
           /\ imp' = [imp EXCEPT ![t].wait = {}, ![t].k = @ + 1, ![t].gone = @ \cup all]
    /\ UNCHANGED <<tables, file, exp, update, removing, nextId, trfEdits, disturbed, dropped>>

\* Every row gets a new id (nodeMap, serviceMap, botMap),
NewId(f, x) == nextId + Cardinality({y \in DOMAIN f : y < x})

Copied(t, x, ref) == Created([imp[t].rows[x] EXCEPT !.org = imp[t].org, !.ref = ref])
Mapped(t, x) == NewId(imp[t].rows, imp[t].rows[x].ref)

\* and references follow: a node has none, a service and a bot have their node, a
\* check its target, a key may have a node.
InsertNode(t, x) == Copied(t, x, 0)
InsertService(t, x) == Copied(t, x, Mapped(t, x))
InsertBot(t, x) == Copied(t, x, Mapped(t, x))
InsertCheck(t, x) == Copied(t, x, Mapped(t, x))
InsertKey(t, x) == Copied(t, x, IF imp[t].rows[x].ref = 0 THEN 0 ELSE Mapped(t, x))

InsertRow(t, x) ==
    LET tab == imp[t].rows[x].tab
    IN  CASE tab = "node" -> InsertNode(t, x)
          [] tab = "service" -> InsertService(t, x)
          [] tab = "bot" -> InsertBot(t, x)
          [] tab = "check" -> InsertCheck(t, x)
          [] tab = "key" -> InsertKey(t, x)

\* The file's id of a new one.
OldId(t, n) == CHOOSE x \in DOMAIN imp[t].rows : NewId(imp[t].rows, x) = n
NewIds(t) == {NewId(imp[t].rows, x) : x \in DOMAIN imp[t].rows}

\* Mutant: references are taken over from the file.
InsertedOldRefs(t) ==
    [n \in NewIds(t) |-> Copied(t, OldId(t, n), imp[t].rows[OldId(t, n)].ref)]

Inserted(t) == [n \in NewIds(t) |-> InsertRow(t, OldId(t, n))]

\* The inserts and the commit; the request may as well fail and change nothing.
ImportCommits(t) ==
    /\ imp[t].pc = "purge" /\ imp[t].k = 6
    /\ nextId + Cardinality(DOMAIN imp[t].rows) <= TrfIds + 1
    /\ tables' = Plus(RowsLeft(imp[t].gone), Inserted(t))
    /\ nextId' = nextId + Cardinality(DOMAIN imp[t].rows)
    /\ imp' = [imp EXCEPT ![t] = [Idle EXCEPT !.pc = "done", !.org = imp[t].org,
                                              !.rows = imp[t].rows]]
    /\ UNCHANGED <<file, exp, update, removing, trfEdits, disturbed, dropped>>

ImportFails(t) ==
    /\ imp[t].pc = "purge"
    /\ imp' = [imp EXCEPT ![t] = Idle]
    /\ UNCHANGED <<tables, file, exp, update, removing, nextId, trfEdits, disturbed, dropped>>

ImportAnswered(t) ==
    /\ imp[t].pc = "done"
    /\ imp' = [imp EXCEPT ![t] = Idle]
    /\ UNCHANGED <<tables, file, exp, update, removing, nextId, trfEdits, disturbed, dropped>>

------------------------------------------------------------------------------
(* Edits meanwhile *)

TrfEdit == trfEdits < TrfEdits /\ trfEdits' = trfEdits + 1

\* CreateService: the service and its default check. The foreign key makes it
\* wait for a node that is being deleted.
AddService(n) ==
    /\ TrfEdit /\ n \notin LockedByAny /\ nextId < TrfIds
    /\ tables' = Plus(tables,
                    [x \in {nextId, nextId + 1} |->
                        IF x = nextId THEN R("service", tables[n].org, n, x, FALSE)
                        ELSE R("check", tables[n].org, nextId, x, FALSE)])
    /\ nextId' = nextId + 2
    /\ Meets(tables[n].org, removing.id = n)
    /\ UNCHANGED <<file, exp, imp, update, removing, dropped>>

\* deleteNodeRecords, a transaction too: the checks of the node and of what hangs on
\* it (DeleteNode has read the node before);
RemoveChecks(n) ==
    LET found == {x \in Of(tables, "check") : tables[x].ref \in WithHanging({n})}
    IN  /\ TrfEdit /\ removing.id = 0 /\ found \cap LockedByAny = {}
        /\ removing' = [id |-> n, gone |-> found]
        /\ UNCHANGED <<tables, file, exp, imp, update, nextId, disturbed, dropped>>

\* then the node, what hangs on it by now, and the commit;
RemoveNode ==
    LET all == removing.gone \cup (WithHanging({removing.id}) \cap DOMAIN tables)
    IN  /\ removing.id # 0
        /\ \A t \in TrfImporters : all \cap imp[t].gone = {}
        /\ tables' = RowsLeft(all)
        /\ removing' = [id |-> 0, gone |-> {}]
        /\ UNCHANGED <<file, exp, imp, update, nextId, trfEdits, disturbed, dropped>>

\* or an error and the rollback.
RemoveFails ==
    /\ removing.id # 0
    /\ removing' = [id |-> 0, gone |-> {}]
    /\ UNCHANGED <<tables, file, exp, imp, update, nextId, trfEdits, disturbed, dropped>>

\* DeleteOrgNode (Enrolment has an action of that name): only the node's row, and what
\* hangs on it; the checks stay.
DropNode(n) ==
    LET all == WithHanging({n})
    IN  /\ TrfEdit /\ all \cap LockedByAny = {}
        /\ tables' = RowsLeft(all)
        /\ dropped' = dropped \cup all
        /\ UNCHANGED <<file, exp, imp, update, removing, nextId, disturbed>>

\* UpdateNode: the row it has read, with the fields of the request.
EditNodeReads(n) ==
    /\ TrfEdit /\ update.id = 0
    /\ \E zero \in BOOLEAN :
          update' = [id |-> n, row |-> [tables[n] EXCEPT !.zero = zero]]
    /\ UNCHANGED <<tables, file, exp, imp, removing, nextId, disturbed, dropped>>

\* Save: a node that is gone is inserted again, in its old organisation.
EditNodeSaves ==
    /\ update.id # 0 /\ update.id \notin LockedByAny
    /\ tables' = Plus(tables, [x \in {update.id} |->
                    IF x \in DOMAIN tables THEN update.row ELSE Created(update.row)])
    /\ update' = [update EXCEPT !.id = 0]
    /\ Meets(update.row.org, FALSE)
    /\ UNCHANGED <<file, exp, imp, removing, nextId, trfEdits, dropped>>

------------------------------------------------------------------------------
TrfNext ==
    \/ \E o \in Orgs : ExportBegins(o) \/ \E t \in TrfImporters : ImportBegins(t, o)
    \/ ExportTable
    \/ \E t \in TrfImporters :
          PurgeTable(t) \/ PurgeResumes(t) \/ ImportCommits(t) \/ ImportFails(t)
          \/ ImportAnswered(t)
    \/ \E n \in Of(tables, "node") :
          AddService(n) \/ RemoveChecks(n) \/ DropNode(n) \/ EditNodeReads(n)
    \/ RemoveNode \/ RemoveFails \/ EditNodeSaves

TrfSpec == TrfInit /\ [][TrfNext]_trfVars

------------------------------------------------------------------------------
(* Properties *)

\* Rows refer to what is there and of the same organisation, although an export may be
\* torn by edits and is imported elsewhere with other ids, and nodes are deleted
\* meanwhile: services, bots and keys always, checks unless DeleteOrgNode dropped their
\* target, or another import or an edit met an import of their organisation, or a
\* service came to a node that was being deleted.
TrfNoDangling ==
    \A x \in DOMAIN tables :
        /\ tables[x].ref # 0
        /\ tables[x].tab = "check" =>
             tables[x].org \notin disturbed /\ tables[x].ref \notin dropped
        => /\ tables[x].ref \in DOMAIN tables
           /\ tables[tables[x].ref].org = tables[x].org

Commits(t) == imp[t].pc = "purge" /\ imp'[t].pc = "done"

\* The rows of an organisation: bots and checks are where their target is.
Belonging(f, o) ==
    {x \in DOMAIN f :
        IF f[x].tab \in {"bot", "check"}
        THEN f[x].ref \in DOMAIN f /\ f[f[x].ref].org = o
        ELSE f[x].org = o}
Contents(f, S) == {<<f[x].tab, f[x].content, f[x].zero>> : x \in S}

\* README.md: "Imports org configuration backup into current org (replace mode for
\* org-scoped data)". When an import has committed that nothing met, the organisation
\* has new rows only, those of the file with the defaults for what was zero; and no
\* import changes another organisation.
TrfReplaces ==
    [][\A t \in TrfImporters :
          Commits(t) =>
              LET o == imp[t].org
                  rows == imp[t].rows
              IN  /\ o \notin disturbed =>
                       /\ Belonging(tables', o) \cap DOMAIN tables = {}
                       /\ Contents(tables', Belonging(tables', o))
                          = Contents([x \in DOMAIN rows |-> Created(rows[x])], DOMAIN rows)
                  /\ \A x \in DOMAIN tables :
                       tables[x].org # o => x \in DOMAIN tables' /\ tables'[x] = tables[x]
      ]_trfVars
==============================================================================
