------------------------------- MODULE Office -------------------------------
(***************************************************************************)
(* The beneficiaries an organisation's staff looks after                   *)
(* (dashboard/beneficiaries.py): their rows, notes and follow-ups, who may *)
(* touch them (dashboard/rbac.py), and the audit log (dashboard/audit.py). *)
(*                                                                         *)
(* A handler loads a row, checks the access and commits later; what the    *)
(* ORM writes are the columns that differ from the ones it loaded.  The    *)
(* two reads of a follow-up's handler are one step, for a follow-up never  *)
(* changes its beneficiary.  Each commit adds its audit row.               *)
(*                                                                         *)
(* The lists only read: they are what they show of the rows there are.     *)
(*                                                                         *)
(* Left out: the search words and pages of lists; the Aadhaar check of     *)
(* payloads; due dates; deleted_at, which nothing sets.                    *)
(***************************************************************************)
EXTENDS Naturals, Sequences

CONSTANTS
    Staff,          \* organisation_members, all active
    Role,           \* their roles
    OrgOf,          \* and organisations
    Beneficiaries,  \* beneficiaries.id
    Followups,      \* beneficiary_followups.id
    Details,        \* values of the other columns of a beneficiary and its profile
    Desks,          \* handlers running at the same time
    NoOne,        \* no operator is assigned, or the request does not say
    Absent          \* no row

Roles == {"super_admin", "ngo_admin", "operator"}
Statuses == {"not_started", "documents_gathering", "submitted", "pending", "approved", "rejected"}

ASSUME OfficeAssumption ==
    /\ Role \in [Staff -> Roles]
    /\ NoOne \notin Staff
    /\ DOMAIN OrgOf = Staff
    /\ Staff # {} /\ Beneficiaries # {}

VARIABLES
    rows,           \* table beneficiaries, with the facts of its profile
    followups,      \* table beneficiary_followups
    notes,          \* how many notes a beneficiary has
    audits,         \* table audit_logs, in commit order
    desks           \* the handlers in progress

officeVars == <<rows, followups, notes, audits, desks>>

Orgs == {OrgOf[m] : m \in Staff}
Assignee == Staff \cup {NoOne}
BeneficiaryRow == [org: Orgs, assigned: Assignee, details: Details, facts: Details]
FollowupRow == [of: Beneficiaries, assigned: Assignee, status: {"open", "completed", "cancelled"},
                dated: BOOLEAN]
Audit == [actor: Staff, action: {"create", "update", "note", "followup", "close"}, of: Beneficiaries]

ASSUME AbsentAssumption == Absent \notin BeneficiaryRow /\ Absent \notin FollowupRow \cup Followups

Desk == [op: {"none", "update", "note", "followup", "close"}, actor: Staff, of: Beneficiaries,
         loaded: BeneficiaryRow \cup {Absent}, wanted: BeneficiaryRow \cup {Absent},
         id: Followups \cup {Absent}, card: FollowupRow \cup {Absent},
         status: {"none", "completed", "cancelled"}]

OfficeTypeOK ==
    /\ rows \in [Beneficiaries -> BeneficiaryRow \cup {Absent}]
    /\ followups \in [Followups -> FollowupRow \cup {Absent}]
    /\ notes \in [Beneficiaries -> Nat]
    /\ audits \in Seq(Audit)
    /\ desks \in [Desks -> Desk]

Free == [op |-> "none", actor |-> CHOOSE m \in Staff : TRUE, of |-> CHOOSE b \in Beneficiaries : TRUE,
         loaded |-> Absent, wanted |-> Absent, id |-> Absent, card |-> Absent, status |-> "none"]

OfficeInit ==
    /\ rows = [b \in Beneficiaries |-> Absent]
    /\ followups = [f \in Followups |-> Absent]
    /\ notes = [b \in Beneficiaries |-> 0]
    /\ audits = <<>>
    /\ desks = [d \in Desks |-> Free]

Sits(d, op) == desks[d].op = op
Takes(d, desk) == desks[d].op = "none" /\ desks' = [desks EXCEPT ![d] = desk]
Leaves(d) == desks' = [desks EXCEPT ![d] = Free]
Logged(m, action, b) == audits' = Append(audits, [actor |-> m, action |-> action, of |-> b])

-----------------------------------------------------------------------------

\* assert_beneficiary_access: every role has beneficiary:write.
Access(m, row) ==
    /\ Role[m] = "super_admin" \/ OrgOf[m] = row.org
    /\ Role[m] = "operator" => row.assigned = m

\* get_beneficiary_detail: 404, or the same access.
MayOpen(m, b) == rows[b] # Absent /\ Access(m, rows[b])

\* Faulty variant of Scoped: an operator is shown what the organisation has.
ScopedByOrg(m, row) == Role[m] = "super_admin" \/ row.org = OrgOf[m]

\* _scope_stmt: the WHERE of every list.
Scoped(m, row) ==
    /\ Role[m] # "super_admin" => row.org = OrgOf[m]
    /\ Role[m] = "operator" => row.assigned = m

\* list_beneficiaries: the filter by operator does not count for operators.
Listed(m, assignee) ==
    {b \in Beneficiaries :
        /\ rows[b] # Absent /\ Scoped(m, rows[b])
        /\ assignee # NoOne /\ Role[m] # "operator" => rows[b].assigned = assignee}

\* ROLE_PERMISSIONS, those about beneficiaries; "*" is every permission.
ROLE_PERMISSIONS ==
    [super_admin |-> {"*"},
     ngo_admin |-> {"beneficiary:read", "beneficiary:write", "beneficiary:export"},
     operator |-> {"beneficiary:read", "beneficiary:write"}]

MayExport(m) == ROLE_PERMISSIONS[Role[m]] \cap {"*", "beneficiary:export"} # {}

\* export_beneficiaries: the list without a filter.  The route asks for the permission of
\* the list, beneficiary:read, which every role has, and for no other.
Exported(m) == Listed(m, NoOne)

\* status_board: the column of a status; the rejected are in none.
Column(status) == IF status = "pending" THEN "submitted" ELSE status
Columns == {"not_started", "documents_gathering", "submitted", "approved"}

\* The beneficiaries on the board when each has applied once, with this status.
Board(m, statusOf) == {b \in Listed(m, NoOne) : Column(statusOf[b]) \in Columns}

\* An operator names themselves, or nobody.
MayAssign(m, assignee) == Role[m] = "operator" => assignee \in {m, NoOne}

\* create_beneficiary reads nothing: insert and commit.
CreateBeneficiary(m, b, assignee, details) ==
    /\ rows[b] = Absent /\ MayAssign(m, assignee)
    /\ rows' = [rows EXCEPT ![b] =
                  [org |-> OrgOf[m], details |-> details, facts |-> details,
                   assigned |-> IF Role[m] = "operator" THEN m ELSE assignee]]
    /\ Logged(m, "create", b)
    /\ UNCHANGED <<followups, notes, desks>>

\* What a PATCH asks for: nobody means that the field is not in the request.
Wanted(row, assignee, details, facts) ==
    [row EXCEPT !.assigned = IF assignee = NoOne THEN @ ELSE assignee, !.details = details, !.facts = facts]

UpdateLoad(d, m, b, assignee, details, facts) ==
    /\ rows[b] # Absent /\ Access(m, rows[b]) /\ MayAssign(m, assignee)
    /\ Takes(d, [Free EXCEPT !.op = "update", !.actor = m, !.of = b, !.loaded = rows[b],
                             !.wanted = Wanted(rows[b], assignee, details, facts)])
    /\ UNCHANGED <<rows, followups, notes, audits>>

\* Faulty variant of Written: every column is written.
AllWritten(now, loaded, wanted) == wanted

\* The UPDATE of the columns that differ from the ones loaded.
Written(now, loaded, wanted) ==
    [c \in DOMAIN now |-> IF wanted[c] = loaded[c] THEN now[c] ELSE wanted[c]]

UpdateBeneficiary(d) ==
    LET q == desks[d] IN
    /\ Sits(d, "update")
    /\ rows' = [rows EXCEPT ![q.of] = Written(@, q.loaded, q.wanted)]
    /\ Logged(q.actor, "update", q.of)
    /\ Leaves(d)
    /\ UNCHANGED <<followups, notes>>

\* add_note and add_followup load the beneficiary first.
AddLoad(d, m, b, op) ==
    /\ op \in {"note", "followup"}
    /\ rows[b] # Absent /\ Access(m, rows[b])
    /\ Takes(d, [Free EXCEPT !.op = op, !.actor = m, !.of = b, !.loaded = rows[b]])
    /\ UNCHANGED <<rows, followups, notes, audits>>

AddNote(d) ==
    /\ Sits(d, "note")
    /\ notes' = [notes EXCEPT ![desks[d].of] = @ + 1]
    /\ Logged(desks[d].actor, "note", desks[d].of)
    /\ Leaves(d)
    /\ UNCHANGED <<rows, followups>>

\* The follow-up goes to the operator that was assigned when the row was loaded.
AddFollowup(d) ==
    LET q == desks[d] IN
    /\ Sits(d, "followup")
    /\ \E f \in Followups :
          /\ followups[f] = Absent
          /\ followups' = [followups EXCEPT ![f] = [of |-> q.of, assigned |-> q.loaded.assigned,
                                                    status |-> "open", dated |-> FALSE]]
    /\ Logged(q.actor, "followup", q.of)
    /\ Leaves(d)
    /\ UNCHANGED <<rows, notes>>

CloseLoad(d, m, f, status) ==
    /\ followups[f] # Absent /\ Access(m, rows[followups[f].of])
    /\ Takes(d, [Free EXCEPT !.op = "close", !.actor = m, !.of = followups[f].of, !.id = f,
                             !.card = followups[f], !.status = status])
    /\ UNCHANGED <<rows, followups, notes, audits>>

\* A new time is always a change, None only if there was one.
CloseFollowup(d) ==
    LET q == desks[d] IN
    /\ Sits(d, "close")
    /\ followups' = [followups EXCEPT
          ![q.id].status = IF q.status = q.card.status THEN @ ELSE q.status,
          ![q.id].dated = IF q.status = "completed" THEN TRUE ELSE IF q.card.dated THEN FALSE ELSE @]
    /\ Logged(q.actor, "close", q.of)
    /\ Leaves(d)
    /\ UNCHANGED <<rows, notes>>

\* A cancelled request or a crash.
DeskFails(d) ==
    /\ desks[d].op # "none"
    /\ Leaves(d)
    /\ UNCHANGED <<rows, followups, notes, audits>>

DeskOpens(d, m) ==
    \/ \E b \in Beneficiaries, assignee \in Assignee, details, facts \in Details :
            UpdateLoad(d, m, b, assignee, details, facts)
    \/ \E b \in Beneficiaries, op \in {"note", "followup"} : AddLoad(d, m, b, op)
    \/ \E f \in Followups, status \in {"completed", "cancelled"} : CloseLoad(d, m, f, status)

Creates(m) == \E b \in Beneficiaries, assignee \in Assignee, details \in Details :
                    CreateBeneficiary(m, b, assignee, details)

DeskWorks(d) ==
    UpdateBeneficiary(d) \/ AddNote(d) \/ AddFollowup(d) \/ CloseFollowup(d) \/ DeskFails(d)

OfficeNext ==
    \/ \E m \in Staff : Creates(m) \/ \E d \in Desks : DeskOpens(d, m)
    \/ \E d \in Desks : DeskWorks(d)

OfficeSpec == OfficeInit /\ [][OfficeNext]_officeVars

-----------------------------------------------------------------------------
(* Properties. *)

\* No operator ever takes a beneficiary back or away: only an administrator's commit
\* changes who a beneficiary is assigned to, also when an operator's change was loaded
\* before a reassignment and commits after it (dashboard/beneficiaries.py:199-219).
AssignmentByAdmins ==
    [][\A b \in Beneficiaries :
          rows[b] # Absent /\ rows'[b].assigned # rows[b].assigned =>
              Role[audits'[Len(audits')].actor] # "operator"]_officeVars

\* A list, the board and the pages they lead to agree: everybody is shown exactly the
\* beneficiaries they may open, a filter hides only some of them, and on the board only the
\* rejected are missing (dashboard/beneficiaries.py:54-67, 280-291, dashboard/rbac.py:39-57).
\* Whoever holds beneficiary:export gets these beneficiaries in the file.  That the others
\* get none, as docs/engineering/rbac-and-tenancy.md:44 has it ("export.beneficiaries",
\* operator no), is not true of the code: the route (api/routes/dashboard.py:243-248) never
\* asks for beneficiary:export, which rbac.py:22 denies operators, and exports for them too.
ListsWhatMayBeOpened ==
    \A m \in Staff :
        LET openable == {b \in Beneficiaries : MayOpen(m, b)} IN
        /\ Listed(m, NoOne) = openable
        /\ MayExport(m) => Exported(m) = openable
        /\ \A assignee \in Staff : Listed(m, assignee) \subseteq openable
        /\ \A statusOf \in [Beneficiaries -> Statuses] :
               Board(m, statusOf) = {b \in openable : statusOf[b] # "rejected"}
=============================================================================
