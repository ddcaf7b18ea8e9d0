---------------------------- MODULE UserServices ----------------------------
(***************************************************************************)
(* What a citizen with an account does (services/phase4.py): saved schemes *)
(* and their reminders, the document checklist, the offline queue, and the *)
(* status of an application, which an operator of the dashboard changes    *)
(* too (dashboard/beneficiaries.py).  It runs beside the logins and the    *)
(* deletions of module Accounts, whose users table it reads.               *)
(*                                                                         *)
(* A handler is one step per awaited read of its own tables, and the       *)
(* account is read with the first of them.  Flush and commit are one step, *)
(* except in a batch of offline actions: each query flushes the action     *)
(* before it, whose key stays locked until the commit.                     *)
(*                                                                         *)
(* Left out: notes, the document names of the rule a checklist falls back  *)
(* to, the profile a request names (its own), push subscriptions, action   *)
(* plans and DigiLocker rows (one insert each, read by nothing modelled).  *)
(***************************************************************************)
EXTENDS Accounts, Sequences

CONSTANTS
    Schemes,        \* schemes the catalogue has
    Docs,           \* document_checklist_items: scheme and document name
    Keys,           \* idempotency keys, one per action of a device
    ChangeOf,       \* the checklist change a key stands for
    Progress,       \* application statuses a run uses
    Calls           \* handlers of this module running at the same time

ItemStatuses == {"not_gathered", "gathered", "verified", "rejected"}

ASSUME ServicesAssumption ==
    /\ ChangeOf \in [Keys -> [doc: Docs, status: ItemStatuses]]
    /\ Progress \subseteq {"not_started", "documents_gathering", "submitted", "pending",
                           "approved", "rejected"}

VARIABLES
    saved,          \* saved_schemes: the row's number, 0 when there is none
    jobs,           \* notification_jobs a user has had per scheme, and for the status
    items,          \* document_checklist_items.status
    events,         \* offline_sync_events
    effects,        \* auxiliary: how often the change of a key took effect
    application,    \* application_statuses.status of the one scheme applied for
    history,        \* application_status_events of that row, in commit order
    calls           \* what each handler has read and where it is

serviceTables == <<saved, jobs, items, events, effects, application, history>>
serviceVars == <<serviceTables, calls>>
vars == <<accountVars, serviceVars>>

StatusJob == "status"
JobKinds == Schemes \cup {StatusJob}

\* status is always "applied": the request schema refuses a retry_count over 5.
Event == {"patch", "sync"}

\* No value stands for two things: a missing row is no status, no reminder of a scheme is
\* the one about a status.
ASSUME ServiceRowsAssumption ==
    /\ NoRow \notin ItemStatuses \cup Progress \cup Event
    /\ Null \notin Keys
    /\ StatusJob \notin Schemes

Change == [old: Progress \cup {NoRow}, new: Progress, source: {"user", "operator"}]

Call == [op: {"none", "save", "unsave", "checklist", "sync", "status"},
         pc: {"idle", "item", "batch", "commit"},
         user: Users \cup {Null}, scheme: Schemes \cup {Null}, row: Nat, key: Keys \cup {Null},
         item: ItemStatuses \cup {NoRow}, todo: Seq(Keys), flushed: SUBSET Keys,
         old: Progress \cup {NoRow}, new: Progress \cup {NoRow},
         source: {"user", "operator"}]

Resting == [op |-> "none", pc |-> "idle", user |-> Null, scheme |-> Null, row |-> 0, key |-> Null,
            item |-> NoRow, todo |-> <<>>, flushed |-> {},
            old |-> NoRow, new |-> NoRow, source |-> "user"]

ServicesTypeOK ==
    /\ TypeOK
    /\ saved \in [Users -> [Schemes -> Nat]]
    /\ jobs \in [Users -> [JobKinds -> Nat]]
    /\ items \in [Users -> [Docs -> ItemStatuses \cup {NoRow}]]
    /\ events \in [Keys -> Event \cup {NoRow}]
    /\ effects \in [Keys -> Nat]
    /\ application \in [Users -> Progress \cup {NoRow}]
    /\ history \in [Users -> Seq(Change)]
    /\ calls \in [Calls -> Call]

NoServicesYet ==
    /\ saved = [u \in Users |-> [s \in Schemes |-> 0]]
    /\ jobs = [u \in Users |-> [k \in JobKinds |-> 0]]
    /\ items = [u \in Users |-> [d \in Docs |-> NoRow]]
    /\ events = [k \in Keys |-> NoRow]
    /\ effects = [k \in Keys |-> 0]
    /\ application = [u \in Users |-> NoRow]
    /\ history = [u \in Users |-> <<>>]
    /\ calls = [r \in Calls |-> Resting]

ServicesInit == Init /\ NoServicesYet

-----------------------------------------------------------------------------

Doing(r, op, pc) == calls[r].op = op /\ calls[r].pc = pc
GoOn(r, q) == calls' = [calls EXCEPT ![r] = q]
Answered(r) == GoOn(r, Resting)

\* The uncommitted rows of another handler's batch: an INSERT of one of their keys waits.
FreeKey(r, k) == \A x \in Calls \ {r} : k \notin calls[x].flushed

\* An ApiError, a refused INSERT, a cancelled request or a crash.
Abandon(r) ==
    /\ calls[r].pc # "idle"
    /\ Answered(r)
    /\ UNCHANGED serviceTables

-----------------------------------------------------------------------------
(* save_scheme and delete_saved_scheme.  A scheme found saved keeps its      *)
(* reminder, and nothing is written.                                         *)

SaveRead(r, u, s) ==
    /\ calls[r].pc = "idle" /\ Active(u)
    /\ saved[u][s] = 0
    /\ GoOn(r, [Resting EXCEPT !.op = "save", !.pc = "commit", !.user = u, !.scheme = s])
    /\ UNCHANGED serviceTables

\* Faulty variant of Unsaved: uq_saved_scheme is missing.
SavedTwice(u, s) == TRUE

\* uq_saved_scheme lets the row in.
Unsaved(u, s) == saved[u][s] = 0

SaveCommit(r) ==
    LET u == calls[r].user s == calls[r].scheme IN
    /\ Doing(r, "save", "commit")
    /\ Unsaved(u, s)
    /\ jobs' = [jobs EXCEPT ![u][s] = @ + 1]
    /\ saved' = [saved EXCEPT ![u][s] = jobs'[u][s]]
    /\ Answered(r)
    /\ UNCHANGED <<items, events, effects, application, history>>

SaveConflict(r) ==
    /\ Doing(r, "save", "commit")
    /\ ~Unsaved(calls[r].user, calls[r].scheme)
    /\ Answered(r)
    /\ UNCHANGED serviceTables

UnsaveRead(r, u, s) ==
    /\ calls[r].pc = "idle" /\ Active(u)
    /\ saved[u][s] # 0
    /\ GoOn(r, [Resting EXCEPT !.op = "unsave", !.pc = "commit", !.user = u, !.scheme = s,
                               !.row = saved[u][s]])
    /\ UNCHANGED serviceTables

\* DELETE by primary key: a row saved since the read stays, and so does the job.
UnsaveCommit(r) ==
    LET q == calls[r] IN
    /\ Doing(r, "unsave", "commit")
    /\ saved' = [saved EXCEPT ![q.user][q.scheme] = IF @ = q.row THEN 0 ELSE @]
    /\ Answered(r)
    /\ UNCHANGED <<jobs, items, events, effects, application, history>>

-----------------------------------------------------------------------------
(* update_checklist: the change and its key in one transaction.  A key that  *)
(* is stored already answers with the list as it is.                         *)

ChecklistRead(r, u, k) ==
    /\ calls[r].pc = "idle" /\ Active(u)
    /\ events[k] = NoRow
    /\ GoOn(r, [Resting EXCEPT !.op = "checklist", !.pc = "item", !.user = u, !.key = k])
    /\ UNCHANGED serviceTables

ChecklistItem(r) ==
    LET q == calls[r] IN
    /\ Doing(r, "checklist", "item")
    /\ GoOn(r, [q EXCEPT !.pc = "commit", !.item = items[q.user][ChangeOf[q.key].doc]])
    /\ UNCHANGED serviceTables

\* Faulty variant of ChecklistAccepted: the key is not unique.
KeyNotUnique(q) == q.item = NoRow => items[q.user][ChangeOf[q.key].doc] = NoRow

\* uq_checklist_item and uq_offline_sync_idempotency.
ChecklistAccepted(q) ==
    /\ q.item = NoRow => items[q.user][ChangeOf[q.key].doc] = NoRow
    /\ events[q.key] = NoRow

ChecklistCommit(r) ==
    LET q == calls[r] change == ChangeOf[q.key] IN
    /\ Doing(r, "checklist", "commit") /\ FreeKey(r, q.key)
    /\ ChecklistAccepted(q)
    /\ items' = [items EXCEPT ![q.user][change.doc] = IF q.item = change.status THEN @ ELSE change.status]
    /\ events' = [events EXCEPT ![q.key] = "patch"]
    /\ effects' = [effects EXCEPT ![q.key] = @ + 1]
    /\ Answered(r)
    /\ UNCHANGED <<saved, jobs, application, history>>

ChecklistConflict(r) ==
    /\ Doing(r, "checklist", "commit") /\ FreeKey(r, calls[r].key)
    /\ ~ChecklistAccepted(calls[r])
    /\ Answered(r)
    /\ UNCHANGED serviceTables

-----------------------------------------------------------------------------
(* process_offline_sync: the actions of a batch are recorded, in one         *)
(* transaction; their payload is stored and never applied.                   *)

SyncStart(r, u, batch) ==
    /\ calls[r].pc = "idle" /\ Active(u)
    /\ GoOn(r, [Resting EXCEPT !.op = "sync", !.pc = "batch", !.user = u, !.todo = batch])
    /\ UNCHANGED serviceTables

\* Faulty variant of FlushedKeys: a duplicate is inserted too.
FlushedDuplicates(q) == q.flushed \cup {q.key}

\* The key of the action before, if it was new, goes into the table with this query.
FlushedKeys(q) == IF q.key = Null THEN q.flushed ELSE q.flushed \cup {q.key}

\* The INSERT that is due is not held up, and is not refused.
Insertable(r) == calls[r].key # Null =>
                    FreeKey(r, calls[r].key) /\ events[calls[r].key] = NoRow

\* Faulty variant of Remaining: an action that is stored already is tried again.
RemainingUnlessStored(q) == IF events[Head(q.todo)] # NoRow THEN q.todo ELSE Tail(q.todo)

\* The actions after this one, a duplicate or not.
Remaining(q) == Tail(q.todo)

SyncNext(r) ==
    LET q == calls[r] k == Head(q.todo) IN
    /\ Doing(r, "sync", "batch") /\ q.todo # <<>>
    /\ Insertable(r)
    /\ GoOn(r, [q EXCEPT !.todo = Remaining(q), !.flushed = FlushedKeys(q),
                         !.key = IF events[k] # NoRow \/ k \in FlushedKeys(q) THEN Null ELSE k])
    /\ UNCHANGED serviceTables

SyncCommit(r) ==
    LET q == calls[r] IN
    /\ Doing(r, "sync", "batch") /\ q.todo = <<>>
    /\ Insertable(r)
    /\ events' = [k \in Keys |-> IF k \in FlushedKeys(q) THEN "sync" ELSE events[k]]
    /\ Answered(r)
    /\ UNCHANGED <<saved, jobs, items, effects, application, history>>

\* uq_offline_sync_idempotency refuses one action, and with it the whole batch.
SyncConflict(r) ==
    LET q == calls[r] IN
    /\ Doing(r, "sync", "batch")
    /\ q.key # Null /\ FreeKey(r, q.key) /\ events[q.key] # NoRow
    /\ Answered(r)
    /\ UNCHANGED serviceTables

\* x waits for the transaction of y to decide about a key.
Waits(x, y) == /\ x # y
               /\ calls[x].key \in calls[y].flushed
               /\ calls[x].pc \in {"batch", "commit"}

\* r is in a circle of such waits.
Deadlocked(r) ==
    \E S \in SUBSET Calls :
        r \in S /\ \A x \in S : (\E y \in S : Waits(x, y)) /\ \E y \in S : Waits(y, x)

\* Two batches that hold a key of each other: the database rolls one back.
DeadlockAbort(r) ==
    /\ Deadlocked(r)
    /\ Answered(r)
    /\ UNCHANGED serviceTables

-----------------------------------------------------------------------------
(* update_application_status, the citizen's and the operator's.              *)

\* The citizen's request opens the row if there is none.  The operator's names a row, so it
\* exists; that operators see it at all needs a beneficiary with the citizen's profile.
StatusRead(r, u, new, source) ==
    /\ calls[r].pc = "idle"
    /\ IF source = "user" THEN Active(u) ELSE application[u] # NoRow
    /\ GoOn(r, [Resting EXCEPT !.op = "status", !.pc = "commit", !.user = u, !.old = application[u],
                               !.new = new, !.source = source])
    /\ UNCHANGED serviceTables

\* Faulty variant of NewStatus: the column is written whatever was loaded.
WrittenAnyway(q, current) == q.new

\* INSERT, or UPDATE of the column if it differs from the one loaded.
NewStatus(q, current) == IF q.new = q.old THEN current ELSE q.new

\* Faulty variant of OpenOrKnown: uq_application_status is missing.
OpenAnyway(q) == TRUE

\* uq_application_status: a row that was not there is still not there.
OpenOrKnown(q) == q.old = NoRow => application[q.user] = NoRow

StatusCommit(r) ==
    LET q == calls[r] u == q.user IN
    /\ Doing(r, "status", "commit")
    /\ OpenOrKnown(q)
    /\ application' = [application EXCEPT ![u] = NewStatus(q, @)]
    /\ history' = [history EXCEPT ![u] = Append(@, [old |-> q.old, new |-> q.new, source |-> q.source])]
    /\ jobs' = IF q.source = "user" /\ q.new = "submitted"
               THEN [jobs EXCEPT ![u][StatusJob] = @ + 1] ELSE jobs
    /\ Answered(r)
    /\ UNCHANGED <<saved, items, events, effects>>

StatusConflict(r) ==
    /\ Doing(r, "status", "commit")
    /\ ~OpenOrKnown(calls[r])
    /\ Answered(r)
    /\ UNCHANGED serviceTables

-----------------------------------------------------------------------------

\* Bound: batches of one or two actions.
Batches == {<<j>> : j \in Keys} \cup {<<j, k>> : j, k \in Keys}

Calling(r) ==
    \/ \E u \in Users, s \in Schemes : SaveRead(r, u, s) \/ UnsaveRead(r, u, s)
    \/ \E u \in Users, k \in Keys : ChecklistRead(r, u, k)
    \/ \E u \in Users, batch \in Batches : SyncStart(r, u, batch)
    \/ \E u \in Users, new \in Progress, source \in {"user", "operator"} :
            StatusRead(r, u, new, source)

Serving(r) ==
    \/ SaveCommit(r) \/ SaveConflict(r) \/ UnsaveCommit(r)
    \/ ChecklistItem(r) \/ ChecklistCommit(r) \/ ChecklistConflict(r)
    \/ SyncNext(r) \/ SyncCommit(r) \/ SyncConflict(r) \/ DeadlockAbort(r)
    \/ StatusCommit(r) \/ StatusConflict(r)

Next ==
    \/ AccountsNext /\ UNCHANGED serviceVars
    \/ \E r \in Calls : (Calling(r) \/ Serving(r) \/ Abandon(r)) /\ UNCHANGED accountVars

\* A handler that can go on does, and the database breaks deadlocks.
Fairness ==
    /\ \A l \in Logins : WF_vars(Continues(l) /\ UNCHANGED serviceVars)
    /\ \A r \in Calls : WF_vars(Serving(r) /\ UNCHANGED accountVars)

Spec == ServicesInit /\ [][Next]_vars
FairSpec == Spec /\ Fairness

-----------------------------------------------------------------------------
(* Properties. *)

\* The tables as a store of changes by key.
Store == INSTANCE ChangeStore WITH
             People <- Users, Items <- Docs, Unlisted <- NoRow, lists <- items,
             recorded <- {k \in Keys : events[k] # NoRow}

\* A checklist change is made at most once however often its request is repeated,
\* overlaps itself or a batch with its key, and only as its key is stored; keys are
\* stored once and for good.  A key that a batch stored first has no effect at all:
\* process_offline_sync applies nothing (services/phase4.py:216-247, 345-358).
ImplementsChangeStore == Store!Spec

\* A scheme's reminder is scheduled exactly when the scheme becomes saved, once per
\* saving, also when two devices save it at once (services/phase4.py:175-213).
RemindersOnlyOnSaving ==
    [][\A u \in Users, s \in Schemes :
          jobs'[u][s] # jobs[u][s] <=> saved[u][s] = 0 /\ saved'[u][s] # 0]_vars

\* One event opens an application, whoever came first (services/phase4.py:278-302).
OpenedOnce ==
    \A u \in Users :
        Cardinality({i \in 1..Len(history[u]) : history[u][i].old = NoRow})
            = IF application[u] = NoRow THEN 0 ELSE 1

\* The status of an application is the one its last recorded change led to.  Events
\* that change nothing do not count: such a commit leaves the column alone, and
\* another's change since its read stays (services/phase4.py:288-296,
\* dashboard/beneficiaries.py:266-276).
HistoryTellsStatus ==
    \A u \in Users : \A i \in DOMAIN history[u] :
        LET e == history[u][i]
        IN  e.old # e.new /\ (\A j \in (i + 1)..Len(history[u]) : history[u][j].old = history[u][j].new)
                => application[u] = e.new

\* Every request ends, batches that lock each other's keys included
\* (services/phase4.py:345-358).
CallsEnd == \A r \in Calls : calls[r].pc # "idle" ~> calls[r].pc = "idle"
=============================================================================
