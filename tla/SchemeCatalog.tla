--------------------------- MODULE SchemeCatalog ---------------------------
(***************************************************************************)
(* The welfare-scheme catalogue: the tables schemes, eligibility_rules,    *)
(* scheme_versions and scheme_drafts, the admin handlers that write them   *)
(* (services/schemes.py, admin_panel/scheme_drafts.py, services/seeds.py), *)
(* the nightly expiry job (services/jobs/expiry_checker.py) and the        *)
(* matcher's read of the active rules.                                     *)
(*                                                                         *)
(* Every handler owns one AsyncSession on a READ COMMITTED database and    *)
(* takes no row lock while it reads.  It is therefore a sequence of steps, *)
(* one per awaited read, that remember what was loaded, and a last step    *)
(* that flushes and commits.  Flush and commit are one step: the first     *)
(* flush takes the row locks and the unique keys, keeps them up to the     *)
(* commit, and nothing is visible to others before.                        *)
(*                                                                         *)
(* Left out: the append-only tables nothing reads back to decide anything  *)
(* (scheme_status_events, the notifications, audit rows other than the     *)
(* "publish" count), and the descriptive columns of a scheme.              *)
(***************************************************************************)
EXTENDS Naturals, FiniteSets

CONSTANTS
    SchemeIds,      \* the values of schemes.id, a primary key over all organisations
    Orgs,           \* organisations
    PublicOrg,      \* the organisation the seeds belong to
    Criteria,       \* rule payloads that pass validate_rule but for the references
    Exclusions,     \* exclusion_scheme_ids of a rule payload
    SeedIds,        \* ids listed in the seed file
    SeedRule,       \* the rule payload of each seed
    Drafts,         \* scheme_drafts.id
    Requests,       \* handlers running at the same time
    Workers,        \* application processes, each with a scheduler
    LastDay,        \* bound: the days are 1..LastDay
    MaxVersion,     \* bound: rule versions per scheme
    Ops,            \* the handlers a run exercises
    NoRow           \* no row with this key

Days == 1..LastDay
Never == LastDay + 1        \* valid_until IS NULL: no day reaches it
Keep == 0                   \* the PATCH body has no valid_until
Untils == 1..Never

Statuses == {"draft", "active", "expired", "archived"}
SchemeRow == [org: Orgs, status: Statuses, is_active: BOOLEAN, valid_until: Untils]
RuleRow == [org: Orgs, scheme: SchemeIds, version: Nat \ {0}, criteria: Criteria, is_active: BOOLEAN]
VersionRow == [org: Orgs, scheme: SchemeIds, version: Nat \ {0}, rule_snapshot: Criteria]
DraftRow == [org: Orgs, status: {"draft", "previewed", "published"},
             scheme: SchemeIds, criteria: Criteria, valid_until: Untils]

AllOps == {"create", "update", "publish", "archive", "preview", "publish_draft", "seed", "match"}
PCs == {"idle", "scheme", "rule", "commit", "serve"}

\* A file whose rules exclude something outside of it is not imported at all:
\* validate_rule is given the ids of the file (services/seeds.py:30, 38).
ASSUME CatalogAssumption ==
    /\ LastDay \in Nat \ {0}
    /\ MaxVersion \in Nat \ {0}
    /\ PublicOrg \in Orgs
    /\ SchemeIds # {}
    /\ SeedIds \subseteq SchemeIds
    /\ SeedRule \in [SeedIds -> Criteria]
    /\ Exclusions \in [Criteria -> SUBSET SchemeIds]
    /\ \A s \in SeedIds : Exclusions[SeedRule[s]] \subseteq SeedIds
    /\ NoRow \notin SchemeRow
    /\ NoRow \notin RuleRow
    /\ NoRow \notin DraftRow
    /\ NoRow \notin Criteria
    /\ NoRow \notin Drafts
    /\ Ops \subseteq AllOps \cup {"draft", "expiry", "tick"}

VARIABLES
    schemes,    \* table schemes, by primary key
    rules,      \* table eligibility_rules
    versions,   \* table scheme_versions
    drafts,     \* table scheme_drafts, by primary key
    published,  \* number of "publish" rows in scheme_audit_logs, by draft
    today,
    reqs,       \* the handlers in progress: what each has loaded so far
    jobs        \* the expiry job of each process

vars == <<schemes, rules, versions, drafts, published, today, reqs, jobs>>
tables == <<schemes, rules, versions, drafts, published>>

\* A handler in progress.  scheme and criteria hold the arguments; loaded is the
\* scheme row of its session, rule the rule row and dstatus the status of the
\* draft, all as they were when they were read.
Request == [op: AllOps \cup {"none"}, pc: PCs, org: Orgs, scheme: SchemeIds,
            criteria: Criteria \cup {NoRow}, valid_until: Untils \cup {Keep},
            publish: BOOLEAN, loaded: SchemeRow \cup {NoRow}, rule: RuleRow \cup {NoRow},
            draft: Drafts \cup {NoRow}, dstatus: {"draft", "previewed", "published"}, todo: SUBSET SchemeIds]

Idle == [op |-> "none", pc |-> "idle", org |-> PublicOrg, scheme |-> CHOOSE s \in SchemeIds : TRUE,
         criteria |-> NoRow, valid_until |-> Keep, publish |-> FALSE, loaded |-> NoRow,
         rule |-> NoRow, draft |-> NoRow, dstatus |-> "draft", todo |-> {}]

Job == [due: SUBSET SchemeIds, running: BOOLEAN]
NoJob == [due |-> {}, running |-> FALSE]

TypeOK ==
    /\ schemes \in [SchemeIds -> SchemeRow \cup {NoRow}]
    /\ rules \subseteq RuleRow
    /\ versions \subseteq VersionRow
    /\ drafts \in [Drafts -> DraftRow \cup {NoRow}]
    /\ published \in [Drafts -> Nat]
    /\ today \in Days
    /\ reqs \in [Requests -> Request]
    /\ jobs \in [Workers -> Job]

Init ==
    /\ schemes = [s \in SchemeIds |-> NoRow]
    /\ rules = {}
    /\ versions = {}
    /\ drafts = [d \in Drafts |-> NoRow]
    /\ published = [d \in Drafts |-> 0]
    /\ today = 1
    /\ reqs = [r \in Requests |-> Idle]
    /\ jobs = [w \in Workers |-> NoJob]

-----------------------------------------------------------------------------
(* Queries. *)

\* Faulty variant of RulesOf: the query forgets the organisation.
RulesOfAnyOrg(o, s) == {r \in rules : r.scheme = s}

RulesOf(o, s) == {r \in rules : r.org = o /\ r.scheme = s}

ActiveRules(o, s) == {r \in RulesOf(o, s) : r.is_active}

\* ORDER BY version DESC LIMIT 1 over the rows the caller selected.
Newest(rows) == CHOOSE r \in rows : \A q \in rows : q.version <= r.version

known_scheme_ids(o) == {s \in SchemeIds : schemes[s] # NoRow /\ schemes[s].org = o}

\* Faulty variant of ValidRule: a rule may exclude its own scheme.
ValidRuleWithSelf(o, s, c) == Exclusions[c] \subseteq known_scheme_ids(o)

\* validate_rule with the scheme's own id taken out of the known ids.
ValidRule(o, s, c) == Exclusions[c] \subseteq known_scheme_ids(o) \ {s}

\* db.get(Scheme, id) followed by the organisation check.
OwnScheme(o, s) == schemes[s] # NoRow /\ schemes[s].org = o

\* Faulty variant of VersionTaken: no unique constraint.
VersionNeverTaken(o, s, v) == FALSE

\* UNIQUE (organisation_id, scheme_id, version), on both tables.
VersionTaken(o, s, v) == \E h \in versions \cup rules : h.org = o /\ h.scheme = s /\ h.version = v

\* What the ORM's UPDATE leaves in a column: only an attribute that differs from
\* the loaded value is written.
Flushed(new, loaded, current) == IF new # loaded THEN new ELSE current

\* Faulty variant of Patched: fields absent from the body are written too.
PatchedBlindly(value, current) == value

\* A PATCH leaves alone the field its body does not have.
Patched(value, current) == IF value = Keep THEN current ELSE value

\* The scheme row after the session that loaded row l commits row n over row c.
OrmUpdate(n, l, c) ==
    [c EXCEPT !.status = Flushed(n.status, l.status, c.status),
              !.is_active = Flushed(n.is_active, l.is_active, c.is_active),
              !.valid_until = Flushed(n.valid_until, l.valid_until, c.valid_until)]

NewRule(o, s, v, c) == [org |-> o, scheme |-> s, version |-> v, criteria |-> c, is_active |-> TRUE]

\* Faulty variants of Supersede: the UPDATE is missing; it runs after the INSERT.
SupersedeNothing(o, s, v, c) == rules \cup {NewRule(o, s, v, c)}

SupersedeAfterInsert(o, s, v, c) ==
    {IF r.org = o /\ r.scheme = s THEN [r EXCEPT !.is_active = FALSE] ELSE r
        : r \in rules \cup {NewRule(o, s, v, c)}}

\* UPDATE eligibility_rules SET is_active = false WHERE org and scheme, then the
\* INSERT of the new version as the active one.
Supersede(o, s, v, c) ==
    {IF r.org = o /\ r.scheme = s THEN [r EXCEPT !.is_active = FALSE] ELSE r : r \in rules}
        \cup {NewRule(o, s, v, c)}

\* The version row that keeps the rule being replaced.
Snapshot(o, s, v, c) == [org |-> o, scheme |-> s, version |-> v, rule_snapshot |-> c]

At(r, op, pc) == reqs[r].op = op /\ reqs[r].pc = pc
Done(r) == reqs' = [reqs EXCEPT ![r] = Idle]

\* A handler fails (an ApiError, a unique key found taken at flush, a cancelled
\* request, a crash of the process): its session closes without a commit.
Rollback(r) ==
    /\ reqs[r].pc # "idle"
    /\ Done(r)
    /\ UNCHANGED <<tables, today, jobs>>

-----------------------------------------------------------------------------
(* services/schemes.py: the admin API and the command line. *)

CreateCheck(r) ==
    /\ "create" \in Ops /\ reqs[r].pc = "idle"
    /\ \E o \in Orgs, s \in SchemeIds, c \in Criteria, u \in Untils :
        /\ schemes[s] = NoRow
        /\ ValidRule(o, s, c)
        /\ reqs' = [reqs EXCEPT ![r] = [Idle EXCEPT !.op = "create", !.pc = "commit", !.org = o,
                                            !.scheme = s, !.criteria = c, !.valid_until = u]]
    /\ UNCHANGED <<tables, today, jobs>>

CreateCommit(r) ==
    LET q == reqs[r] IN
    /\ At(r, "create", "commit")
    /\ schemes[q.scheme] = NoRow
    /\ schemes' = [schemes EXCEPT ![q.scheme] =
            [org |-> q.org, status |-> "draft", is_active |-> FALSE, valid_until |-> q.valid_until]]
    /\ rules' = rules \cup {NewRule(q.org, q.scheme, 1, q.criteria)}
    /\ Done(r)
    /\ UNCHANGED <<versions, drafts, published, today, jobs>>

\* A NoRow criteria stands for a PATCH body without eligibility_rule.
UpdateReadScheme(r) ==
    /\ "update" \in Ops /\ reqs[r].pc = "idle"
    /\ \E o \in Orgs, s \in SchemeIds, c \in Criteria \cup {NoRow}, u \in Days \cup {Keep}, p \in BOOLEAN :
        /\ OwnScheme(o, s)
        /\ reqs' = [reqs EXCEPT ![r] = [Idle EXCEPT !.op = "update", !.pc = "rule", !.org = o, !.scheme = s,
                                            !.criteria = c, !.valid_until = u, !.publish = p,
                                            !.loaded = schemes[s]]]
    /\ UNCHANGED <<tables, today, jobs>>

UpdateReadRule(r) ==
    LET q == reqs[r]
        rule == Newest(RulesOf(q.org, q.scheme))
        merged == IF q.criteria = NoRow THEN rule.criteria ELSE q.criteria IN
    /\ At(r, "update", "rule")
    /\ RulesOf(q.org, q.scheme) # {}
    /\ rule.version < MaxVersion
    /\ ValidRule(q.org, q.scheme, merged)
    /\ reqs' = [reqs EXCEPT ![r] = [q EXCEPT !.pc = "commit", !.rule = rule, !.criteria = merged]]
    /\ UNCHANGED <<tables, today, jobs>>

UpdateCommit(r) ==
    LET q == reqs[r]
        new == [q.loaded EXCEPT !.status = IF q.publish THEN "active" ELSE "draft",
                                !.is_active = q.publish,
                                !.valid_until = Patched(q.valid_until, @)] IN
    /\ At(r, "update", "commit")
    /\ ~VersionTaken(q.org, q.scheme, q.rule.version + 1)
    /\ versions' = versions \cup {Snapshot(q.org, q.scheme, q.rule.version + 1, q.rule.criteria)}
    /\ schemes' = [schemes EXCEPT ![q.scheme] = OrmUpdate(new, q.loaded, @)]
    /\ rules' = Supersede(q.org, q.scheme, q.rule.version + 1, q.criteria)
    /\ Done(r)
    /\ UNCHANGED <<drafts, published, today, jobs>>

\* publish_scheme and archive_scheme differ in the row they write.
StatusReadScheme(r, op) ==
    /\ op \in Ops /\ reqs[r].pc = "idle"
    /\ \E o \in Orgs, s \in SchemeIds :
        /\ OwnScheme(o, s)
        /\ reqs' = [reqs EXCEPT ![r] = [Idle EXCEPT !.op = op, !.pc = "commit", !.org = o,
                                            !.scheme = s, !.loaded = schemes[s]]]
    /\ UNCHANGED <<tables, today, jobs>>

PublishCommit(r) ==
    LET q == reqs[r] IN
    /\ At(r, "publish", "commit")
    /\ ActiveRules(q.org, q.scheme) # {}
    /\ schemes' = [schemes EXCEPT ![q.scheme] =
            OrmUpdate([q.loaded EXCEPT !.status = "active", !.is_active = TRUE], q.loaded, @)]
    /\ Done(r)
    /\ UNCHANGED <<rules, versions, drafts, published, today, jobs>>

ArchiveCommit(r) ==
    LET q == reqs[r] IN
    /\ At(r, "archive", "commit")
    /\ RulesOf(q.org, q.scheme) # {}
    /\ schemes' = [schemes EXCEPT ![q.scheme] =
            OrmUpdate([q.loaded EXCEPT !.status = "archived", !.is_active = FALSE], q.loaded, @)]
    /\ Done(r)
    /\ UNCHANGED <<rules, versions, drafts, published, today, jobs>>

-----------------------------------------------------------------------------
(* admin_panel/scheme_drafts.py. *)

\* One step: the insert depends on nothing that can change after it is read.
CreateDraft(d) ==
    /\ "draft" \in Ops
    /\ drafts[d] = NoRow
    /\ \E o \in Orgs, s \in SchemeIds, c \in Criteria, u \in Untils :
        /\ ValidRule(o, s, c)
        /\ drafts' = [drafts EXCEPT ![d] = [org |-> o, status |-> "draft", scheme |-> s,
                                            criteria |-> c, valid_until |-> u]]
    /\ UNCHANGED <<schemes, rules, versions, published, today, reqs, jobs>>

\* Neither the validation nor the status found stops a preview.
PreviewRead(r) ==
    /\ "preview" \in Ops /\ reqs[r].pc = "idle"
    /\ \E d \in Drafts :
        /\ drafts[d] # NoRow
        /\ reqs' = [reqs EXCEPT ![r] = [Idle EXCEPT !.op = "preview", !.pc = "commit",
                                            !.draft = d, !.dstatus = drafts[d].status]]
    /\ UNCHANGED <<tables, today, jobs>>

PreviewCommit(r) ==
    LET q == reqs[r] IN
    /\ At(r, "preview", "commit")
    /\ drafts' = [drafts EXCEPT ![q.draft].status = Flushed("previewed", q.dstatus, @)]
    /\ Done(r)
    /\ UNCHANGED <<schemes, rules, versions, published, today, jobs>>

PublishDraftReadDraft(r) ==
    /\ "publish_draft" \in Ops /\ reqs[r].pc = "idle"
    /\ \E d \in Drafts :
        LET row == drafts[d] IN
        /\ row # NoRow
        /\ row.status # "published"
        /\ ValidRule(row.org, row.scheme, row.criteria)
        /\ reqs' = [reqs EXCEPT ![r] = [Idle EXCEPT !.op = "publish_draft", !.pc = "scheme", !.org = row.org,
                                            !.scheme = row.scheme, !.criteria = row.criteria,
                                            !.valid_until = row.valid_until, !.draft = d,
                                            !.dstatus = row.status]]
    /\ UNCHANGED <<tables, today, jobs>>

\* db.get(Scheme, id): whichever organisation owns the row.
PublishDraftReadScheme(r) ==
    LET q == reqs[r] IN
    /\ At(r, "publish_draft", "scheme")
    /\ reqs' = [reqs EXCEPT ![r] = [q EXCEPT !.pc = IF schemes[q.scheme] = NoRow THEN "commit" ELSE "rule",
                                             !.loaded = schemes[q.scheme]]]
    /\ UNCHANGED <<tables, today, jobs>>

\* latest_rule looks in the actor's organisation: 404 for somebody else's scheme.
PublishDraftReadRule(r) ==
    LET q == reqs[r]
        rule == Newest(RulesOf(q.org, q.scheme)) IN
    /\ At(r, "publish_draft", "rule")
    /\ RulesOf(q.org, q.scheme) # {}
    /\ rule.version < MaxVersion
    /\ reqs' = [reqs EXCEPT ![r] = [q EXCEPT !.pc = "commit", !.rule = rule]]
    /\ UNCHANGED <<tables, today, jobs>>

PublishedDraft(q) ==
    /\ drafts' = [drafts EXCEPT ![q.draft].status = Flushed("published", q.dstatus, @)]
    /\ published' = [published EXCEPT ![q.draft] = @ + 1]

PublishDraftInsert(r) ==
    LET q == reqs[r] IN
    /\ At(r, "publish_draft", "commit")
    /\ q.loaded = NoRow
    /\ schemes[q.scheme] = NoRow
    /\ schemes' = [schemes EXCEPT ![q.scheme] =
            [org |-> q.org, status |-> "active", is_active |-> TRUE, valid_until |-> q.valid_until]]
    /\ rules' = rules \cup {NewRule(q.org, q.scheme, 1, q.criteria)}
    /\ PublishedDraft(q)
    /\ Done(r)
    /\ UNCHANGED <<versions, today, jobs>>

PublishDraftUpdate(r) ==
    LET q == reqs[r]
        new == [q.loaded EXCEPT !.status = "active", !.is_active = TRUE, !.valid_until = q.valid_until] IN
    /\ At(r, "publish_draft", "commit")
    /\ q.loaded # NoRow
    /\ ~VersionTaken(q.org, q.scheme, q.rule.version + 1)
    /\ versions' = versions \cup {Snapshot(q.org, q.scheme, q.rule.version + 1, q.rule.criteria)}
    /\ schemes' = [schemes EXCEPT ![q.scheme] = OrmUpdate(new, q.loaded, @)]
    /\ rules' = Supersede(q.org, q.scheme, q.rule.version + 1, q.criteria)
    /\ PublishedDraft(q)
    /\ Done(r)
    /\ UNCHANGED <<today, jobs>>

-----------------------------------------------------------------------------
(* services/seeds.py: every missing seed is added in one transaction.  An id  *)
(* counts as present whoever owns it, and what a seed excludes was checked    *)
(* against the file, not against the organisation.                           *)

SeedScan(r) ==
    /\ "seed" \in Ops /\ reqs[r].pc = "idle"
    /\ reqs' = [reqs EXCEPT ![r] = [Idle EXCEPT !.op = "seed", !.pc = "commit",
                                        !.todo = {s \in SeedIds : schemes[s] = NoRow}]]
    /\ UNCHANGED <<tables, today, jobs>>

SeedCommit(r) ==
    LET q == reqs[r] IN
    /\ At(r, "seed", "commit")
    /\ \A s \in q.todo : schemes[s] = NoRow
    /\ schemes' = [s \in SchemeIds |-> IF s \in q.todo
                        THEN [org |-> PublicOrg, status |-> "active", is_active |-> TRUE, valid_until |-> Never]
                        ELSE schemes[s]]
    /\ rules' = rules \cup {NewRule(PublicOrg, s, 1, SeedRule[s]) : s \in q.todo}
    /\ Done(r)
    /\ UNCHANGED <<versions, drafts, published, today, jobs>>

-----------------------------------------------------------------------------
(* services/jobs: the nightly run of each process. *)

Overdue(s) == schemes[s] # NoRow /\ schemes[s].valid_until < today

\* Faulty variant of Due: only the schemes whose last day was yesterday.
DueSinceYesterday(s) ==
    /\ schemes[s] # NoRow /\ schemes[s].valid_until + 1 = today
    /\ schemes[s].status # "expired" /\ schemes[s].is_active

Due(s) == Overdue(s) /\ schemes[s].status # "expired" /\ schemes[s].is_active

JobScan(w) ==
    /\ "expiry" \in Ops
    /\ ~jobs[w].running
    /\ jobs' = [jobs EXCEPT ![w] = [running |-> TRUE, due |-> {s \in SchemeIds : Due(s)}]]
    /\ UNCHANGED <<tables, today, reqs>>

\* Both columns differ from what was loaded, so both are written.
JobCommit(w) ==
    /\ jobs[w].running
    /\ schemes' = [s \in SchemeIds |-> IF s \in jobs[w].due
                        THEN [schemes[s] EXCEPT !.status = "expired", !.is_active = FALSE]
                        ELSE schemes[s]]
    /\ jobs' = [jobs EXCEPT ![w] = NoJob]
    /\ UNCHANGED <<rules, versions, drafts, published, today, reqs>>

JobCrash(w) ==
    /\ jobs[w].running
    /\ jobs' = [jobs EXCEPT ![w] = NoJob]
    /\ UNCHANGED <<tables, today, reqs>>

-----------------------------------------------------------------------------
(* active_scheme_rules and active_scheme_rules_for_ids: one query for the   *)
(* schemes, then one per scheme for its rule.                               *)

Served(s) ==
    /\ schemes[s].is_active
    /\ schemes[s].status = "active"
    /\ ~Overdue(s)

MatchScan(r) ==
    /\ "match" \in Ops /\ reqs[r].pc = "idle"
    /\ \E o \in Orgs, ids \in SUBSET SchemeIds :
         reqs' = [reqs EXCEPT ![r] = [Idle EXCEPT !.op = "match", !.pc = "serve", !.org = o,
                                         !.todo = {s \in ids : OwnScheme(o, s) /\ Served(s)}]]
    /\ UNCHANGED <<tables, today, jobs>>

MatchRule(r) ==
    LET q == reqs[r] IN
    /\ At(r, "match", "serve")
    /\ \E s \in q.todo :
        /\ ActiveRules(q.org, s) # {}
        /\ reqs' = [reqs EXCEPT ![r].todo = @ \ {s}]
    /\ UNCHANGED <<tables, today, jobs>>

MatchDone(r) ==
    /\ At(r, "match", "serve")
    /\ reqs[r].todo = {}
    /\ Done(r)
    /\ UNCHANGED <<tables, today, jobs>>

-----------------------------------------------------------------------------

Tick ==
    /\ "tick" \in Ops
    /\ today < LastDay
    /\ today' = today + 1
    /\ UNCHANGED <<tables, reqs, jobs>>

Handler(r) ==
    \/ CreateCheck(r) \/ CreateCommit(r)
    \/ UpdateReadScheme(r) \/ UpdateReadRule(r) \/ UpdateCommit(r)
    \/ StatusReadScheme(r, "publish") \/ PublishCommit(r)
    \/ StatusReadScheme(r, "archive") \/ ArchiveCommit(r)
    \/ PreviewRead(r) \/ PreviewCommit(r)
    \/ PublishDraftReadDraft(r) \/ PublishDraftReadScheme(r) \/ PublishDraftReadRule(r)
    \/ PublishDraftInsert(r) \/ PublishDraftUpdate(r)
    \/ SeedScan(r) \/ SeedCommit(r)
    \/ MatchScan(r) \/ MatchRule(r) \/ MatchDone(r)
    \/ Rollback(r)

Next ==
    \/ \E r \in Requests : Handler(r)
    \/ \E d \in Drafts : CreateDraft(d)
    \/ \E w \in Workers : JobScan(w) \/ JobCommit(w) \/ JobCrash(w)
    \/ Tick

Spec == Init /\ [][Next]_vars

\* The cron trigger fires every day, beyond LastDay as well, and a run that
\* crashes is not the fate of every run.
FairSpec == Spec /\ \A w \in Workers : WF_vars(JobScan(w)) /\ SF_vars(JobCommit(w))

-----------------------------------------------------------------------------
(* Properties. *)

\* Every scheme row has exactly one active rule, and it is the newest one,
\* whatever create, update, publish-draft and seed handlers overlap
\* (services/schemes.py:129, scheme_drafts.py:147: deactivate all, insert one).
OneActiveRule ==
    \A s \in SchemeIds : schemes[s] # NoRow =>
        \E r \in RulesOf(schemes[s].org, s) :
            /\ r.is_active
            /\ \A q \in RulesOf(schemes[s].org, s) : q.version <= r.version /\ (q.is_active => q = r)

\* The rule history loses nothing: the versions of a scheme are numbered without
\* gaps or repetitions, and every superseded rule is in the version row that
\* its successor wrote (services/schemes.py:98-108).
HistoryComplete ==
    \A r \in rules :
        /\ \A q \in rules : q.scheme = r.scheme /\ q.version = r.version => q = r
        /\ r.version > 1 => \E q \in rules, h \in versions :
                /\ q.scheme = r.scheme /\ q.version = r.version - 1
                /\ h.scheme = r.scheme /\ h.version = r.version /\ h.rule_snapshot = q.criteria
                /\ \A g \in versions : g.scheme = h.scheme /\ g.version = h.version => g = h

\* A match in progress never meets RULE_NOT_FOUND: a scheme it selected still
\* has an active rule when latest_rule asks for it, one query later
\* (services/schemes.py:252-254); the 404 would fail the whole match.
MatchAlwaysAnswers ==
    \A r \in Requests : reqs[r].op = "match" =>
        \A s \in reqs[r].todo : ActiveRules(reqs[r].org, s) # {}

\* The first rule of a seed, as the file has it.
SeedWritten(r) ==
    r.org = PublicOrg /\ r.version = 1 /\ r.scheme \in SeedIds /\ r.criteria = SeedRule[r.scheme]

\* The exclusions of a stored rule name schemes that exist, and those of a rule an admin
\* wrote other schemes of its organisation, though they were checked when the handler
\* began (services/schemes.py:59-60, 96-97, scheme_drafts.py:35-37, validation.py:46-54).
\* Of the rules of the seeds the second is not true: a seed that excludes an id another
\* organisation has taken is stored with it (services/seeds.py:34-38), against
\* docs/prd/phase-1-foundation-eligibility-engine.md:96, "Rule validation must reject
\* `exclusion_scheme_ids` that do not exist in the same `organisation_id`".
NoDanglingExclusion ==
    \A r \in rules :
        /\ \A s \in Exclusions[r.criteria] : schemes[s] # NoRow
        /\ ~SeedWritten(r) => Exclusions[r.criteria] \subseteq known_scheme_ids(r.org) \ {r.scheme}

\* Only handlers of the organisation that owns a scheme, and the expiry job,
\* change its row or its rules.  publish_scheme_draft loads the scheme by its
\* global key and relies on latest_rule to refuse (scheme_drafts.py:112, 140).
ForeignSchemeUntouched ==
    [][\A s \in SchemeIds :
        /\ schemes[s] # NoRow
        /\ \/ schemes'[s] # schemes[s]
           \/ {r \in rules : r.scheme = s} # {r \in rules' : r.scheme = s}
        => \/ jobs' # jobs
           \/ \E r \in Requests : reqs[r].org = schemes[s].org /\ reqs'[r] # reqs[r]]_vars

\* An active scheme past its validity is retired, or renewed, in the end
\* (jobs/expiry_checker.py:16-65), also when days go by without a run, runs
\* crash, and admins keep writing the same rows.  The matcher checks the date
\* itself; search and the schemes guide rely on this.
ExpiredRetired ==
    \A s \in SchemeIds :
        LET overstays == Overdue(s) /\ schemes[s].is_active /\ schemes[s].status = "active"
        IN  overstays ~> ~overstays

\* docs/prd/phase-1-foundation-eligibility-engine.md:28: the job marks schemes
\* with valid_until < current_date as expired, hence no others.
ExpiredOnlyPastValidity ==
    \A s \in SchemeIds : schemes[s] # NoRow /\ schemes[s].status = "expired" => Overdue(s)

\* docs/reference/error-codes.md:80: DRAFT_ALREADY_PUBLISHED answers the second
\* publication of a draft.
DraftPublishedOnce == \A d \in Drafts : published[d] <= 1

-----------------------------------------------------------------------------
(* The rules of a scheme implement an append-only ledger: version v is the   *)
(* v-th entry, and the entry in force is the active rule's.                  *)

rulesSoFar == [s \in SchemeIds |->
            [v \in {r.version : r \in {q \in rules : q.scheme = s}} |->
                (CHOOSE r \in rules : r.scheme = s /\ r.version = v).criteria]]

activeVersion == [s \in SchemeIds |->
            IF schemes[s] = NoRow THEN 0 ELSE Newest(ActiveRules(schemes[s].org, s)).version]

Ledger == INSTANCE RuleLedger WITH ledger <- rulesSoFar, inforce <- activeVersion,
                                  SchemeIds <- SchemeIds, Criteria <- Criteria

\* Every step of the catalogue appends a rule to the ledgers of schemes or
\* leaves them alone: the handlers implement the append-only history the
\* version numbers promise (services/schemes.py:98-130).
ImplementsLedger == Ledger!Spec
=============================================================================
