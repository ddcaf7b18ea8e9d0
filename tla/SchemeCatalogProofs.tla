------------------------ MODULE SchemeCatalogProofs ------------------------
(***************************************************************************)
(* Theorems about SchemeCatalog for every number of schemes, organisations,*)
(* drafts, handlers and processes, and every bound on versions and days.   *)
(***************************************************************************)
EXTENDS SchemeCatalog, SequenceTheorems, TLAPS

-----------------------------------------------------------------------------
(* The inductive invariant, in three layers. *)

\* What a handler in progress may rely on: the rows it loaded are still there,
\* in the organisation it found them in, because nothing is ever deleted and no
\* row changes its organisation.
Loaded(q) ==
    /\ q.op = "none" <=> q.pc = "idle"
    /\ q.op = "create" => q.pc = "commit" /\ q.criteria \in Criteria /\ q.valid_until \in Untils
    /\ q.op \in {"update", "publish", "archive"} =>
            q.loaded \in SchemeRow /\ OwnScheme(q.org, q.scheme)
    /\ q.op = "update" /\ q.pc = "commit" => q.criteria \in Criteria /\ q.rule \in RuleRow
    /\ q.op = "preview" => q.draft \in Drafts /\ drafts[q.draft] # NoRow
    /\ q.op = "publish_draft" =>
            /\ q.draft \in Drafts /\ drafts[q.draft] # NoRow
            /\ q.criteria \in Criteria /\ q.valid_until \in Untils
            /\ q.pc = "scheme" => q.loaded = NoRow
            /\ q.pc = "rule" => q.loaded # NoRow
            /\ q.loaded # NoRow => schemes[q.scheme] # NoRow
            /\ q.loaded # NoRow /\ q.pc = "commit" => OwnScheme(q.org, q.scheme) /\ q.rule \in RuleRow
    /\ q.op = "seed" => q.todo \subseteq SeedIds
    /\ q.op = "match" => \A s \in q.todo : OwnScheme(q.org, s)

InFlight ==
    /\ \A r \in Requests : Loaded(reqs[r])
    /\ \A w \in Workers : \A s \in jobs[w].due : schemes[s] # NoRow

TypeInv == TypeOK /\ InFlight

\* The rule table: keys, owners, numbering without gaps, one active rule.
RuleOwner == \A r \in rules : OwnScheme(r.org, r.scheme)
RuleKey == \A r, q \in rules : r.scheme = q.scheme /\ r.version = q.version => r = q
NoGaps == \A r \in rules : \A k \in 1..r.version : \E q \in rules : q.scheme = r.scheme /\ q.version = k

\* The version table: each row belongs to the rule that was added with it.
VersionKey == \A g, h \in versions : g.scheme = h.scheme /\ g.version = h.version => g = h
VersionOwner == \A h \in versions : \E r \in rules : r.org = h.org /\ r.scheme = h.scheme /\ r.version = h.version
Chained ==
    \A r \in rules : r.version > 1 => \E q \in rules, h \in versions :
        /\ q.scheme = r.scheme /\ q.version = r.version - 1
        /\ h.scheme = r.scheme /\ h.version = r.version /\ h.rule_snapshot = q.criteria

HistoryInv == VersionKey /\ VersionOwner /\ Chained

\* What the rule and version tables satisfy whatever the handlers in progress are.
Tables == RuleOwner /\ RuleKey /\ NoGaps /\ OneActiveRule /\ HistoryInv /\ NoDanglingExclusion

\* The rule a handler about to add a version read is still stored.
Backed(q) ==
    q.op \in {"update", "publish_draft"} /\ q.pc = "commit" /\ q.loaded # NoRow =>
        \E b \in rules : /\ b.org = q.org /\ b.scheme = q.scheme
                         /\ b.version = q.rule.version /\ b.criteria = q.rule.criteria

\* What a handler about to store a rule checked still holds of that rule; for the seeds,
\* that the ids it leaves out are taken.
Vetted(q) ==
    /\ q.op \in {"create", "publish_draft"} \/ (q.op = "update" /\ q.pc = "commit") =>
            ValidRule(q.org, q.scheme, q.criteria)
    /\ q.op = "seed" => \A s \in SeedIds \ q.todo : schemes[s] # NoRow

Ready == \A r \in Requests : Backed(reqs[r]) /\ Vetted(reqs[r])

CatalogInv == TypeInv /\ Tables /\ Ready

-----------------------------------------------------------------------------
(* Types and loaded rows. *)

LEMMA IdleType == Idle \in Request /\ Idle.op = "none" /\ Idle.pc = "idle"
  BY CatalogAssumption DEF Idle, Request, AllOps, PCs

\* Nothing is deleted and no scheme changes hands.
Kept ==
    /\ \A s \in SchemeIds : schemes[s] # NoRow =>
            schemes'[s] # NoRow /\ schemes'[s].org = schemes[s].org
    /\ \A d \in Drafts : drafts[d] # NoRow => drafts'[d] # NoRow

\* Handlers that do not take the step keep what they rely on.
LEMMA LoadedKept ==
  ASSUME TypeInv, Kept, NEW r \in Requests, reqs'[r] = reqs[r]
  PROVE  Loaded(reqs[r])'
  BY DEF TypeInv, InFlight, TypeOK, Request, Loaded, Kept, OwnScheme

\* A step in which handler r moves to m, the other handlers and the jobs stay.
LEMMA HandlerMoves ==
  ASSUME TypeInv, Kept, NEW r \in Requests, NEW m \in Request,
         reqs' = [reqs EXCEPT ![r] = m], jobs' = jobs,
         m.op # "none" => Loaded(reqs[r])', m.op = "none" => m.pc = "idle"
  PROVE  reqs' \in [Requests -> Request] /\ InFlight'
<1>1. reqs' \in [Requests -> Request]
  BY DEF TypeInv, TypeOK
<1>2. Loaded(reqs[r])'
  <2>1. CASE m.op = "none"
    BY <2>1 DEF Loaded, TypeInv, TypeOK
  <2>2. QED BY <2>1
<1>3. ASSUME NEW x \in Requests PROVE Loaded(reqs[x])'
  <2>1. CASE x = r  BY <2>1, <1>2
  <2>2. CASE x # r  BY <2>2, LoadedKept DEF TypeInv, TypeOK
  <2>3. QED BY <2>1, <2>2
<1>4. \A w \in Workers : \A s \in jobs'[w].due : schemes'[s] # NoRow
  BY DEF TypeInv, InFlight, Kept, TypeOK, Job
<1>5. QED BY <1>1, <1>3, <1>4 DEF InFlight

\* A step that reads: one handler moves, the tables stay.
LEMMA ReadStep ==
  ASSUME TypeInv, NEW r \in Requests, NEW m \in Request,
         reqs' = [reqs EXCEPT ![r] = m], UNCHANGED <<tables, today, jobs>>,
         m.op # "none" => Loaded(reqs[r])', m.op = "none" => m.pc = "idle"
  PROVE  TypeInv'
<1>1. Kept  BY DEF Kept, tables
<1>2. reqs' \in [Requests -> Request] /\ InFlight'  BY <1>1, HandlerMoves
<1>3. QED BY <1>2 DEF TypeInv, TypeOK, tables

\* A step that commits: the tables change, the handler is done.
LEMMA CommitStep ==
  ASSUME TypeInv, Kept, NEW r \in Requests, Done(r), UNCHANGED <<today, jobs>>,
         schemes' \in [SchemeIds -> SchemeRow \cup {NoRow}], rules' \subseteq RuleRow,
         versions' \subseteq VersionRow, drafts' \in [Drafts -> DraftRow \cup {NoRow}],
         published' \in [Drafts -> Nat]
  PROVE  TypeInv'
<1>1. reqs' \in [Requests -> Request] /\ InFlight'
  BY HandlerMoves, IdleType DEF Done
<1>2. QED BY <1>1 DEF TypeInv, TypeOK

\* The newest of the rules a query returns exists: it is the active one.
LEMMA NewestRule ==
  ASSUME TypeInv, RuleOwner, OneActiveRule, NEW o, NEW s, RulesOf(o, s) # {}
  PROVE  /\ Newest(RulesOf(o, s)) \in RulesOf(o, s)
         /\ Newest(RulesOf(o, s)) \in RuleRow
         /\ \A y \in RulesOf(o, s) : y.version <= Newest(RulesOf(o, s)).version
<1>1. OwnScheme(o, s) /\ s \in SchemeIds
  BY DEF RulesOf, RuleOwner, TypeInv, TypeOK, RuleRow
<1>2. \E x \in RulesOf(o, s) : \A y \in RulesOf(o, s) : y.version <= x.version
  BY <1>1 DEF OneActiveRule, OwnScheme
<1>3. /\ Newest(RulesOf(o, s)) \in RulesOf(o, s)
      /\ \A y \in RulesOf(o, s) : y.version <= Newest(RulesOf(o, s)).version
  BY <1>2 DEF Newest
<1>4. QED BY <1>3 DEF RulesOf, TypeInv, TypeOK

\* The handlers that load rows.
LEMMA ReadersTypeInv ==
  ASSUME TypeInv, RuleOwner, OneActiveRule, NEW r \in Requests,
         \/ CreateCheck(r) \/ UpdateReadScheme(r) \/ UpdateReadRule(r)
         \/ StatusReadScheme(r, "publish") \/ StatusReadScheme(r, "archive")
         \/ PreviewRead(r) \/ PublishDraftReadDraft(r) \/ PublishDraftReadScheme(r)
         \/ PublishDraftReadRule(r) \/ SeedScan(r) \/ MatchScan(r) \/ MatchRule(r)
         \/ MatchDone(r) \/ Rollback(r)
  PROVE  TypeInv'
<1>1. CASE CreateCheck(r)
  <2>1. PICK o \in Orgs, s \in SchemeIds, c \in Criteria, u \in Untils :
          reqs' = [reqs EXCEPT ![r] = [Idle EXCEPT !.op = "create", !.pc = "commit", !.org = o,
                                          !.scheme = s, !.criteria = c, !.valid_until = u]]
    BY <1>1 DEF CreateCheck
  <2> DEFINE m == [Idle EXCEPT !.op = "create", !.pc = "commit", !.org = o,
                               !.scheme = s, !.criteria = c, !.valid_until = u]
  <2>2. m \in Request
    BY IdleType DEF Request, Idle, AllOps, PCs
  <2>3. Loaded(reqs[r])'
    BY <2>1, <2>2 DEF Loaded, TypeInv, TypeOK, Idle
  <2>4. QED BY <1>1, <2>1, <2>2, <2>3, ReadStep DEF CreateCheck, Idle
<1>2. CASE UpdateReadScheme(r)
  <2>1. PICK o \in Orgs, s \in SchemeIds, c \in Criteria \cup {NoRow}, u \in Days \cup {Keep}, p \in BOOLEAN :
          /\ OwnScheme(o, s)
          /\ reqs' = [reqs EXCEPT ![r] = [Idle EXCEPT !.op = "update", !.pc = "rule", !.org = o, !.scheme = s,
                                            !.criteria = c, !.valid_until = u, !.publish = p,
                                            !.loaded = schemes[s]]]
    BY <1>2 DEF UpdateReadScheme
  <2> DEFINE m == [Idle EXCEPT !.op = "update", !.pc = "rule", !.org = o, !.scheme = s,
                               !.criteria = c, !.valid_until = u, !.publish = p, !.loaded = schemes[s]]
  <2>2. schemes[s] \in SchemeRow
    BY <2>1 DEF TypeInv, TypeOK, OwnScheme
  <2>3. u \in Untils \cup {Keep}
    BY CatalogAssumption DEF Days, Untils, Never
  <2>4. m \in Request
    BY <2>2, <2>3, IdleType, ZenonT(90) DEF Request, Idle, AllOps, PCs
  <2>5. Loaded(reqs[r])'
    BY <1>2, <2>1, <2>2, <2>4 DEF Loaded, TypeInv, TypeOK, Idle, OwnScheme, UpdateReadScheme, tables
  <2>6. QED BY <1>2, <2>1, <2>4, <2>5, ReadStep DEF UpdateReadScheme, Idle
<1>3. CASE UpdateReadRule(r)
  <2> DEFINE q == reqs[r]
             rule == Newest(RulesOf(q.org, q.scheme))
             merged == IF q.criteria = NoRow THEN rule.criteria ELSE q.criteria
             m == [q EXCEPT !.pc = "commit", !.rule = rule, !.criteria = merged]
  <2>1. reqs' = [reqs EXCEPT ![r] = m] /\ q.op = "update"
    BY <1>3 DEF UpdateReadRule, At
  <2>2. rule \in RuleRow
    BY <1>3, NewestRule DEF UpdateReadRule
  <2>3. q \in Request /\ Loaded(q)
    BY DEF TypeInv, TypeOK, InFlight
  <2>4. merged \in Criteria
    BY <2>2, <2>3 DEF Request, RuleRow
  <2>5. m \in Request /\ m.op = "update" /\ m.pc = "commit" /\ m.org = q.org /\ m.scheme = q.scheme
           /\ m.criteria = merged /\ m.rule = rule /\ m.loaded = q.loaded
    BY <2>1, <2>2, <2>3, <2>4, ZenonT(90) DEF Request, PCs
  <2>6. Loaded(reqs[r])'
    BY <1>3, <2>1, <2>2, <2>3, <2>4, <2>5 DEF Loaded, TypeInv, TypeOK, OwnScheme, UpdateReadRule, tables
  <2>7. QED BY <1>3, <2>1, <2>5, <2>6, ReadStep DEF UpdateReadRule
<1>4. ASSUME NEW op \in {"publish", "archive"}, StatusReadScheme(r, op) PROVE TypeInv'
  <2>1. PICK o \in Orgs, s \in SchemeIds :
          /\ OwnScheme(o, s)
          /\ reqs' = [reqs EXCEPT ![r] = [Idle EXCEPT !.op = op, !.pc = "commit", !.org = o,
                                            !.scheme = s, !.loaded = schemes[s]]]
    BY <1>4 DEF StatusReadScheme
  <2> DEFINE m == [Idle EXCEPT !.op = op, !.pc = "commit", !.org = o, !.scheme = s, !.loaded = schemes[s]]
  <2>2. schemes[s] \in SchemeRow
    BY <2>1 DEF TypeInv, TypeOK, OwnScheme
  <2>3. m \in Request
    BY <2>2, IdleType DEF Request, Idle, AllOps, PCs
  <2>4. Loaded(reqs[r])'
    BY <1>4, <2>1, <2>2, <2>3 DEF Loaded, TypeInv, TypeOK, Idle, OwnScheme, StatusReadScheme, tables
  <2>5. QED BY <1>4, <2>1, <2>3, <2>4, ReadStep DEF StatusReadScheme, Idle
<1>6. CASE PreviewRead(r)
  <2>1. PICK d \in Drafts :
          /\ drafts[d] # NoRow
          /\ reqs' = [reqs EXCEPT ![r] = [Idle EXCEPT !.op = "preview", !.pc = "commit",
                                            !.draft = d, !.dstatus = drafts[d].status]]
    BY <1>6 DEF PreviewRead
  <2> DEFINE m == [Idle EXCEPT !.op = "preview", !.pc = "commit", !.draft = d, !.dstatus = drafts[d].status]
  <2>2. drafts[d] \in DraftRow
    BY <2>1 DEF TypeInv, TypeOK
  <2>3. m \in Request
    BY <2>2, IdleType DEF Request, Idle, AllOps, PCs, DraftRow
  <2>4. Loaded(reqs[r])'
    BY <1>6, <2>1, <2>3 DEF Loaded, TypeInv, TypeOK, Idle, PreviewRead, tables
  <2>5. QED BY <1>6, <2>1, <2>3, <2>4, ReadStep DEF PreviewRead, Idle
<1>7. CASE PublishDraftReadDraft(r)
  <2>1. PICK d \in Drafts :
          /\ drafts[d] # NoRow
          /\ reqs' = [reqs EXCEPT ![r] = [Idle EXCEPT !.op = "publish_draft", !.pc = "scheme", !.org = drafts[d].org,
                                            !.scheme = drafts[d].scheme, !.criteria = drafts[d].criteria,
                                            !.valid_until = drafts[d].valid_until, !.draft = d,
                                            !.dstatus = drafts[d].status]]
    BY <1>7 DEF PublishDraftReadDraft
  <2> DEFINE m == [Idle EXCEPT !.op = "publish_draft", !.pc = "scheme", !.org = drafts[d].org,
                               !.scheme = drafts[d].scheme, !.criteria = drafts[d].criteria,
                               !.valid_until = drafts[d].valid_until, !.draft = d,
                               !.dstatus = drafts[d].status]
  <2>2. drafts[d] \in DraftRow
    BY <2>1 DEF TypeInv, TypeOK
  <2>3. m \in Request
    BY <2>2, IdleType DEF Request, Idle, AllOps, PCs, DraftRow
  <2>4. Loaded(reqs[r])'
    BY <1>7, <2>1, <2>2, <2>3 DEF Loaded, TypeInv, TypeOK, Idle, PublishDraftReadDraft, tables, DraftRow
  <2>5. QED BY <1>7, <2>1, <2>3, <2>4, ReadStep DEF PublishDraftReadDraft, Idle
<1>8. CASE PublishDraftReadScheme(r)
  <2> DEFINE q == reqs[r]
             pc == IF schemes[q.scheme] = NoRow THEN "commit" ELSE "rule"
             m == [q EXCEPT !.pc = pc, !.loaded = schemes[q.scheme]]
  <2>1. reqs' = [reqs EXCEPT ![r] = m] /\ q.op = "publish_draft" /\ q.pc = "scheme"
    BY <1>8 DEF PublishDraftReadScheme, At
  <2>2. q \in Request /\ Loaded(q) /\ schemes[q.scheme] \in SchemeRow \cup {NoRow}
    BY DEF TypeInv, TypeOK, InFlight, Request
  <2>3. m \in Request /\ m.op = "publish_draft" /\ m.pc = pc /\ m.org = q.org /\ m.scheme = q.scheme
           /\ m.criteria = q.criteria /\ m.valid_until = q.valid_until /\ m.draft = q.draft
           /\ m.loaded = schemes[q.scheme]
    BY <2>1, <2>2, ZenonT(90) DEF Request, PCs
  <2>4. Loaded(reqs[r])'
    BY <1>8, <2>1, <2>2, <2>3 DEF Loaded, TypeInv, TypeOK, PublishDraftReadScheme, tables
  <2>5. QED BY <1>8, <2>1, <2>3, <2>4, ReadStep DEF PublishDraftReadScheme
<1>9. CASE PublishDraftReadRule(r)
  <2> DEFINE q == reqs[r]
             rule == Newest(RulesOf(q.org, q.scheme))
             m == [q EXCEPT !.pc = "commit", !.rule = rule]
  <2>1. reqs' = [reqs EXCEPT ![r] = m] /\ q.op = "publish_draft" /\ q.pc = "rule" /\ RulesOf(q.org, q.scheme) # {}
    BY <1>9 DEF PublishDraftReadRule, At
  <2>2. rule \in RuleRow /\ rule \in RulesOf(q.org, q.scheme)
    BY <2>1, NewestRule
  <2>3. OwnScheme(q.org, q.scheme)
    BY <2>2 DEF RulesOf, RuleOwner
  <2>4. q \in Request /\ Loaded(q)
    BY DEF TypeInv, TypeOK, InFlight
  <2>5. m \in Request /\ m.op = "publish_draft" /\ m.pc = "commit" /\ m.org = q.org /\ m.scheme = q.scheme
           /\ m.criteria = q.criteria /\ m.valid_until = q.valid_until /\ m.draft = q.draft
           /\ m.loaded = q.loaded /\ m.rule = rule
    BY <2>1, <2>2, <2>4 DEF Request, PCs
  <2>6. Loaded(reqs[r])'
    BY <1>9, <2>1, <2>2, <2>3, <2>4, <2>5 DEF Loaded, TypeInv, TypeOK, OwnScheme, PublishDraftReadRule, tables
  <2>7. QED BY <1>9, <2>1, <2>5, <2>6, ReadStep DEF PublishDraftReadRule
<1>10. CASE SeedScan(r)
  <2> DEFINE ids == {s \in SeedIds : schemes[s] = NoRow}
             m == [Idle EXCEPT !.op = "seed", !.pc = "commit", !.todo = ids]
  <2>1. reqs' = [reqs EXCEPT ![r] = m]
    BY <1>10 DEF SeedScan
  <2>2. ids \subseteq SchemeIds /\ ids \subseteq SeedIds
    BY CatalogAssumption
  <2> HIDE DEF ids
  <2>3. m \in Request /\ m.op = "seed" /\ m.pc = "commit" /\ m.todo = ids
    BY <2>2, IdleType DEF Request, Idle, AllOps, PCs
  <2>4. reqs'[r] = m
    BY <2>1 DEF TypeInv, TypeOK
  <2> HIDE DEF m
  <2>5. Loaded(reqs[r])'
    BY <2>2, <2>3, <2>4 DEF Loaded
  <2>6. QED BY <1>10, <2>1, <2>3, <2>5, ReadStep DEF SeedScan
<1>11. CASE MatchScan(r)
  <2>1. PICK o \in Orgs, ids \in SUBSET SchemeIds :
          reqs' = [reqs EXCEPT ![r] = [Idle EXCEPT !.op = "match", !.pc = "serve", !.org = o,
                                         !.todo = {s \in ids : OwnScheme(o, s) /\ Served(s)}]]
    BY <1>11 DEF MatchScan
  <2> DEFINE found == {s \in ids : OwnScheme(o, s) /\ Served(s)}
             m == [Idle EXCEPT !.op = "match", !.pc = "serve", !.org = o, !.todo = found]
  <2>2. found \subseteq SchemeIds /\ \A s \in found : OwnScheme(o, s)
    OBVIOUS
  <2> HIDE DEF found
  <2>3. m \in Request
    BY <2>2, IdleType DEF Request, Idle, AllOps, PCs
  <2>4. Loaded(reqs[r])'
    BY <1>11, <2>1, <2>2, <2>3 DEF Loaded, TypeInv, TypeOK, Idle, MatchScan, tables, OwnScheme, found
  <2>5. QED BY <1>11, <2>1, <2>3, <2>4, ReadStep DEF MatchScan, Idle, found
<1>12. CASE MatchRule(r)
  <2> DEFINE q == reqs[r]
  <2>1. PICK s \in q.todo : reqs' = [reqs EXCEPT ![r] = [q EXCEPT !.todo = q.todo \ {s}]]
    BY <1>12 DEF MatchRule
  <2> DEFINE m == [q EXCEPT !.todo = q.todo \ {s}]
  <2>2. q \in Request /\ Loaded(q) /\ q.op = "match" /\ q.pc = "serve"
    BY <1>12 DEF TypeInv, TypeOK, InFlight, MatchRule, At
  <2>3. m \in Request /\ m.op = "match" /\ m.pc = "serve" /\ m.org = q.org /\ m.todo \subseteq q.todo
    BY <2>2 DEF Request
  <2>4. Loaded(reqs[r])'
    BY <1>12, <2>1, <2>2, <2>3 DEF Loaded, TypeInv, TypeOK, OwnScheme, MatchRule, tables
  <2>5. QED BY <1>12, <2>1, <2>3, <2>4, ReadStep DEF MatchRule
<1>13. CASE MatchDone(r)
  BY <1>13, IdleType, ReadStep DEF MatchDone, Done
<1>14. CASE Rollback(r)
  BY <1>14, IdleType, ReadStep DEF Rollback, Done
<1>15. QED BY <1>1, <1>2, <1>3, <1>4, <1>6, <1>7, <1>8, <1>9, <1>10, <1>11, <1>12, <1>13, <1>14

\* What an ORM update makes of a row is a row of the same organisation.
LEMMA OrmUpdateType ==
  ASSUME NEW n \in SchemeRow, NEW l \in SchemeRow, NEW c \in SchemeRow
  PROVE  OrmUpdate(n, l, c) \in SchemeRow /\ OrmUpdate(n, l, c).org = c.org
<1>1. /\ Flushed(n.status, l.status, c.status) \in Statuses
      /\ Flushed(n.is_active, l.is_active, c.is_active) \in BOOLEAN
      /\ Flushed(n.valid_until, l.valid_until, c.valid_until) \in Untils
  BY DEF Flushed, SchemeRow
<1>2. QED BY <1>1 DEF OrmUpdate, SchemeRow

LEMMA NewRuleType ==
  ASSUME NEW o \in Orgs, NEW s \in SchemeIds, NEW v \in Nat \ {0}, NEW c \in Criteria
  PROVE  /\ NewRule(o, s, v, c) \in RuleRow
         /\ rules \subseteq RuleRow => Supersede(o, s, v, c) \subseteq RuleRow
<1>1. NewRule(o, s, v, c) \in RuleRow
  BY DEF NewRule, RuleRow
<1>2. ASSUME NEW x \in RuleRow PROVE [x EXCEPT !.is_active = FALSE] \in RuleRow
  BY DEF RuleRow
<1>3. QED BY <1>1, <1>2 DEF Supersede

\* The handlers that write.
LEMMA WritersTypeInv ==
  ASSUME TypeInv, NEW r \in Requests,
         \/ CreateCommit(r) \/ UpdateCommit(r) \/ PublishCommit(r) \/ ArchiveCommit(r)
         \/ PreviewCommit(r) \/ PublishDraftInsert(r) \/ PublishDraftUpdate(r) \/ SeedCommit(r)
  PROVE  TypeInv' /\ Kept
<1> DEFINE q == reqs[r]
<1>0. q \in Request /\ Loaded(q)
  BY DEF TypeInv, TypeOK, InFlight
<1>1. CASE CreateCommit(r)
  <2> DEFINE row == [org |-> q.org, status |-> "draft", is_active |-> FALSE, valid_until |-> q.valid_until]
  <2>1. q.criteria \in Criteria /\ q.valid_until \in Untils /\ q.scheme \in SchemeIds /\ q.org \in Orgs
    BY <1>0, <1>1 DEF CreateCommit, At, Loaded, Request
  <2>2. row \in SchemeRow
    BY <2>1 DEF SchemeRow, Statuses
  <2>3. NewRule(q.org, q.scheme, 1, q.criteria) \in RuleRow
    BY <2>1, NewRuleType
  <2>4. Kept
    BY <1>1, <2>1, <2>2 DEF Kept, CreateCommit, TypeInv, TypeOK
  <2>5. QED BY <1>1, <2>1, <2>2, <2>3, <2>4, CommitStep DEF CreateCommit, TypeInv, TypeOK
<1>2. CASE UpdateCommit(r)
  <2> DEFINE new == [q.loaded EXCEPT !.status = IF q.publish THEN "active" ELSE "draft",
                                     !.is_active = q.publish,
                                     !.valid_until = Patched(q.valid_until, @)]
             v == q.rule.version + 1
  <2>1. /\ q.criteria \in Criteria /\ q.rule \in RuleRow /\ q.loaded \in SchemeRow
        /\ q.scheme \in SchemeIds /\ q.org \in Orgs /\ schemes[q.scheme] \in SchemeRow
        /\ q.publish \in BOOLEAN /\ q.valid_until \in Untils \cup {Keep}
    BY <1>0, <1>2 DEF UpdateCommit, At, Loaded, Request, OwnScheme, TypeInv, TypeOK
  <2>2. new \in SchemeRow
    BY <2>1 DEF SchemeRow, Statuses, Patched, Keep
  <2>3. v \in Nat \ {0}
    BY <2>1 DEF RuleRow
  <2>4. Supersede(q.org, q.scheme, v, q.criteria) \subseteq RuleRow
    BY <2>1, <2>3, NewRuleType DEF TypeInv, TypeOK
  <2>5. Snapshot(q.org, q.scheme, v, q.rule.criteria) \in VersionRow
    BY <2>1, <2>3 DEF Snapshot, VersionRow, RuleRow
  <2>6. OrmUpdate(new, q.loaded, schemes[q.scheme]) \in SchemeRow
          /\ OrmUpdate(new, q.loaded, schemes[q.scheme]).org = schemes[q.scheme].org
    BY <2>1, <2>2, OrmUpdateType
  <2>7. schemes' = [schemes EXCEPT ![q.scheme] = OrmUpdate(new, q.loaded, schemes[q.scheme])]
    BY <1>2 DEF UpdateCommit
  <2>8. Kept
    BY <1>2, <2>1, <2>6, <2>7, CatalogAssumption DEF Kept, UpdateCommit, TypeInv, TypeOK
  <2>9. schemes' \in [SchemeIds -> SchemeRow \cup {NoRow}]
    BY <2>1, <2>6, <2>7 DEF TypeInv, TypeOK
  <2>10. versions' \subseteq VersionRow /\ rules' \subseteq RuleRow
    BY <1>2, <2>4, <2>5 DEF UpdateCommit, TypeInv, TypeOK
  <2>11. QED BY <1>2, <2>8, <2>9, <2>10, CommitStep DEF UpdateCommit, TypeInv, TypeOK
<1>3. ASSUME NEW st \in Statuses, NEW b \in BOOLEAN, q.op \in {"publish", "archive"},
             schemes' = [schemes EXCEPT ![q.scheme] =
                OrmUpdate([q.loaded EXCEPT !.status = st, !.is_active = b], q.loaded, @)],
             Done(r), UNCHANGED <<rules, versions, drafts, published, today, jobs>>
      PROVE  TypeInv' /\ Kept
  <2> DEFINE new == [q.loaded EXCEPT !.status = st, !.is_active = b]
  <2>1. q.loaded \in SchemeRow /\ q.scheme \in SchemeIds /\ schemes[q.scheme] \in SchemeRow
    BY <1>0, <1>3 DEF Loaded, Request, OwnScheme, TypeInv, TypeOK
  <2>2. new \in SchemeRow
    BY <2>1 DEF SchemeRow
  <2>3. OrmUpdate(new, q.loaded, schemes[q.scheme]) \in SchemeRow
          /\ OrmUpdate(new, q.loaded, schemes[q.scheme]).org = schemes[q.scheme].org
    BY <2>1, <2>2, OrmUpdateType
  <2>4. schemes' = [schemes EXCEPT ![q.scheme] = OrmUpdate(new, q.loaded, schemes[q.scheme])]
    BY <1>3
  <2>5. Kept
    BY <1>3, <2>1, <2>3, <2>4, CatalogAssumption DEF Kept, TypeInv, TypeOK
  <2>6. schemes' \in [SchemeIds -> SchemeRow \cup {NoRow}]
    BY <2>1, <2>3, <2>4 DEF TypeInv, TypeOK
  <2>7. QED BY <1>3, <2>5, <2>6, CommitStep DEF TypeInv, TypeOK
<1>4. CASE PublishCommit(r)
  BY <1>3, <1>4 DEF PublishCommit, At, Statuses
<1>5. CASE ArchiveCommit(r)
  BY <1>3, <1>5 DEF ArchiveCommit, At, Statuses
<1>6. CASE PreviewCommit(r)
  <2>1. q.draft \in Drafts /\ drafts[q.draft] \in DraftRow
    BY <1>0, <1>6 DEF PreviewCommit, At, Loaded, TypeInv, TypeOK
  <2>2. drafts' \in [Drafts -> DraftRow \cup {NoRow}] /\ drafts'[q.draft] \in DraftRow
          /\ \A d \in Drafts : d # q.draft => drafts'[d] = drafts[d]
    BY <1>6, <2>1 DEF PreviewCommit, TypeInv, TypeOK, DraftRow, Flushed
  <2>3. Kept
    BY <1>6, <2>1, <2>2, CatalogAssumption DEF Kept, PreviewCommit
  <2>4. QED BY <1>6, <2>2, <2>3, CommitStep DEF PreviewCommit, TypeInv, TypeOK
<1>7. ASSUME PublishedDraft(q), q.op = "publish_draft"
      PROVE  /\ drafts' \in [Drafts -> DraftRow \cup {NoRow}]
             /\ published' \in [Drafts -> Nat]
             /\ \A d \in Drafts : drafts[d] # NoRow => drafts'[d] # NoRow
  <2>1. q.draft \in Drafts /\ drafts[q.draft] \in DraftRow
    BY <1>0, <1>7 DEF Loaded, TypeInv, TypeOK
  <2>2. drafts' \in [Drafts -> DraftRow \cup {NoRow}] /\ drafts'[q.draft] \in DraftRow
          /\ \A d \in Drafts : d # q.draft => drafts'[d] = drafts[d]
    BY <1>7, <2>1 DEF PublishedDraft, TypeInv, TypeOK, DraftRow, Flushed
  <2>3. published' \in [Drafts -> Nat]
    BY <1>7, <2>1 DEF PublishedDraft, TypeInv, TypeOK
  <2>4. QED BY <2>1, <2>2, <2>3, CatalogAssumption
<1>8. CASE PublishDraftInsert(r)
  <2> DEFINE row == [org |-> q.org, status |-> "active", is_active |-> TRUE, valid_until |-> q.valid_until]
  <2>1. /\ q.criteria \in Criteria /\ q.valid_until \in Untils /\ q.scheme \in SchemeIds
        /\ q.org \in Orgs /\ q.op = "publish_draft"
    BY <1>0, <1>8 DEF PublishDraftInsert, At, Loaded, Request
  <2>2. row \in SchemeRow
    BY <2>1 DEF SchemeRow, Statuses
  <2>3. NewRule(q.org, q.scheme, 1, q.criteria) \in RuleRow
    BY <2>1, NewRuleType
  <2>4. Kept
    BY <1>7, <1>8, <2>1, <2>2 DEF Kept, PublishDraftInsert, TypeInv, TypeOK
  <2>5. QED BY <1>7, <1>8, <2>1, <2>2, <2>3, <2>4, CommitStep DEF PublishDraftInsert, TypeInv, TypeOK
<1>9. CASE PublishDraftUpdate(r)
  <2> DEFINE new == [q.loaded EXCEPT !.status = "active", !.is_active = TRUE, !.valid_until = q.valid_until]
             v == q.rule.version + 1
  <2>1. /\ q.criteria \in Criteria /\ q.rule \in RuleRow /\ q.loaded \in SchemeRow
        /\ q.scheme \in SchemeIds /\ q.org \in Orgs /\ schemes[q.scheme] \in SchemeRow
        /\ q.valid_until \in Untils /\ q.op = "publish_draft"
    BY <1>0, <1>9 DEF PublishDraftUpdate, At, Loaded, Request, OwnScheme, TypeInv, TypeOK
  <2>2. new \in SchemeRow
    BY <2>1 DEF SchemeRow, Statuses
  <2>3. v \in Nat \ {0}
    BY <2>1 DEF RuleRow
  <2>4. Supersede(q.org, q.scheme, v, q.criteria) \subseteq RuleRow
    BY <2>1, <2>3, NewRuleType DEF TypeInv, TypeOK
  <2>5. Snapshot(q.org, q.scheme, v, q.rule.criteria) \in VersionRow
    BY <2>1, <2>3 DEF Snapshot, VersionRow, RuleRow
  <2>6. OrmUpdate(new, q.loaded, schemes[q.scheme]) \in SchemeRow
          /\ OrmUpdate(new, q.loaded, schemes[q.scheme]).org = schemes[q.scheme].org
    BY <2>1, <2>2, OrmUpdateType
  <2>7. schemes' = [schemes EXCEPT ![q.scheme] = OrmUpdate(new, q.loaded, schemes[q.scheme])]
    BY <1>9 DEF PublishDraftUpdate
  <2>8. Kept
    BY <1>7, <1>9, <2>1, <2>6, <2>7, CatalogAssumption DEF Kept, PublishDraftUpdate, TypeInv, TypeOK
  <2>9. schemes' \in [SchemeIds -> SchemeRow \cup {NoRow}]
    BY <2>1, <2>6, <2>7 DEF TypeInv, TypeOK
  <2>10. versions' \subseteq VersionRow /\ rules' \subseteq RuleRow
    BY <1>9, <2>4, <2>5 DEF PublishDraftUpdate, TypeInv, TypeOK
  <2>11. QED BY <1>7, <1>9, <2>1, <2>8, <2>9, <2>10, CommitStep DEF PublishDraftUpdate
<1>10. CASE SeedCommit(r)
  <2> DEFINE row == [org |-> PublicOrg, status |-> "active", is_active |-> TRUE, valid_until |-> Never]
  <2>1. row \in SchemeRow
    BY CatalogAssumption DEF SchemeRow, Statuses, Untils, Never
  <2>2. q.todo \subseteq SchemeIds
    BY <1>0 DEF Request
  <2>3. \A s \in q.todo : NewRule(PublicOrg, s, 1, SeedRule[s]) \in RuleRow
    <3>1. q.todo \subseteq SeedIds
      BY <1>0, <1>10 DEF SeedCommit, At, Loaded
    <3>2. ASSUME NEW s \in q.todo PROVE NewRule(PublicOrg, s, 1, SeedRule[s]) \in RuleRow
      <4>1. s \in SchemeIds /\ SeedRule[s] \in Criteria /\ PublicOrg \in Orgs
        BY <2>2, <3>1, CatalogAssumption
      <4>2. QED BY <4>1, NewRuleType
    <3>3. QED BY <3>2
  <2>4. schemes' \in [SchemeIds -> SchemeRow \cup {NoRow}] /\ rules' \subseteq RuleRow
    BY <1>10, <2>1, <2>3 DEF SeedCommit, TypeInv, TypeOK
  <2>5. Kept
    BY <1>10, <2>2 DEF Kept, SeedCommit
  <2>6. QED BY <1>10, <2>4, <2>5, CommitStep DEF SeedCommit, TypeInv, TypeOK
<1>11. QED BY <1>1, <1>2, <1>4, <1>5, <1>6, <1>8, <1>9, <1>10

\* The steps that are not handlers': drafts, jobs and the calendar.
LEMMA OthersTypeInv ==
  ASSUME TypeInv,
         \/ \E d \in Drafts : CreateDraft(d)
         \/ \E w \in Workers : JobScan(w) \/ JobCommit(w) \/ JobCrash(w)
         \/ Tick
         \/ UNCHANGED vars
  PROVE  TypeInv' /\ Kept
<1>0. ASSUME Kept, reqs' = reqs, jobs' \in [Workers -> Job],
             \A w \in Workers : \A s \in jobs'[w].due : schemes[s] # NoRow
      PROVE  InFlight'
  <2>1. \A r \in Requests : Loaded(reqs[r])'
    BY <1>0, LoadedKept
  <2>2. QED BY <1>0, <2>1 DEF InFlight, Kept, Job
<1>1. ASSUME NEW d \in Drafts, CreateDraft(d) PROVE TypeInv' /\ Kept
  <2>1. PICK o \in Orgs, s \in SchemeIds, c \in Criteria, u \in Untils :
          drafts' = [drafts EXCEPT ![d] = [org |-> o, status |-> "draft", scheme |-> s,
                                           criteria |-> c, valid_until |-> u]]
    BY <1>1 DEF CreateDraft
  <2>2. [org |-> o, status |-> "draft", scheme |-> s, criteria |-> c, valid_until |-> u] \in DraftRow
    BY DEF DraftRow
  <2>3. Kept
    BY <1>1, <2>1 DEF CreateDraft, Kept, TypeInv, TypeOK
  <2>4. QED BY <1>0, <1>1, <2>1, <2>2, <2>3 DEF CreateDraft, TypeInv, TypeOK, InFlight
<1>2. ASSUME NEW w \in Workers, JobScan(w) PROVE TypeInv' /\ Kept
  <2> DEFINE due == {s \in SchemeIds : Due(s)}
             job == [running |-> TRUE, due |-> due]
  <2>1. Kept /\ reqs' = reqs /\ jobs' = [jobs EXCEPT ![w] = job]
    BY <1>2 DEF JobScan, Kept, tables
  <2>2. due \subseteq SchemeIds /\ \A s \in due : schemes[s] # NoRow
    BY DEF Due, Overdue
  <2> HIDE DEF due
  <2>3. job \in Job /\ job.due = due
    BY <2>2 DEF Job
  <2> HIDE DEF job
  <2>4. jobs' \in [Workers -> Job] /\ \A x \in Workers : \A s \in jobs'[x].due : schemes[s] # NoRow
    BY <2>1, <2>2, <2>3 DEF TypeInv, TypeOK, InFlight
  <2>5. QED BY <1>0, <1>2, <2>1, <2>4 DEF JobScan, tables, TypeInv, TypeOK
<1>3. ASSUME NEW w \in Workers, JobCommit(w) \/ JobCrash(w) PROVE TypeInv' /\ Kept
  <2>1. NoJob \in Job /\ NoJob.due = {}
    BY DEF NoJob, Job
  <2>2. reqs' = reqs /\ jobs' = [jobs EXCEPT ![w] = NoJob]
    BY <1>3 DEF JobCommit, JobCrash
  <2>3. jobs' \in [Workers -> Job] /\ \A x \in Workers : \A s \in jobs'[x].due : schemes[s] # NoRow
    BY <2>1, <2>2 DEF TypeInv, TypeOK, InFlight
  <2>4. \A s \in SchemeIds : s \in jobs[w].due => schemes[s] \in SchemeRow
    BY DEF TypeInv, TypeOK, InFlight
  <2>5. \A s \in SchemeIds : schemes[s] \in SchemeRow =>
            /\ [schemes[s] EXCEPT !.status = "expired", !.is_active = FALSE] \in SchemeRow
            /\ [schemes[s] EXCEPT !.status = "expired", !.is_active = FALSE].org = schemes[s].org
    BY DEF SchemeRow, Statuses
  <2>6. schemes' \in [SchemeIds -> SchemeRow \cup {NoRow}]
    BY <1>3, <2>4, <2>5, ZenonT(90) DEF JobCommit, JobCrash, tables, TypeInv, TypeOK
  <2>7. Kept
    <3>1. CASE JobCommit(w)
      <4>1. \A s \in SchemeIds : s \in jobs[w].due =>
              schemes'[s] = [schemes[s] EXCEPT !.status = "expired", !.is_active = FALSE]
        BY <3>1 DEF JobCommit
      <4>2. \A s \in SchemeIds : s \notin jobs[w].due => schemes'[s] = schemes[s]
        BY <3>1 DEF JobCommit
      <4>3. ASSUME NEW s \in SchemeIds, s \in jobs[w].due
            PROVE  schemes'[s] # NoRow /\ schemes'[s].org = schemes[s].org
        <5>1. schemes[s] \in SchemeRow
          BY <2>4, <4>3
        <5>2. schemes'[s] \in SchemeRow /\ schemes'[s].org = schemes[s].org
          BY <2>5, <4>1, <4>3, <5>1
        <5>3. QED BY <5>2, CatalogAssumption
      <4>4. drafts' = drafts
        BY <3>1 DEF JobCommit
      <4>5. QED BY <4>2, <4>3, <4>4 DEF Kept
    <3>2. CASE JobCrash(w)
      BY <3>2 DEF JobCrash, tables, Kept
    <3>3. QED BY <1>3, <3>1, <3>2
  <2>8. QED BY <1>0, <1>3, <2>2, <2>3, <2>6, <2>7 DEF JobCommit, JobCrash, tables, TypeInv, TypeOK
<1>4. CASE Tick
  <2>1. today' \in Days
    BY <1>4, CatalogAssumption DEF Tick, Days, TypeInv, TypeOK
  <2>2. Kept
    BY <1>4 DEF Tick, tables, Kept
  <2>3. QED BY <1>0, <1>4, <2>1, <2>2 DEF Tick, tables, TypeInv, TypeOK, InFlight
<1>5. CASE UNCHANGED vars
  <2>1. Kept
    BY <1>5 DEF vars, Kept
  <2>2. QED BY <1>0, <1>5, <2>1 DEF vars, TypeInv, TypeOK, InFlight
<1>6. QED BY <1>1, <1>2, <1>3, <1>4, <1>5

-----------------------------------------------------------------------------
(* The rule and version tables. *)

\* The same schemes exist before and after.
SameSchemes == \A s \in SchemeIds : schemes[s] = NoRow <=> schemes'[s] = NoRow

\* What NoDanglingExclusion says of one rule.
Resolved(r) ==
    /\ \A s \in Exclusions[r.criteria] : schemes[s] # NoRow
    /\ ~SeedWritten(r) => Exclusions[r.criteria] \subseteq known_scheme_ids(r.org) \ {r.scheme}

LEMMA KnownGrows ==
  ASSUME Kept, NEW o, NEW s \in SchemeIds, NEW c
  PROVE  /\ OwnScheme(o, s) => OwnScheme(o, s)'
         /\ ValidRule(o, s, c) => ValidRule(o, s, c)'
  BY DEF Kept, OwnScheme, ValidRule, known_scheme_ids

\* A rule that has been validated names schemes that exist, and keeps doing so.
LEMMA ValidResolved ==
  ASSUME NEW r, ValidRule(r.org, r.scheme, r.criteria)
  PROVE  Resolved(r)
  BY DEF Resolved, ValidRule, known_scheme_ids

LEMMA ResolvedKept ==
  ASSUME Kept, NEW r \in RuleRow, Resolved(r)
  PROVE  Resolved(r)'
<1>1. Exclusions[r.criteria] \subseteq SchemeIds
  BY CatalogAssumption DEF RuleRow
<1>2. \A s \in Exclusions[r.criteria] : schemes'[s] # NoRow
  BY <1>1 DEF Resolved, Kept
<1>3. known_scheme_ids(r.org) \subseteq known_scheme_ids(r.org)'
  BY DEF Kept, known_scheme_ids
<1>4. SeedWritten(r)' <=> SeedWritten(r)
  BY DEF SeedWritten
<1>5. QED BY <1>2, <1>3, <1>4 DEF Resolved

\* Steps that leave rules and versions alone.
LEMMA TablesKept ==
  ASSUME TypeInv, Kept, SameSchemes, Tables, rules' = rules, versions' = versions
  PROVE  Tables'
<1>1. \A r \in rules : r.org \in Orgs /\ r.scheme \in SchemeIds
  BY DEF TypeInv, TypeOK, RuleRow
<1>2. RuleOwner'
  BY <1>1, KnownGrows DEF Tables, RuleOwner
<1>3. RuleKey' /\ NoGaps' /\ HistoryInv'
  BY DEF Tables, RuleKey, NoGaps, HistoryInv, VersionKey, VersionOwner, Chained
<1>4. OneActiveRule'
  BY DEF Tables, OneActiveRule, SameSchemes, Kept, RulesOf
<1>5. \A r \in rules : r \in RuleRow /\ Resolved(r)
  BY DEF Tables, NoDanglingExclusion, Resolved, TypeInv, TypeOK
<1>6. NoDanglingExclusion'
  <2>1. \A r \in rules' : Resolved(r)'
    BY <1>5, ResolvedKept
  <2>2. QED BY <2>1 DEF NoDanglingExclusion, Resolved
<1>7. QED BY <1>2, <1>3, <1>4, <1>6 DEF Tables

\* Steps that add new schemes S to organisation o, each with its first rule.
LEMMA TablesOpened ==
  ASSUME TypeInv, TypeInv', Kept, Tables, NEW S \in SUBSET SchemeIds, NEW o \in Orgs, NEW first \in [S -> Criteria],
         \A s \in S : schemes[s] = NoRow /\ OwnScheme(o, s)',
         \A s \in SchemeIds \ S : schemes'[s] = schemes[s],
         \A s \in S : Resolved(NewRule(o, s, 1, first[s]))',
         rules' = rules \cup {NewRule(o, s, 1, first[s]) : s \in S}, versions' = versions
  PROVE  Tables'
<1>1. \A r \in rules : r.org \in Orgs /\ r.scheme \in SchemeIds /\ r.version \in Nat \ {0} /\ r.scheme \notin S
  BY DEF TypeInv, TypeOK, RuleRow, Tables, RuleOwner, OwnScheme
<1>2. \A s \in S : /\ NewRule(o, s, 1, first[s]).org = o /\ NewRule(o, s, 1, first[s]).scheme = s
                   /\ NewRule(o, s, 1, first[s]).version = 1 /\ NewRule(o, s, 1, first[s]).criteria = first[s]
                   /\ NewRule(o, s, 1, first[s]).is_active
  BY DEF NewRule
<1>3. \A r \in rules' : r \in rules \/ \E s \in S : r = NewRule(o, s, 1, first[s])
  OBVIOUS
<1>4. RuleOwner'
  BY <1>1, <1>2, <1>3, KnownGrows DEF Tables, RuleOwner
<1>5. RuleKey'
  BY <1>1, <1>2, <1>3 DEF Tables, RuleKey
<1>6. NoGaps'
  <2>1. ASSUME NEW r \in rules', NEW k \in 1..r.version
        PROVE  \E q \in rules' : q.scheme = r.scheme /\ q.version = k
    <3>1. CASE r \in rules
      BY <3>1, <2>1 DEF Tables, NoGaps
    <3>2. CASE \E s \in S : r = NewRule(o, s, 1, first[s])
      BY <3>2, <2>1, <1>2
    <3>3. QED BY <1>3, <3>1, <3>2
  <2>2. QED BY <2>1 DEF NoGaps
<1>7. OneActiveRule'
  <2>1. ASSUME NEW s \in SchemeIds, schemes'[s] # NoRow
        PROVE  \E r \in RulesOf(schemes[s].org, s)' :
                 /\ r.is_active
                 /\ \A q \in RulesOf(schemes[s].org, s)' : q.version <= r.version /\ (q.is_active => q = r)
    <3>1. CASE s \in S
      <4>1. NewRule(o, s, 1, first[s]) \in RulesOf(schemes[s].org, s)'
        BY <3>1, <1>2 DEF RulesOf, OwnScheme
      <4>2. \A q \in RulesOf(schemes[s].org, s)' : q = NewRule(o, s, 1, first[s])
        BY <3>1, <1>1, <1>2, <1>3 DEF RulesOf
      <4>3. QED BY <3>1, <4>1, <4>2, <1>2
    <3>2. CASE s \notin S
      <4>1. RulesOf(schemes[s].org, s)' = RulesOf(schemes[s].org, s)
        BY <3>2, <1>2, <1>3 DEF RulesOf
      <4>2. schemes[s] # NoRow
        BY <2>1, <3>2
      <4>3. QED BY <4>1, <4>2 DEF Tables, OneActiveRule
    <3>3. QED BY <3>1, <3>2
  <2>2. QED BY <2>1 DEF OneActiveRule
<1>8. HistoryInv'
  <2>1. Chained'
    <3>1. \A r \in rules' : r.version > 1 => r \in rules
      BY <1>2, <1>3
    <3>2. QED BY <3>1 DEF Tables, HistoryInv, Chained
  <2>2. VersionKey' /\ VersionOwner'
    BY DEF Tables, HistoryInv, VersionKey, VersionOwner
  <2>3. QED BY <2>1, <2>2 DEF HistoryInv
<1>9. NoDanglingExclusion'
  <2>1. \A r \in rules : r \in RuleRow /\ Resolved(r)
    BY DEF Tables, NoDanglingExclusion, Resolved, TypeInv, TypeOK
  <2>2. \A r \in rules : Resolved(r)'
    BY <2>1, ResolvedKept
  <2>3. \A r \in rules' : Resolved(r)'
    BY <1>3, <2>2
  <2>4. QED BY <2>3 DEF NoDanglingExclusion, Resolved
<1>10. QED BY <1>4, <1>5, <1>6, <1>7, <1>8, <1>9 DEF Tables

\* A rule whose next version is free is the newest of its scheme.
LEMMA TopVersion ==
  ASSUME TypeInv, Tables, NEW b \in rules, ~VersionTaken(b.org, b.scheme, b.version + 1)
  PROVE  \A q \in rules : q.scheme = b.scheme => q.org = b.org /\ q.version <= b.version
<1>1. \A q \in rules : q.version \in Nat \ {0}
  BY DEF TypeInv, TypeOK, RuleRow
<1>2. \A q \in rules : q.scheme = b.scheme => q.org = b.org
  BY DEF Tables, RuleOwner, OwnScheme
<1>3. ASSUME NEW q \in rules, q.scheme = b.scheme, q.version > b.version PROVE FALSE
  <2>1. b.version + 1 \in 1..q.version
    BY <1>1, <1>3
  <2>2. PICK p \in rules : p.scheme = b.scheme /\ p.version = b.version + 1
    BY <1>3, <2>1 DEF Tables, NoGaps
  <2>3. QED BY <1>2, <2>2 DEF VersionTaken
<1>4. QED BY <1>1, <1>2, <1>3

\* Steps that give the scheme of a stored rule b its next version.
LEMMA TablesAmended ==
  ASSUME TypeInv, TypeInv', Kept, SameSchemes, Tables, NEW b \in rules, NEW c \in Criteria,
         ~VersionTaken(b.org, b.scheme, b.version + 1),
         ValidRule(b.org, b.scheme, c),
         rules' = Supersede(b.org, b.scheme, b.version + 1, c),
         versions' = versions \cup {Snapshot(b.org, b.scheme, b.version + 1, b.criteria)}
  PROVE  Tables'
<1> DEFINE o == b.org
           s == b.scheme
           v == b.version
           new == NewRule(o, s, v + 1, c)
           snap == Snapshot(o, s, v + 1, b.criteria)
           old(r) == IF r.org = o /\ r.scheme = s THEN [r EXCEPT !.is_active = FALSE] ELSE r
<1>1. \A r \in rules : r.org \in Orgs /\ r.scheme \in SchemeIds /\ r.version \in Nat \ {0}
  BY DEF TypeInv, TypeOK, RuleRow
<1>2. \A r \in rules : r.scheme = s => r.org = o /\ r.version <= v
  BY TopVersion
<1>3. new.org = o /\ new.scheme = s /\ new.version = v + 1 /\ new.criteria = c /\ new.is_active
  BY DEF NewRule
<1>4. \A r \in rules : /\ old(r).org = r.org /\ old(r).scheme = r.scheme
                       /\ old(r).version = r.version /\ old(r).criteria = r.criteria
                       /\ r.scheme = s => ~old(r).is_active
                       /\ r.scheme # s => old(r) = r
  BY <1>2 DEF TypeInv, TypeOK, RuleRow
<1>5. rules' = {old(r) : r \in rules} \cup {new}
  BY DEF Supersede
<1> HIDE DEF old, new
<1>6. new \in rules' /\ \A r \in rules : old(r) \in rules'
  BY <1>5
<1>7. \A x \in rules' : x = new \/ \E r \in rules : x = old(r)
  BY <1>5
<1>8. snap.org = o /\ snap.scheme = s /\ snap.version = v + 1 /\ snap.rule_snapshot = b.criteria
  BY DEF Snapshot
<1> HIDE DEF snap
<1>9. versions' = versions \cup {snap}
  BY DEF snap
<1>10. RuleOwner'
  <2>1. \A r \in rules : OwnScheme(r.org, r.scheme)'
    BY <1>1, KnownGrows DEF Tables, RuleOwner
  <2>2. QED BY <1>3, <1>4, <1>7, <2>1 DEF RuleOwner, OwnScheme
<1>11. RuleKey'
  <2>1. ASSUME NEW x \in rules', NEW y \in rules', x.scheme = y.scheme, x.version = y.version
        PROVE  x = y
    <3>1. CASE x = new
      BY <3>1, <2>1, <1>1, <1>2, <1>3, <1>4, <1>7
    <3>2. CASE y = new
      BY <3>2, <2>1, <1>1, <1>2, <1>3, <1>4, <1>7
    <3>3. CASE x # new /\ y # new
      <4>1. PICK r \in rules, q \in rules : x = old(r) /\ y = old(q)
        BY <3>3, <1>7
      <4>2. r = q
        BY <4>1, <2>1, <1>4 DEF Tables, RuleKey
      <4>3. QED BY <4>1, <4>2
    <3>4. QED BY <3>1, <3>2, <3>3
  <2>2. QED BY <2>1 DEF RuleKey
<1>12. NoGaps'
  <2>1. \A r \in rules : \A k \in 1..r.version : \E q \in rules' : q.scheme = r.scheme /\ q.version = k
    BY <1>4, <1>6 DEF Tables, NoGaps
  <2>2. \A k \in 1..new.version : k \in 1..v \/ k = v + 1
    BY <1>1, <1>3
  <2>3. \A k \in 1..new.version : \E q \in rules' : q.scheme = new.scheme /\ q.version = k
    BY <1>3, <1>6, <2>1, <2>2
  <2>4. QED BY <1>4, <1>7, <2>1, <2>3 DEF NoGaps
<1>13. OneActiveRule'
  <2>1. ASSUME NEW x \in SchemeIds, schemes'[x] # NoRow
        PROVE  \E r \in RulesOf(schemes[x].org, x)' :
                 /\ r.is_active
                 /\ \A q \in RulesOf(schemes[x].org, x)' : q.version <= r.version /\ (q.is_active => q = r)
    <3>1. schemes[x] # NoRow /\ schemes'[x].org = schemes[x].org
      BY <2>1 DEF SameSchemes, Kept
    <3>2. CASE x = s
      <4>1. schemes[s].org = o
        BY DEF Tables, RuleOwner, OwnScheme
      <4>2. new \in RulesOf(schemes[x].org, x)'
        BY <3>1, <3>2, <4>1, <1>3, <1>6 DEF RulesOf
      <4>3. \A q \in RulesOf(schemes[x].org, x)' : q.version <= new.version /\ (q.is_active => q = new)
        BY <3>2, <1>1, <1>2, <1>3, <1>4, <1>7 DEF RulesOf
      <4>4. QED BY <4>2, <4>3, <1>3
    <3>3. CASE x # s
      <4>1. RulesOf(schemes[x].org, x)' = RulesOf(schemes[x].org, x)
        <5>1. \A q \in RulesOf(schemes[x].org, x)' : q \in RulesOf(schemes[x].org, x)
          BY <3>1, <3>3, <1>3, <1>4, <1>7 DEF RulesOf
        <5>2. \A q \in RulesOf(schemes[x].org, x) : q \in RulesOf(schemes[x].org, x)'
          BY <3>1, <3>3, <1>4, <1>6 DEF RulesOf
        <5>3. QED BY <5>1, <5>2
      <4>2. QED BY <3>1, <4>1 DEF Tables, OneActiveRule
    <3>4. QED BY <3>2, <3>3
  <2>2. QED BY <2>1 DEF OneActiveRule
<1>14. HistoryInv'
  <2>1. \A h \in versions : ~(h.scheme = s /\ h.version = v + 1)
    BY <1>2, <1>1 DEF Tables, HistoryInv, VersionOwner
  <2>2. VersionKey'
    BY <2>1, <1>8, <1>9 DEF Tables, HistoryInv, VersionKey
  <2>3. VersionOwner'
    BY <1>3, <1>4, <1>6, <1>8, <1>9 DEF Tables, HistoryInv, VersionOwner
  <2>4. ASSUME NEW x \in rules', x.version > 1
        PROVE  \E q \in rules', h \in versions' :
                 /\ q.scheme = x.scheme /\ q.version = x.version - 1
                 /\ h.scheme = x.scheme /\ h.version = x.version /\ h.rule_snapshot = q.criteria
    <3>1. CASE x = new
      <4>1. /\ old(b) \in rules' /\ old(b).scheme = s /\ old(b).version = v /\ old(b).criteria = b.criteria
            /\ snap \in versions' /\ new.version - 1 = v
        BY <1>1, <1>3, <1>4, <1>6, <1>9
      <4>2. QED BY <3>1, <4>1, <1>3, <1>8
    <3>2. ASSUME NEW r \in rules, x = old(r)
          PROVE  \E q \in rules', h \in versions' :
                   /\ q.scheme = x.scheme /\ q.version = x.version - 1
                   /\ h.scheme = x.scheme /\ h.version = x.version /\ h.rule_snapshot = q.criteria
      <4>1. PICK q \in rules, h \in versions :
              /\ q.scheme = r.scheme /\ q.version = r.version - 1
              /\ h.scheme = r.scheme /\ h.version = r.version /\ h.rule_snapshot = q.criteria
        BY <2>4, <3>2, <1>4 DEF Tables, HistoryInv, Chained
      <4>2. QED BY <3>2, <4>1, <1>4, <1>6, <1>9
    <3>3. QED BY <3>1, <3>2, <1>7
  <2>5. Chained'
    BY <2>4 DEF Chained
  <2>6. QED BY <2>2, <2>3, <2>5 DEF HistoryInv
<1>15. NoDanglingExclusion'
  <2>1. \A r \in rules : r \in RuleRow /\ Resolved(r)
    BY DEF Tables, NoDanglingExclusion, Resolved, TypeInv, TypeOK
  <2>2. \A r \in rules : Resolved(r)'
    BY <2>1, ResolvedKept
  <2>3. \A r \in rules : Resolved(old(r))'
    BY <1>4, <2>2 DEF Resolved, SeedWritten
  <2>4. Resolved(new)'
    <3>1. ValidRule(o, s, c)'
      BY <1>1, KnownGrows
    <3>2. QED BY <1>3, <3>1 DEF ValidRule, Resolved, known_scheme_ids
  <2>5. \A x \in rules' : Resolved(x)'
    BY <1>7, <2>3, <2>4
  <2>6. QED BY <2>5 DEF NoDanglingExclusion, Resolved
<1>16. QED BY <1>10, <1>11, <1>12, <1>13, <1>14, <1>15 DEF Tables

-----------------------------------------------------------------------------
(* Every step keeps the invariant. *)

\* Rules are only ever added or deactivated.
RulesGrow ==
    \A b \in rules : \E c \in rules' : /\ c.org = b.org /\ c.scheme = b.scheme
                                       /\ c.version = b.version /\ c.criteria = b.criteria

LEMMA ReadyKept ==
  ASSUME TypeInv, Kept, RulesGrow, Ready, NEW r \in Requests, reqs'[r] = reqs[r]
  PROVE  (Backed(reqs[r]) /\ Vetted(reqs[r]))'
<1>1. reqs[r].scheme \in SchemeIds
  BY DEF TypeInv, TypeOK, Request
<1>2. Backed(reqs[r])'
  BY DEF Ready, Backed, RulesGrow
<1>3. Vetted(reqs[r])'
  BY <1>1, KnownGrows, CatalogAssumption DEF Ready, Vetted, Kept
<1>4. QED BY <1>2, <1>3

\* A step of handler r leaves the others ready.
LEMMA ReadyStep ==
  ASSUME TypeInv, Kept, RulesGrow, Ready, NEW r \in Requests,
         \A x \in Requests \ {r} : reqs'[x] = reqs[x],
         (Backed(reqs[r]) /\ Vetted(reqs[r]))'
  PROVE  Ready'
  BY ReadyKept DEF Ready

LEMMA ReadersCatalogInv ==
  ASSUME CatalogInv, NEW r \in Requests,
         \/ CreateCheck(r) \/ UpdateReadScheme(r) \/ UpdateReadRule(r)
         \/ StatusReadScheme(r, "publish") \/ StatusReadScheme(r, "archive")
         \/ PreviewRead(r) \/ PublishDraftReadDraft(r) \/ PublishDraftReadScheme(r)
         \/ PublishDraftReadRule(r) \/ SeedScan(r) \/ MatchScan(r) \/ MatchRule(r)
         \/ MatchDone(r) \/ Rollback(r)
  PROVE  CatalogInv'
<1> DEFINE q == reqs[r]
<1>1. TypeInv /\ Tables /\ Ready /\ RuleOwner /\ OneActiveRule
  BY DEF CatalogInv, Tables
<1>2. TypeInv'
  BY <1>1, ReadersTypeInv
<1>3. UNCHANGED tables
  BY DEF CreateCheck, UpdateReadScheme, UpdateReadRule, StatusReadScheme, PreviewRead,
         PublishDraftReadDraft, PublishDraftReadScheme, PublishDraftReadRule, SeedScan,
         MatchScan, MatchRule, MatchDone, Rollback
<1>4. Kept /\ SameSchemes /\ RulesGrow
  BY <1>3 DEF tables, Kept, SameSchemes, RulesGrow
<1>5. Tables'
  BY <1>1, <1>3, <1>4, TablesKept DEF tables
<1>6. q \in Request /\ Backed(q) /\ Vetted(q) /\ reqs \in [Requests -> Request]
  BY <1>1 DEF Ready, TypeInv, TypeOK
<1>7. \A x \in Requests \ {r} : reqs'[x] = reqs[x]
  BY <1>6 DEF CreateCheck, UpdateReadScheme, UpdateReadRule, StatusReadScheme, PreviewRead,
         PublishDraftReadDraft, PublishDraftReadScheme, PublishDraftReadRule, SeedScan,
         MatchScan, MatchRule, MatchDone, Rollback, Done
<1>8. \A o, s, c : ValidRule(o, s, c)' <=> ValidRule(o, s, c)
  BY <1>3 DEF ValidRule, known_scheme_ids, tables
<1>9. (Backed(reqs[r]) /\ Vetted(reqs[r]))'
  <2>1. CASE CreateCheck(r)
    <3>1. PICK o \in Orgs, s \in SchemeIds, c \in Criteria, u \in Untils :
            /\ ValidRule(o, s, c)
            /\ reqs' = [reqs EXCEPT ![r] = [Idle EXCEPT !.op = "create", !.pc = "commit", !.org = o,
                                              !.scheme = s, !.criteria = c, !.valid_until = u]]
      BY <2>1 DEF CreateCheck
    <3>2. reqs'[r].op = "create" /\ reqs'[r].org = o /\ reqs'[r].scheme = s /\ reqs'[r].criteria = c
      BY <3>1, <1>6 DEF Idle
    <3>3. QED BY <3>1, <3>2, <1>8 DEF Backed, Vetted
  <2>2. CASE UpdateReadScheme(r)
    <3>1. PICK o \in Orgs, s \in SchemeIds, c \in Criteria \cup {NoRow}, u \in Days \cup {Keep}, p \in BOOLEAN :
            /\ OwnScheme(o, s)
            /\ reqs' = [reqs EXCEPT ![r] = [Idle EXCEPT !.op = "update", !.pc = "rule", !.org = o, !.scheme = s,
                                              !.criteria = c, !.valid_until = u, !.publish = p,
                                              !.loaded = schemes[s]]]
      BY <2>2 DEF UpdateReadScheme
    <3>2. reqs'[r].op = "update" /\ reqs'[r].pc = "rule"
      BY <3>1, <1>6 DEF Idle
    <3>3. QED BY <3>2 DEF Backed, Vetted
  <2>3. CASE UpdateReadRule(r)
    <3> DEFINE rule == Newest(RulesOf(q.org, q.scheme))
               merged == IF q.criteria = NoRow THEN rule.criteria ELSE q.criteria
               m == [q EXCEPT !.pc = "commit", !.rule = rule, !.criteria = merged]
    <3>1. reqs'[r] = m /\ q.op = "update" /\ ValidRule(q.org, q.scheme, merged) /\ RulesOf(q.org, q.scheme) # {}
      BY <2>3, <1>6 DEF UpdateReadRule, At
    <3>2. rule \in RulesOf(q.org, q.scheme)
      BY <1>1, <3>1, NewestRule
    <3> HIDE DEF rule, merged
    <3>3. m.op = "update" /\ m.org = q.org /\ m.scheme = q.scheme /\ m.rule = rule /\ m.criteria = merged
      BY <3>1, <1>6 DEF Request
    <3> HIDE DEF m
    <3>4. Backed(reqs[r])'
      BY <1>3, <3>1, <3>2, <3>3 DEF Backed, RulesOf, tables
    <3>5. Vetted(reqs[r])'
      BY <1>8, <3>1, <3>3 DEF Vetted
    <3>6. QED BY <3>4, <3>5
  <2>4. CASE StatusReadScheme(r, "publish") \/ StatusReadScheme(r, "archive")
    <3>1. PICK op \in {"publish", "archive"}, o \in Orgs, s \in SchemeIds :
            reqs' = [reqs EXCEPT ![r] = [Idle EXCEPT !.op = op, !.pc = "commit", !.org = o,
                                              !.scheme = s, !.loaded = schemes[s]]]
      BY <2>4 DEF StatusReadScheme
    <3>2. reqs'[r].op = op
      BY <3>1, <1>6 DEF Idle
    <3>3. QED BY <3>2 DEF Backed, Vetted
  <2>5. CASE PreviewRead(r)
    <3>1. PICK d \in Drafts :
            reqs' = [reqs EXCEPT ![r] = [Idle EXCEPT !.op = "preview", !.pc = "commit",
                                              !.draft = d, !.dstatus = drafts[d].status]]
      BY <2>5 DEF PreviewRead
    <3>2. reqs'[r].op = "preview"
      BY <3>1, <1>6 DEF Idle
    <3>3. QED BY <3>2 DEF Backed, Vetted
  <2>6. CASE PublishDraftReadDraft(r)
    <3>1. PICK d \in Drafts :
            /\ ValidRule(drafts[d].org, drafts[d].scheme, drafts[d].criteria)
            /\ reqs' = [reqs EXCEPT ![r] = [Idle EXCEPT !.op = "publish_draft", !.pc = "scheme",
                            !.org = drafts[d].org, !.scheme = drafts[d].scheme,
                            !.criteria = drafts[d].criteria, !.valid_until = drafts[d].valid_until,
                            !.draft = d, !.dstatus = drafts[d].status]]
      BY <2>6 DEF PublishDraftReadDraft
    <3>2. /\ reqs'[r].op = "publish_draft" /\ reqs'[r].pc = "scheme" /\ reqs'[r].org = drafts[d].org
          /\ reqs'[r].scheme = drafts[d].scheme /\ reqs'[r].criteria = drafts[d].criteria
      BY <3>1, <1>6 DEF Idle
    <3>3. QED BY <3>1, <3>2, <1>8 DEF Backed, Vetted
  <2>7. CASE PublishDraftReadScheme(r)
    <3>1. q.op = "publish_draft"
      BY <2>7 DEF PublishDraftReadScheme, At
    <3>2. /\ reqs'[r].op = "publish_draft" /\ reqs'[r].org = q.org /\ reqs'[r].scheme = q.scheme
          /\ reqs'[r].criteria = q.criteria
          /\ reqs'[r].pc = "commit" => reqs'[r].loaded = NoRow
      BY <2>7, <3>1, <1>6 DEF PublishDraftReadScheme, Request
    <3>3. QED BY <3>1, <3>2, <1>6, <1>8 DEF Backed, Vetted
  <2>8. CASE PublishDraftReadRule(r)
    <3> DEFINE rule == Newest(RulesOf(q.org, q.scheme))
               m == [q EXCEPT !.pc = "commit", !.rule = rule]
    <3>1. reqs'[r] = m /\ q.op = "publish_draft" /\ RulesOf(q.org, q.scheme) # {}
      BY <2>8, <1>6 DEF PublishDraftReadRule, At
    <3>2. rule \in RulesOf(q.org, q.scheme)
      BY <1>1, <3>1, NewestRule
    <3> HIDE DEF rule
    <3>3. m.op = q.op /\ m.org = q.org /\ m.scheme = q.scheme /\ m.rule = rule /\ m.criteria = q.criteria
      BY <3>1, <1>6 DEF Request
    <3> HIDE DEF m
    <3>4. Backed(reqs[r])'
      BY <1>3, <3>1, <3>2, <3>3 DEF Backed, RulesOf, tables
    <3>5. ValidRule(q.org, q.scheme, q.criteria)
      BY <1>6, <3>1 DEF Vetted
    <3>6. Vetted(reqs[r])'
      BY <1>8, <3>1, <3>3, <3>5 DEF Vetted
    <3>7. QED BY <3>4, <3>6
  <2>9. CASE SeedScan(r)
    <3>1. reqs'[r].op = "seed" /\ reqs'[r].todo = {s \in SeedIds : schemes[s] = NoRow}
      BY <2>9, <1>6 DEF SeedScan, Idle
    <3>2. QED BY <1>3, <3>1 DEF Backed, Vetted, tables
  <2>10. CASE MatchScan(r)
    <3>1. PICK o \in Orgs, ids \in SUBSET SchemeIds :
            reqs' = [reqs EXCEPT ![r] = [Idle EXCEPT !.op = "match", !.pc = "serve", !.org = o,
                                            !.todo = {s \in ids : OwnScheme(o, s) /\ Served(s)}]]
      BY <2>10 DEF MatchScan
    <3>2. reqs'[r].op = "match"
      BY <3>1, <1>6 DEF Idle
    <3>3. QED BY <3>2 DEF Backed, Vetted
  <2>11. CASE MatchRule(r)
    BY <2>11, <1>6 DEF MatchRule, At, Request, Backed, Vetted
  <2>12. CASE MatchDone(r) \/ Rollback(r)
    BY <2>12, <1>6 DEF MatchDone, Rollback, Done, Idle, Backed, Vetted
  <2>13. QED BY <2>1, <2>2, <2>3, <2>4, <2>5, <2>6, <2>7, <2>8, <2>9, <2>10, <2>11, <2>12
<1>10. Ready'
  BY <1>1, <1>4, <1>7, <1>9, ReadyStep
<1>11. QED BY <1>2, <1>5, <1>10 DEF CatalogInv

LEMMA WritersCatalogInv ==
  ASSUME CatalogInv, NEW r \in Requests,
         \/ CreateCommit(r) \/ UpdateCommit(r) \/ PublishCommit(r) \/ ArchiveCommit(r)
         \/ PreviewCommit(r) \/ PublishDraftInsert(r) \/ PublishDraftUpdate(r) \/ SeedCommit(r)
  PROVE  CatalogInv'
<1> DEFINE q == reqs[r]
<1>1. TypeInv /\ Tables /\ Ready
  BY DEF CatalogInv
<1>2. TypeInv' /\ Kept
  BY <1>1, WritersTypeInv
<1>3. /\ q \in Request /\ Loaded(q) /\ Backed(q) /\ Vetted(q) /\ reqs \in [Requests -> Request]
      /\ schemes \in [SchemeIds -> SchemeRow \cup {NoRow}]
      /\ schemes' \in [SchemeIds -> SchemeRow \cup {NoRow}]
  BY <1>1, <1>2 DEF Ready, TypeInv, TypeOK, InFlight
<1>4. reqs' = [reqs EXCEPT ![r] = Idle]
  BY DEF CreateCommit, UpdateCommit, PublishCommit, ArchiveCommit, PreviewCommit,
         PublishDraftInsert, PublishDraftUpdate, SeedCommit, Done
<1>5. (Backed(reqs[r]) /\ Vetted(reqs[r]))'
  BY <1>3, <1>4, IdleType DEF Backed, Vetted
\* One scheme changes, and exists before and after.
<1>6. ASSUME \A s \in SchemeIds \ {q.scheme} : schemes'[s] = schemes[s], schemes[q.scheme] # NoRow
      PROVE  SameSchemes
  BY <1>2, <1>3, <1>6 DEF SameSchemes, Kept, Request
<1>7. CASE CreateCommit(r) \/ PublishDraftInsert(r)
  <2> DEFINE S == {q.scheme}
  <2>1. /\ q.scheme \in SchemeIds /\ q.org \in Orgs /\ q.criteria \in Criteria
        /\ ValidRule(q.org, q.scheme, q.criteria)
    BY <1>3, <1>7 DEF Request, Loaded, Vetted, CreateCommit, PublishDraftInsert, At
  <2>2. /\ schemes[q.scheme] = NoRow
        /\ schemes'[q.scheme].org = q.org
        /\ \A s \in SchemeIds \ {q.scheme} : schemes'[s] = schemes[s]
        /\ rules' = rules \cup {NewRule(q.org, q.scheme, 1, q.criteria)}
        /\ versions' = versions
    BY <1>3, <1>7, <2>1 DEF CreateCommit, PublishDraftInsert
  <2>3. schemes'[q.scheme] # NoRow
    <3>1. CASE CreateCommit(r)
      <4>1. schemes'[q.scheme] = [org |-> q.org, status |-> "draft", is_active |-> FALSE, valid_until |-> q.valid_until]
        BY <3>1, <1>3, <2>1 DEF CreateCommit
      <4>2. q.valid_until \in Untils
        BY <3>1, <1>3 DEF CreateCommit, At, Loaded
      <4>3. schemes'[q.scheme] \in SchemeRow
        BY <4>1, <4>2, <2>1 DEF SchemeRow, Statuses
      <4>4. QED BY <4>3, CatalogAssumption
    <3>2. CASE PublishDraftInsert(r)
      <4>1. schemes'[q.scheme] = [org |-> q.org, status |-> "active", is_active |-> TRUE, valid_until |-> q.valid_until]
        BY <3>2, <1>3, <2>1 DEF PublishDraftInsert
      <4>2. q.valid_until \in Untils
        BY <3>2, <1>3 DEF PublishDraftInsert, At, Loaded
      <4>3. schemes'[q.scheme] \in SchemeRow
        BY <4>1, <4>2, <2>1 DEF SchemeRow, Statuses
      <4>4. QED BY <4>3, CatalogAssumption
    <3>3. QED BY <1>7, <3>1, <3>2
  <2>4. PICK o \in Orgs, id \in SchemeIds, c \in Criteria, first \in [S -> Criteria] :
          o = q.org /\ id = q.scheme /\ c = q.criteria /\ first = [s \in S |-> c]
    BY <2>1
  <2>5. rules' = rules \cup {NewRule(o, s, 1, first[s]) : s \in S}
    BY <2>4, <2>2
  <2>6. \A s \in S : schemes[s] = NoRow /\ OwnScheme(o, s)' /\ Resolved(NewRule(o, s, 1, first[s]))'
    <3>1. ValidRule(o, id, c)'
      BY <1>2, <2>1, <2>4, KnownGrows
    <3>2. Resolved(NewRule(o, id, 1, c))'
      BY <3>1 DEF ValidRule, Resolved, known_scheme_ids, NewRule
    <3>3. schemes[id] = NoRow /\ OwnScheme(o, id)'
      BY <2>2, <2>3, <2>4 DEF OwnScheme
    <3>4. \A s \in S : s = id /\ first[s] = c
      BY <2>4
    <3>5. QED BY <3>2, <3>3, <3>4
  <2>7. S \in SUBSET SchemeIds /\ \A s \in SchemeIds \ S : schemes'[s] = schemes[s]
    BY <2>1, <2>2
  <2> HIDE DEF S
  <2>8. Tables'
    BY <1>1, <1>2, <2>2, <2>5, <2>6, <2>7, TablesOpened
  <2>9. RulesGrow
    BY <2>2 DEF RulesGrow
  <2>10. Ready'
    BY <1>1, <1>2, <1>3, <1>4, <1>5, <2>9, ReadyStep
  <2>11. QED BY <1>2, <2>8, <2>10 DEF CatalogInv
<1>8. CASE UpdateCommit(r) \/ PublishDraftUpdate(r)
  <2>1. /\ q.scheme \in SchemeIds /\ q.org \in Orgs /\ q.criteria \in Criteria
        /\ ValidRule(q.org, q.scheme, q.criteria)
        /\ OwnScheme(q.org, q.scheme)
    BY <1>3, <1>8 DEF Request, Loaded, Vetted, UpdateCommit, PublishDraftUpdate, At
  <2>2. PICK b \in rules : /\ b.org = q.org /\ b.scheme = q.scheme
                           /\ b.version = q.rule.version /\ b.criteria = q.rule.criteria
    <3>1. q.op \in {"update", "publish_draft"} /\ q.pc = "commit" /\ q.loaded # NoRow
      BY <1>3, <1>8, CatalogAssumption DEF Loaded, UpdateCommit, PublishDraftUpdate, At
    <3>2. QED BY <1>3, <3>1 DEF Backed
  <2>3. /\ ~VersionTaken(b.org, b.scheme, b.version + 1)
        /\ rules' = Supersede(b.org, b.scheme, b.version + 1, q.criteria)
        /\ versions' = versions \cup {Snapshot(b.org, b.scheme, b.version + 1, b.criteria)}
    BY <1>8, <2>2 DEF UpdateCommit, PublishDraftUpdate
  <2>4. \A s \in SchemeIds \ {q.scheme} : schemes'[s] = schemes[s]
    BY <1>3, <1>8 DEF UpdateCommit, PublishDraftUpdate
  <2>5. SameSchemes
    BY <1>6, <2>1, <2>4 DEF OwnScheme
  <2>6. ValidRule(b.org, b.scheme, q.criteria)
    BY <2>1, <2>2
  <2>7. Tables'
    BY <1>1, <1>2, <2>1, <2>3, <2>5, <2>6, TablesAmended
  <2>8. RulesGrow
    <3>1. ASSUME NEW x \in rules
          PROVE  \E c \in rules' : /\ c.org = x.org /\ c.scheme = x.scheme
                                   /\ c.version = x.version /\ c.criteria = x.criteria
      <4>1. x \in RuleRow
        BY <1>1 DEF TypeInv, TypeOK
      <4>2. x \in rules' \/ [x EXCEPT !.is_active = FALSE] \in rules'
        BY <2>3 DEF Supersede
      <4>3. QED BY <4>1, <4>2 DEF RuleRow
    <3>2. QED BY <3>1 DEF RulesGrow
  <2>9. Ready'
    BY <1>1, <1>2, <1>3, <1>4, <1>5, <2>8, ReadyStep
  <2>10. QED BY <1>2, <2>7, <2>9 DEF CatalogInv
<1>9. CASE PublishCommit(r) \/ ArchiveCommit(r) \/ PreviewCommit(r)
  <2>1. rules' = rules /\ versions' = versions
    BY <1>9 DEF PublishCommit, ArchiveCommit, PreviewCommit
  <2>2. SameSchemes
    <3>1. CASE PublishCommit(r) \/ ArchiveCommit(r)
      <4>1. schemes[q.scheme] # NoRow
        BY <1>3, <3>1 DEF Loaded, OwnScheme, PublishCommit, ArchiveCommit, At
      <4>2. \A s \in SchemeIds \ {q.scheme} : schemes'[s] = schemes[s]
        BY <1>3, <3>1 DEF PublishCommit, ArchiveCommit
      <4>3. QED BY <1>6, <4>1, <4>2
    <3>2. CASE PreviewCommit(r)
      BY <3>2 DEF PreviewCommit, SameSchemes
    <3>3. QED BY <1>9, <3>1, <3>2
  <2>3. Tables' /\ RulesGrow
    BY <1>1, <1>2, <2>1, <2>2, TablesKept DEF RulesGrow
  <2>4. Ready'
    BY <1>1, <1>2, <1>3, <1>4, <1>5, <2>3, ReadyStep
  <2>5. QED BY <1>2, <2>3, <2>4 DEF CatalogInv
<1>10. CASE SeedCommit(r)
  <2> DEFINE S == q.todo
  <2>1. /\ S \in SUBSET SchemeIds
        /\ \A s \in S : schemes[s] = NoRow
        /\ \A s \in SchemeIds \ S : schemes'[s] = schemes[s]
        /\ rules' = rules \cup {NewRule(PublicOrg, s, 1, SeedRule[s]) : s \in S}
        /\ versions' = versions
    BY <1>3, <1>10 DEF SeedCommit, Request
  <2>2. \A s \in S : OwnScheme(PublicOrg, s)'
    <3> DEFINE row == [org |-> PublicOrg, status |-> "active", is_active |-> TRUE, valid_until |-> Never]
    <3>1. row \in SchemeRow /\ row.org = PublicOrg
      BY CatalogAssumption DEF SchemeRow, Statuses, Untils, Never
    <3>2. \A s \in S : schemes'[s] = row
      BY <1>10, <2>1 DEF SeedCommit
    <3> HIDE DEF row
    <3>3. \A s \in S : schemes'[s] # NoRow /\ schemes'[s].org = PublicOrg
      BY <3>1, <3>2, CatalogAssumption
    <3>4. QED BY <3>3 DEF OwnScheme
  <2>3. S \subseteq SeedIds /\ \A s \in SeedIds \ S : schemes[s] # NoRow
    BY <1>3, <1>10 DEF SeedCommit, At, Loaded, Vetted
\* What a seed excludes exists: it is added with it, or the scan found its id taken.
  <2>4. \A s \in SeedIds : schemes'[s] # NoRow
    BY <1>2, <2>2, <2>3, CatalogAssumption DEF OwnScheme, Kept
  <2>5. ASSUME NEW s \in S PROVE Resolved(NewRule(PublicOrg, s, 1, SeedRule[s]))'
    <3> DEFINE new == NewRule(PublicOrg, s, 1, SeedRule[s])
    <3>1. new.org = PublicOrg /\ new.version = 1 /\ new.scheme = s /\ new.criteria = SeedRule[s]
      BY DEF NewRule
    <3> HIDE DEF new
    <3>2. SeedWritten(new)'
      BY <2>3, <3>1 DEF SeedWritten
    <3>3. Exclusions[new.criteria] \subseteq SeedIds
      BY <2>3, <3>1, CatalogAssumption
    <3>4. Resolved(new)'
      BY <2>4, <3>2, <3>3 DEF Resolved
    <3>5. QED BY <3>4 DEF new
  <2>6. PICK first \in [S -> Criteria] : \A s \in S : first[s] = SeedRule[s]
    <3> DEFINE f == [s \in S |-> SeedRule[s]]
    <3>1. f \in [S -> Criteria] /\ \A s \in S : f[s] = SeedRule[s]
      BY <2>3, CatalogAssumption
    <3>2. QED BY <3>1
  <2> HIDE DEF S
  <2>7. rules' = rules \cup {NewRule(PublicOrg, s, 1, first[s]) : s \in S}
    BY <2>1, <2>6
  <2>8. \A s \in S : Resolved(NewRule(PublicOrg, s, 1, first[s]))'
    <3>1. ASSUME NEW s \in S PROVE Resolved(NewRule(PublicOrg, s, 1, first[s]))'
      <4>1. first[s] = SeedRule[s] /\ first'[s] = SeedRule[s]
        BY <2>6
      <4>2. QED BY <2>5, <4>1
    <3>2. QED BY <3>1
  <2>9. Tables'
    BY <1>1, <1>2, <2>1, <2>2, <2>7, <2>8, TablesOpened, CatalogAssumption
  <2>10. RulesGrow
    BY <2>1 DEF RulesGrow
  <2>11. Ready'
    BY <1>1, <1>2, <1>3, <1>4, <1>5, <2>10, ReadyStep
  <2>12. QED BY <1>2, <2>9, <2>11 DEF CatalogInv
<1>11. QED BY <1>7, <1>8, <1>9, <1>10

LEMMA OthersCatalogInv ==
  ASSUME CatalogInv,
         \/ \E d \in Drafts : CreateDraft(d)
         \/ \E w \in Workers : JobScan(w) \/ JobCommit(w) \/ JobCrash(w)
         \/ Tick
         \/ UNCHANGED vars
  PROVE  CatalogInv'
<1>1. TypeInv /\ Tables /\ Ready
  BY DEF CatalogInv
<1>2. TypeInv' /\ Kept
  BY <1>1, OthersTypeInv
<1>3. rules' = rules /\ versions' = versions /\ reqs' = reqs
  BY DEF CreateDraft, JobScan, JobCommit, JobCrash, Tick, vars, tables
<1>4. SameSchemes
  <2>1. ASSUME schemes' # schemes PROVE \E w \in Workers : JobCommit(w)
    BY <2>1 DEF CreateDraft, JobScan, JobCrash, Tick, vars, tables
  <2>2. ASSUME NEW w \in Workers, JobCommit(w), NEW s \in SchemeIds
        PROVE  schemes[s] = NoRow <=> schemes'[s] = NoRow
    <3>1. s \in jobs[w].due => schemes[s] # NoRow
      BY <1>1 DEF TypeInv, InFlight
    <3>2. s \notin jobs[w].due => schemes'[s] = schemes[s]
      BY <2>2 DEF JobCommit
    <3>3. QED BY <1>2, <3>1, <3>2 DEF Kept
  <2>3. QED BY <2>1, <2>2 DEF SameSchemes
<1>5. Tables' /\ RulesGrow
  BY <1>1, <1>2, <1>3, <1>4, TablesKept DEF RulesGrow
<1>6. Ready'
  BY <1>1, <1>2, <1>3, <1>5, ReadyKept DEF Ready
<1>7. QED BY <1>2, <1>5, <1>6 DEF CatalogInv

LEMMA CatalogInvInit == Init => CatalogInv
<1> SUFFICES ASSUME Init PROVE CatalogInv
  OBVIOUS
<1>1. TypeOK
  BY IdleType, CatalogAssumption DEF Init, TypeOK, NoJob, Job, Days
<1>2. \A r \in Requests : Loaded(reqs[r]) /\ Backed(reqs[r]) /\ Vetted(reqs[r])
  BY IdleType DEF Init, Loaded, Backed, Vetted
<1>3. \A w \in Workers : jobs[w].due = {}
  BY DEF Init, NoJob
<1>4. Tables
  BY DEF Init, Tables, RuleOwner, RuleKey, NoGaps, OneActiveRule, HistoryInv, VersionKey,
         VersionOwner, Chained, NoDanglingExclusion
<1>5. QED BY <1>1, <1>2, <1>3, <1>4 DEF CatalogInv, TypeInv, InFlight, Ready

LEMMA CatalogInvNext == CatalogInv /\ [Next]_vars => CatalogInv'
<1> SUFFICES ASSUME CatalogInv, [Next]_vars PROVE CatalogInv'
  OBVIOUS
<1>1. ASSUME NEW r \in Requests, Handler(r) PROVE CatalogInv'
  BY <1>1, ReadersCatalogInv, WritersCatalogInv DEF Handler
<1>2. CASE \E d \in Drafts : CreateDraft(d)
  BY <1>2, OthersCatalogInv
<1>3. CASE \E w \in Workers : JobScan(w) \/ JobCommit(w) \/ JobCrash(w)
  BY <1>3, OthersCatalogInv
<1>4. CASE Tick
  BY <1>4, OthersCatalogInv
<1>5. CASE UNCHANGED vars
  BY <1>5, OthersCatalogInv
<1>6. QED BY <1>1, <1>2, <1>3, <1>4, <1>5 DEF Next

-----------------------------------------------------------------------------
(* Theorems. *)

\* The inductive invariant holds in every reachable state of the catalogue.
THEOREM CatalogInvariant == Spec => []CatalogInv
  BY CatalogInvInit, CatalogInvNext, PTL DEF Spec

\* Tables, handlers and jobs always hold values the code can produce.
THEOREM TypeCorrect == Spec => []TypeOK
<1>1. CatalogInv => TypeOK
  BY DEF CatalogInv, TypeInv
<1>2. QED BY <1>1, CatalogInvariant, PTL

\* Whatever create, update, publish-draft and seed handlers overlap, a scheme has
\* exactly one active rule, its newest (services/schemes.py:110-130,
\* admin_panel/scheme_drafts.py:115-147).
THEOREM OneActiveRuleAlways == Spec => []OneActiveRule
<1>1. CatalogInv => OneActiveRule
  BY DEF CatalogInv, Tables
<1>2. QED BY <1>1, CatalogInvariant, PTL

\* Rule versions are numbered without gaps or repetitions and every superseded
\* rule is kept in the version row its successor wrote (services/schemes.py:98-108).
THEOREM HistoryAlwaysComplete == Spec => []HistoryComplete
<1>1. ASSUME CatalogInv PROVE HistoryComplete
  <2>1. RuleKey /\ Chained /\ VersionKey
    BY <1>1 DEF CatalogInv, Tables, HistoryInv
  <2>2. ASSUME NEW r \in rules, r.version > 1
        PROVE  \E q \in rules, h \in versions :
                 /\ q.scheme = r.scheme /\ q.version = r.version - 1
                 /\ h.scheme = r.scheme /\ h.version = r.version /\ h.rule_snapshot = q.criteria
                 /\ \A g \in versions : g.scheme = h.scheme /\ g.version = h.version => g = h
    BY <2>1, <2>2 DEF Chained, VersionKey
  <2>3. \A r, q \in rules : q.scheme = r.scheme /\ q.version = r.version => q = r
    BY <2>1 DEF RuleKey
  <2>4. QED BY <2>2, <2>3 DEF HistoryComplete
<1>2. QED BY <1>1, CatalogInvariant, PTL

\* A match in progress never meets a selected scheme without an active rule
\* (services/schemes.py:238-278, 146-156).
THEOREM MatchNeverFails == Spec => []MatchAlwaysAnswers
<1>1. ASSUME CatalogInv PROVE MatchAlwaysAnswers
  <2>1. ASSUME NEW r \in Requests, reqs[r].op = "match", NEW s \in reqs[r].todo
        PROVE  ActiveRules(reqs[r].org, s) # {}
    <3>1. OwnScheme(reqs[r].org, s) /\ s \in SchemeIds
      BY <1>1, <2>1 DEF CatalogInv, TypeInv, TypeOK, InFlight, Loaded, Request
    <3>2. PICK x \in RulesOf(schemes[s].org, s) : x.is_active
      BY <1>1, <3>1 DEF CatalogInv, Tables, OneActiveRule, OwnScheme
    <3>3. QED BY <3>1, <3>2 DEF OwnScheme, ActiveRules
  <2>2. QED BY <2>1 DEF MatchAlwaysAnswers
<1>2. QED BY <1>1, CatalogInvariant, PTL

\* The exclusions of every stored rule name schemes that exist, whoever owns them, and
\* those of a rule that no seed brought name other schemes of the rule's organisation,
\* though they were checked when the handler began (services/schemes.py:59-60, 96-97,
\* scheme_drafts.py:35-37, validation.py:46-54) and a seed's against the file only
\* (services/seeds.py:30-38).
THEOREM ExclusionsResolve == Spec => []NoDanglingExclusion
<1>1. CatalogInv => NoDanglingExclusion
  BY DEF CatalogInv, Tables
<1>2. QED BY <1>1, CatalogInvariant, PTL

-----------------------------------------------------------------------------
(* The refinement: rules of a scheme are the entries of its ledger.          *)

\* The entries that the rules R hold for scheme s, by version; rulesSoFar is made of these.
HistoryOf(R, s) ==
    [v \in {r.version : r \in {q \in R : q.scheme = s}} |->
        (CHOOSE r \in R : r.scheme = s /\ r.version = v).criteria]

\* R holds the versions 1..n of scheme s, each once.
Numbered(R, s, n) ==
    /\ n \in Nat
    /\ \A r \in R : r.scheme = s => r.version \in 1..n /\ r.criteria \in Criteria
    /\ \A k \in 1..n : \E r \in R : r.scheme = s /\ r.version = k
    /\ \A r, q \in R : r.scheme = s /\ q.scheme = s /\ r.version = q.version => r = q

LEMMA HistoryIsSeq ==
  ASSUME NEW R, NEW s, NEW n, Numbered(R, s, n)
  PROVE  /\ HistoryOf(R, s) \in Seq(Criteria) /\ Len(HistoryOf(R, s)) = n
         /\ \A r \in R : r.scheme = s => HistoryOf(R, s)[r.version] = r.criteria
<1> DEFINE V == {r.version : r \in {q \in R : q.scheme = s}}
           e(v) == (CHOOSE r \in R : r.scheme = s /\ r.version = v).criteria
<1>1. V = 1..n /\ n \in Nat
  BY DEF Numbered
<1>2. ASSUME NEW v \in V PROVE e(v) \in Criteria /\ \A r \in R : r.scheme = s /\ r.version = v => e(v) = r.criteria
  <2>1. PICK r \in R : r.scheme = s /\ r.version = v
    BY <1>2
  <2>2. (CHOOSE x \in R : x.scheme = s /\ x.version = v) = r
    BY <2>1 DEF Numbered
  <2>3. QED BY <2>1, <2>2 DEF Numbered
<1>3. HistoryOf(R, s) = [v \in V |-> e(v)]
  BY DEF HistoryOf
<1> HIDE DEF V, e
<1>4. HistoryOf(R, s) \in [1..n -> Criteria]
  BY <1>1, <1>2, <1>3
<1>5. ASSUME NEW r \in R, r.scheme = s PROVE HistoryOf(R, s)[r.version] = r.criteria
  <2>1. r.version \in V
    BY <1>1, <1>5 DEF Numbered
  <2>2. QED BY <1>2, <1>3, <1>5, <2>1
<1>6. QED BY <1>1, <1>4, <1>5

\* Two histories with the same entries are the same.
LEMMA HistorySame ==
  ASSUME NEW R, NEW Q, NEW s, NEW n, Numbered(R, s, n), Numbered(Q, s, n),
         \A r \in R : r.scheme = s =>
            \E q \in Q : q.scheme = s /\ q.version = r.version /\ q.criteria = r.criteria
  PROVE  HistoryOf(Q, s) = HistoryOf(R, s)
<1>1. /\ HistoryOf(R, s) \in Seq(Criteria) /\ Len(HistoryOf(R, s)) = n /\ n \in Nat
      /\ HistoryOf(Q, s) \in Seq(Criteria) /\ Len(HistoryOf(Q, s)) = n
  <2>1. n \in Nat
    BY DEF Numbered
  <2>2. QED BY <2>1, HistoryIsSeq
<1>2. ASSUME NEW i \in 1..n PROVE HistoryOf(R, s)[i] = HistoryOf(Q, s)[i]
  <2>1. PICK r \in R : r.scheme = s /\ r.version = i
    BY DEF Numbered
  <2>2. PICK q \in Q : q.scheme = s /\ q.version = i /\ q.criteria = r.criteria
    BY <2>1
  <2>3. QED BY <2>1, <2>2, HistoryIsSeq
<1>3. QED BY <1>1, <1>2, SeqEqual

\* One rule more makes the history one entry longer.
LEMMA HistoryLonger ==
  ASSUME NEW R, NEW Q, NEW s, NEW n, Numbered(R, s, n), Numbered(Q, s, n + 1),
         \A r \in R : r.scheme = s =>
            \E q \in Q : q.scheme = s /\ q.version = r.version /\ q.criteria = r.criteria,
         NEW x \in Q, x.scheme = s, x.version = n + 1
  PROVE  HistoryOf(Q, s) = Append(HistoryOf(R, s), x.criteria)
<1> DEFINE h == HistoryOf(R, s)
           t == Append(h, x.criteria)
<1>1. /\ h \in Seq(Criteria) /\ Len(h) = n /\ n \in Nat
      /\ HistoryOf(Q, s) \in Seq(Criteria) /\ Len(HistoryOf(Q, s)) = n + 1
      /\ x.criteria \in Criteria
  <2>1. n \in Nat /\ x.criteria \in Criteria
    BY DEF Numbered
  <2>2. QED BY <2>1, HistoryIsSeq
<1>2. ASSUME NEW i \in 1..n PROVE h[i] = HistoryOf(Q, s)[i]
  <2>1. PICK r \in R : r.scheme = s /\ r.version = i
    BY DEF Numbered
  <2>2. PICK q \in Q : q.scheme = s /\ q.version = i /\ q.criteria = r.criteria
    BY <2>1
  <2>3. QED BY <2>1, <2>2, HistoryIsSeq
<1>3. HistoryOf(Q, s)[n + 1] = x.criteria
  BY HistoryIsSeq
<1> HIDE DEF h
<1>4. t \in Seq(Criteria) /\ Len(t) = n + 1 /\ \A i \in 1..(n + 1) : t[i] = IF i = n + 1 THEN x.criteria ELSE h[i]
  BY <1>1
<1> HIDE DEF t
<1>5. \A i \in 1..(n + 1) : HistoryOf(Q, s)[i] = t[i]
  <2>1. ASSUME NEW i \in 1..(n + 1) PROVE HistoryOf(Q, s)[i] = t[i]
    <3>1. CASE i = n + 1
      BY <1>3, <1>4, <3>1
    <3>2. CASE i # n + 1
      <4>1. i \in 1..n
        BY <1>1, <3>2
      <4>2. QED BY <1>2, <1>4, <3>2, <4>1
    <3>3. QED BY <3>1, <3>2
  <2>2. QED BY <2>1
<1>6. HistoryOf(Q, s) = t
  BY <1>1, <1>4, <1>5, SeqEqual
<1>7. QED BY <1>6 DEF t, h

\* A scheme has the versions up to the active one, and none before it exists.
LEMMA LedgerShape ==
  CatalogInv => \A s \in SchemeIds :
      /\ Numbered(rules, s, activeVersion[s])
      /\ activeVersion[s] = 0 <=> schemes[s] = NoRow
<1> SUFFICES ASSUME CatalogInv, NEW s \in SchemeIds
             PROVE  /\ Numbered(rules, s, activeVersion[s])
                    /\ activeVersion[s] = 0 <=> schemes[s] = NoRow
  OBVIOUS
<1>1. /\ rules \subseteq RuleRow /\ RuleOwner /\ RuleKey /\ NoGaps /\ OneActiveRule
      /\ \A r \in rules : r.version \in Nat \ {0} /\ r.criteria \in Criteria
  BY DEF CatalogInv, TypeInv, TypeOK, Tables, RuleRow
<1>2. CASE schemes[s] = NoRow
  <2>1. \A r \in rules : r.scheme # s
    BY <1>1, <1>2 DEF RuleOwner, OwnScheme
  <2>2. activeVersion[s] = 0
    BY <1>2 DEF activeVersion
  <2>3. QED BY <1>2, <2>1, <2>2 DEF Numbered
<1>3. CASE schemes[s] # NoRow
  <2> DEFINE o == schemes[s].org
  <2>1. PICK a \in RulesOf(o, s) : /\ a.is_active
                                   /\ \A q \in RulesOf(o, s) : q.version <= a.version /\ (q.is_active => q = a)
    BY <1>1, <1>3 DEF OneActiveRule
  <2>2. a \in rules /\ a.scheme = s /\ ActiveRules(o, s) = {a}
    BY <2>1 DEF ActiveRules, RulesOf
  <2>3. a.version <= a.version
    BY <1>1, <2>2
  <2>4. Newest({a}) = a
    BY <2>3 DEF Newest
  <2>5. activeVersion[s] = a.version
    BY <1>3, <2>2, <2>4 DEF activeVersion
  <2>6. \A r \in rules : r.scheme = s => r \in RulesOf(o, s)
    BY <1>1, <1>3 DEF RuleOwner, OwnScheme, RulesOf
  <2>7. \A r \in rules : r.scheme = s => r.version \in 1..a.version
    BY <1>1, <2>1, <2>2, <2>6
  <2>8. \A k \in 1..a.version : \E r \in rules : r.scheme = s /\ r.version = k
    BY <1>1, <2>2 DEF NoGaps
  <2>9. Numbered(rules, s, a.version)
    BY <1>1, <2>2, <2>7, <2>8 DEF Numbered, RuleKey
  <2>10. QED BY <1>1, <1>3, <2>2, <2>5, <2>9
<1>4. QED BY <1>2, <1>3

LEMMA LedgerShapeNext ==
  (CatalogInv => \A s \in SchemeIds :
      /\ Numbered(rules, s, activeVersion[s])
      /\ activeVersion[s] = 0 <=> schemes[s] = NoRow)'
  BY LedgerShape, PTL

\* A step that leaves the criteria of every rule alone is a step of no ledger.
LEMMA LedgerStutters ==
  ASSUME CatalogInv, CatalogInv', rules' = rules
  PROVE  UNCHANGED <<rulesSoFar, activeVersion>>
<1>1. ASSUME NEW s \in SchemeIds PROVE activeVersion'[s] = activeVersion[s]
  <2>1. Numbered(rules, s, activeVersion[s]) /\ Numbered(rules, s, activeVersion'[s])
    BY LedgerShape, LedgerShapeNext
  <2> DEFINE n == activeVersion[s]
             m == activeVersion'[s]
  <2>2. n \in Nat /\ m \in Nat /\ 1..n = 1..m
    BY <2>1 DEF Numbered
  <2> HIDE DEF n, m
  <2>3. n = m
    BY <2>2
  <2>4. QED BY <2>3 DEF n, m
<1>2. UNCHANGED rulesSoFar
  BY DEF rulesSoFar
<1>3. UNCHANGED activeVersion
  BY <1>1 DEF activeVersion
<1>4. QED BY <1>2, <1>3

\* The first rules of new schemes.
FirstRules(S, o, first) == rules' = rules \cup {NewRule(o, s, 1, first[s]) : s \in S}

\* New schemes, each with its first rule.
LEMMA LedgerOpens ==
  ASSUME CatalogInv, CatalogInv', NEW S \in SUBSET SchemeIds, NEW o, NEW first \in [S -> Criteria],
         \A s \in S : schemes[s] = NoRow, FirstRules(S, o, first)
  PROVE  Ledger!Open(S, first)
<1>1. ASSUME NEW s \in SchemeIds
      PROVE  /\ rulesSoFar'[s] = IF s \in S THEN <<first[s]>> ELSE rulesSoFar[s]
             /\ activeVersion'[s] = IF s \in S THEN 1 ELSE activeVersion[s]
             /\ s \in S => rulesSoFar[s] = <<>>
  <2> DEFINE n == activeVersion[s]
             m == activeVersion'[s]
  <2>1. Numbered(rules, s, n) /\ Numbered(rules', s, m) /\ (n = 0 <=> schemes[s] = NoRow)
    BY LedgerShape, LedgerShapeNext
  <2>2. rulesSoFar[s] = HistoryOf(rules, s) /\ rulesSoFar'[s] = HistoryOf(rules', s)
    BY DEF rulesSoFar, HistoryOf
  <2>3. \A r \in rules : r.scheme = s =>
            \E q \in rules' : q.scheme = s /\ q.version = r.version /\ q.criteria = r.criteria
    BY DEF FirstRules
  <2> HIDE DEF n, m
  <2>4. CASE s \in S
    <3> DEFINE x == NewRule(o, s, 1, first[s])
    <3>1. n = 0 /\ x \in rules' /\ x.scheme = s /\ x.version = 1
            /\ x.criteria = first[s]
      BY <2>1, <2>4 DEF NewRule, FirstRules
    <3>2. \A r \in rules' : r.scheme = s => r = x
      <4>1. \A r \in rules : r.scheme # s
        BY <2>1, <3>1 DEF Numbered
      <4>2. \A t \in S : NewRule(o, t, 1, first[t]).scheme = t
        BY DEF NewRule
      <4>3. QED BY <4>1, <4>2 DEF FirstRules
    <3> HIDE DEF x
    <3>3. m = 1
      <4>1. m \in Nat /\ 1 \in 1..m /\ \A k \in 1..m : k = 1
        BY <2>1, <3>1, <3>2 DEF Numbered
      <4>2. QED BY <4>1
    <3>4. rulesSoFar[s] = <<>>
      <4>1. HistoryOf(rules, s) \in Seq(Criteria) /\ Len(HistoryOf(rules, s)) = 0
        BY <2>1, <3>1, HistoryIsSeq
      <4>2. QED BY <2>2, <4>1, EmptySeq
    <3>5. HistoryOf(rules', s) = Append(HistoryOf(rules, s), first[s])
      <4>1. m = n + 1
        BY <3>1, <3>3
      <4>2. Numbered(rules, s, n) /\ Numbered(rules', s, n + 1) /\ x.version = n + 1
        BY <2>1, <3>1, <4>1
      <4>3. x \in rules' /\ x.scheme = s
        BY <3>1
      <4>4. HistoryOf(rules', s) = Append(HistoryOf(rules, s), x.criteria)
        BY <2>3, <4>2, <4>3, HistoryLonger
      <4>5. QED BY <3>1, <4>4
    <3>6. rulesSoFar'[s] = <<first[s]>>
      <4>1. rulesSoFar'[s] = Append(rulesSoFar[s], first[s])
        BY <2>2, <3>5
      <4>2. Append(<<>>, first[s]) = <<first[s]>>
        OBVIOUS
      <4>3. QED BY <3>4, <4>1, <4>2
    <3>7. QED BY <2>4, <3>3, <3>4, <3>6 DEF m
  <2>5. CASE s \notin S
    <3>1. \A r \in rules' : r.scheme = s => r \in rules
      <4>1. \A t \in S : NewRule(o, t, 1, first[t]).scheme = t
        BY DEF NewRule
      <4>2. QED BY <2>5, <4>1 DEF FirstRules
    <3>2. n \in Nat /\ m \in Nat
      BY <2>1 DEF Numbered
    <3>3. n = m
      <4>1. \A k \in 1..n : k \in 1..m
        BY <2>1, <2>3 DEF Numbered
      <4>2. \A k \in 1..m : k \in 1..n
        BY <2>1, <3>1 DEF Numbered
      <4>3. QED BY <3>2, <4>1, <4>2
    <3>4. HistoryOf(rules', s) = HistoryOf(rules, s)
      BY <2>1, <2>3, <3>3, HistorySame
    <3>5. QED BY <2>2, <2>5, <3>3, <3>4 DEF n, m
  <2>6. QED BY <2>4, <2>5
<1>2. rulesSoFar' = [s \in SchemeIds |-> IF s \in S THEN <<first[s]>> ELSE rulesSoFar[s]]
  BY <1>1 DEF rulesSoFar
<1>3. activeVersion' = [s \in SchemeIds |-> IF s \in S THEN 1 ELSE activeVersion[s]]
  BY <1>1 DEF activeVersion
<1>4. QED BY <1>1, <1>2, <1>3 DEF Ledger!Open

\* The scheme of a stored rule b gets its next version.
LEMMA LedgerAmends ==
  ASSUME CatalogInv, CatalogInv', NEW b \in rules, NEW c \in Criteria,
         ~VersionTaken(b.org, b.scheme, b.version + 1),
         rules' = Supersede(b.org, b.scheme, b.version + 1, c)
  PROVE  b.scheme \in SchemeIds /\ Ledger!Amend(b.scheme, c)
<1> DEFINE u == b.scheme
           v == b.version
           x == NewRule(b.org, u, v + 1, c)
           old(r) == IF r.org = b.org /\ r.scheme = u THEN [r EXCEPT !.is_active = FALSE] ELSE r
<1>1. TypeInv /\ Tables /\ rules \subseteq RuleRow /\ u \in SchemeIds /\ v \in Nat \ {0}
  BY DEF CatalogInv, TypeInv, TypeOK, RuleRow
<1>2. \A r \in rules : r.scheme = u => r.version <= v
  BY <1>1, TopVersion
<1>3. \A r \in rules : old(r).scheme = r.scheme /\ old(r).version = r.version /\ old(r).criteria = r.criteria
  BY <1>1 DEF RuleRow
<1>4. x \in rules' /\ x.scheme = u /\ x.version = v + 1 /\ x.criteria = c
      /\ rules' = {old(r) : r \in rules} \cup {x}
  BY DEF Supersede, NewRule
<1> HIDE DEF x, old
<1>5. ASSUME NEW s \in SchemeIds
      PROVE  /\ rulesSoFar'[s] = IF s = u THEN Append(rulesSoFar[s], c) ELSE rulesSoFar[s]
             /\ activeVersion'[s] = IF s = u THEN activeVersion[s] + 1 ELSE activeVersion[s]
             /\ s = u => activeVersion[s] = v /\ rulesSoFar[s] # <<>> /\ Len(rulesSoFar[s]) = v
  <2> DEFINE n == activeVersion[s]
             m == activeVersion'[s]
  <2>1. Numbered(rules, s, n) /\ Numbered(rules', s, m)
    BY LedgerShape, LedgerShapeNext
  <2>2. rulesSoFar[s] = HistoryOf(rules, s) /\ rulesSoFar'[s] = HistoryOf(rules', s)
    BY DEF rulesSoFar, HistoryOf
  <2>3. \A r \in rules : r.scheme = s =>
            \E q \in rules' : q.scheme = s /\ q.version = r.version /\ q.criteria = r.criteria
    BY <1>3, <1>4
  <2> HIDE DEF n, m
  <2>4. CASE s = u
    <3>1. n = v
      <4>1. n \in Nat /\ v \in 1..n /\ \A k \in 1..n : k <= v
        BY <1>2, <2>1, <2>4 DEF Numbered
      <4>2. QED BY <1>1, <4>1
    <3>2. \A r \in rules' : r.scheme = u => r.version <= v + 1
      <4>1. \A r \in rules : r.version \in Nat
        BY <1>1 DEF RuleRow
      <4>2. ASSUME NEW r \in rules, r.scheme = u PROVE r.version <= v + 1
        BY <1>1, <1>2, <4>1, <4>2
      <4>3. x.version <= v + 1
        BY <1>1, <1>4
      <4>4. ASSUME NEW q \in rules', q.scheme = u PROVE q.version <= v + 1
        <5>1. CASE q = x
          BY <4>3, <5>1
        <5>2. CASE \E r \in rules : q = old(r)
          <6>1. PICK r \in rules : q = old(r)
            BY <5>2
          <6>2. q.scheme = r.scheme /\ q.version = r.version
            BY <1>3, <6>1
          <6>3. QED BY <4>2, <4>4, <6>2
        <5>3. QED BY <1>4, <5>1, <5>2
      <4>5. QED BY <4>4
    <3>3. m = v + 1
      <4>1. m \in Nat /\ v + 1 \in 1..m /\ \A k \in 1..m : k <= v + 1
        BY <1>4, <2>1, <2>4, <3>2 DEF Numbered
      <4>2. QED BY <1>1, <4>1
    <3>4. HistoryOf(rules', s) = Append(HistoryOf(rules, s), c)
      BY <1>4, <2>1, <2>3, <2>4, <3>1, <3>3, HistoryLonger
    <3>5. HistoryOf(rules, s) \in Seq(Criteria) /\ Len(HistoryOf(rules, s)) = v
      BY <2>1, <3>1, HistoryIsSeq
    <3>6. HistoryOf(rules, s) # <<>>
      BY <1>1, <3>5, EmptySeq
    <3>7. QED BY <2>2, <2>4, <3>1, <3>3, <3>4, <3>5, <3>6 DEF n, m
  <2>5. CASE s # u
    <3>1. \A r \in rules' : r.scheme = s => \E q \in rules : q.scheme = s /\ q.version = r.version
      BY <1>3, <1>4, <2>5
    <3>2. n \in Nat /\ m \in Nat
      BY <2>1 DEF Numbered
    <3>3. \A k \in 1..n : k \in 1..m
      BY <2>1, <2>3 DEF Numbered
    <3>4. \A k \in 1..m : k \in 1..n
      BY <2>1, <3>1 DEF Numbered
    <3>5. n = m
      BY <3>2, <3>3, <3>4
    <3>6. HistoryOf(rules', s) = HistoryOf(rules, s)
      BY <2>1, <2>3, <3>5, HistorySame
    <3>7. QED BY <2>2, <2>5, <3>5, <3>6 DEF n, m
  <2>6. QED BY <2>4, <2>5
<1>6. rulesSoFar' = [rulesSoFar EXCEPT ![u] = Append(rulesSoFar[u], c)]
  <2>1. /\ rulesSoFar = [s \in SchemeIds |-> rulesSoFar[s]]
        /\ rulesSoFar' = [s \in SchemeIds |-> rulesSoFar'[s]]
    BY DEF rulesSoFar
  <2>2. QED BY <1>1, <1>5, <2>1
<1>7. activeVersion' = [activeVersion EXCEPT ![u] = activeVersion[u] + 1]
  <2>1. /\ activeVersion = [s \in SchemeIds |-> activeVersion[s]]
        /\ activeVersion' = [s \in SchemeIds |-> activeVersion'[s]]
    BY DEF activeVersion
  <2>2. QED BY <1>1, <1>5, <2>1
<1>8. QED BY <1>1, <1>5, <1>6, <1>7 DEF Ledger!Amend

\* Every step of the catalogue is a step of the ledger or leaves it alone.
LEMMA LedgerStep ==
  CatalogInv /\ CatalogInv' /\ [Next]_vars => [Ledger!Next]_<<rulesSoFar, activeVersion>>
<1> SUFFICES ASSUME CatalogInv, CatalogInv', [Next]_vars
             PROVE  [Ledger!Next]_<<rulesSoFar, activeVersion>>
  OBVIOUS
<1>1. CASE rules' = rules
  BY <1>1, LedgerStutters
<1>2. ASSUME NEW S \in SUBSET SchemeIds, NEW o, NEW first \in [S -> Criteria],
             \A s \in S : schemes[s] = NoRow, FirstRules(S, o, first)
      PROVE  Ledger!Next
  BY <1>2, LedgerOpens DEF Ledger!Next
<1>3. ASSUME NEW r \in Requests, CreateCommit(r) \/ PublishDraftInsert(r) PROVE Ledger!Next
  <2> DEFINE q == reqs[r]
             S == {q.scheme}
  <2>1. q \in Request /\ Loaded(q)
    BY DEF CatalogInv, TypeInv, TypeOK, InFlight
  <2>2. q.scheme \in SchemeIds /\ q.criteria \in Criteria
    BY <1>3, <2>1 DEF Request, Loaded, CreateCommit, PublishDraftInsert, At
  <2>3. schemes[q.scheme] = NoRow /\ rules' = rules \cup {NewRule(q.org, q.scheme, 1, q.criteria)}
    BY <1>3 DEF CreateCommit, PublishDraftInsert
  <2>4. PICK first \in [S -> Criteria] : FirstRules(S, q.org, first)
    <3> DEFINE f == [s \in S |-> q.criteria]
    <3>1. f \in [S -> Criteria] /\ FirstRules(S, q.org, f)
      BY <2>2, <2>3 DEF FirstRules
    <3>2. QED BY <3>1
  <2>5. S \in SUBSET SchemeIds /\ \A s \in S : schemes[s] = NoRow
    BY <2>2, <2>3
  <2> HIDE DEF S
  <2>6. QED BY <1>2, <2>4, <2>5
<1>4. ASSUME NEW r \in Requests, SeedCommit(r) PROVE Ledger!Next
  <2> DEFINE S == reqs[r].todo
             f == [s \in S |-> SeedRule[s]]
  <2>1. S \in SUBSET SchemeIds /\ S \subseteq SeedIds
    BY <1>4 DEF CatalogInv, TypeInv, TypeOK, InFlight, Loaded, Request, SeedCommit, At
  <2>2. /\ \A s \in S : schemes[s] = NoRow
        /\ rules' = rules \cup {NewRule(PublicOrg, s, 1, SeedRule[s]) : s \in S}
    BY <1>4 DEF SeedCommit
  <2> HIDE DEF S
  <2>3. f \in [S -> Criteria] /\ FirstRules(S, PublicOrg, f)
    BY <2>1, <2>2, CatalogAssumption DEF FirstRules
  <2>4. QED BY <1>2, <2>1, <2>2, <2>3
<1>5. ASSUME NEW r \in Requests, UpdateCommit(r) \/ PublishDraftUpdate(r) PROVE Ledger!Next
  <2> DEFINE q == reqs[r]
  <2>1. q \in Request /\ Loaded(q) /\ Backed(q)
    BY DEF CatalogInv, TypeInv, TypeOK, InFlight, Ready
  <2>2. q.op \in {"update", "publish_draft"} /\ q.pc = "commit" /\ q.loaded # NoRow /\ q.criteria \in Criteria
    BY <1>5, <2>1, CatalogAssumption DEF Loaded, UpdateCommit, PublishDraftUpdate, At
  <2>3. PICK b \in rules : /\ b.org = q.org /\ b.scheme = q.scheme
                           /\ b.version = q.rule.version /\ b.criteria = q.rule.criteria
    BY <2>1, <2>2 DEF Backed
  <2>4. /\ ~VersionTaken(b.org, b.scheme, b.version + 1)
        /\ rules' = Supersede(b.org, b.scheme, b.version + 1, q.criteria)
    BY <1>5, <2>3 DEF UpdateCommit, PublishDraftUpdate
  <2>5. b.scheme \in SchemeIds /\ Ledger!Amend(b.scheme, q.criteria)
    BY <2>2, <2>4, LedgerAmends
  <2>6. QED BY <2>2, <2>5 DEF Ledger!Next
<1>6. ASSUME NEW r \in Requests, Handler(r) PROVE [Ledger!Next]_<<rulesSoFar, activeVersion>>
  <2>1. CASE \/ CreateCommit(r) \/ PublishDraftInsert(r) \/ SeedCommit(r)
             \/ UpdateCommit(r) \/ PublishDraftUpdate(r)
    BY <1>3, <1>4, <1>5, <2>1
  <2>2. CASE ~(\/ CreateCommit(r) \/ PublishDraftInsert(r) \/ SeedCommit(r)
               \/ UpdateCommit(r) \/ PublishDraftUpdate(r))
    <3>1. rules' = rules
      BY <1>6, <2>2 DEF Handler, CreateCheck, UpdateReadScheme, UpdateReadRule, StatusReadScheme,
         PublishCommit, ArchiveCommit, PreviewRead, PreviewCommit, PublishDraftReadDraft,
         PublishDraftReadScheme, PublishDraftReadRule, SeedScan, MatchScan, MatchRule, MatchDone,
         Rollback, tables
    <3>2. QED BY <1>1, <3>1
  <2>3. QED BY <2>1, <2>2
<1>7. CASE \/ \E d \in Drafts : CreateDraft(d)
           \/ \E w \in Workers : JobScan(w) \/ JobCommit(w) \/ JobCrash(w)
           \/ Tick
           \/ UNCHANGED vars
  <2>1. rules' = rules
    BY <1>7 DEF CreateDraft, JobScan, JobCommit, JobCrash, Tick, vars, tables
  <2>2. QED BY <1>1, <2>1
<1>8. QED BY <1>6, <1>7 DEF Next

LEMMA LedgerInit == Init => Ledger!Init
<1> SUFFICES ASSUME Init PROVE Ledger!Init
  OBVIOUS
<1>1. ASSUME NEW s \in SchemeIds PROVE rulesSoFar[s] = <<>> /\ activeVersion[s] = 0
  <2>1. activeVersion[s] = 0 /\ rules = {}
    BY DEF Init, activeVersion
  <2>2. Numbered(rules, s, 0) /\ rulesSoFar[s] = HistoryOf(rules, s)
    BY <2>1 DEF Numbered, rulesSoFar, HistoryOf
  <2>3. rulesSoFar[s] \in Seq(Criteria) /\ Len(rulesSoFar[s]) = 0
    BY <2>2, HistoryIsSeq
  <2>4. QED BY <2>1, <2>3, EmptySeq
<1>2. rulesSoFar = [s \in SchemeIds |-> <<>>] /\ activeVersion = [s \in SchemeIds |-> 0]
  BY <1>1 DEF rulesSoFar, activeVersion
<1>3. QED BY <1>2 DEF Ledger!Init

\* The rules of a scheme are a ledger that only grows, one entry at a time, whose last entry
\* is the one in force: the handlers implement the history the version numbers promise
\* (services/schemes.py:98-130, admin_panel/scheme_drafts.py:115-147, services/seeds.py).
THEOREM RulesImplementLedger == Spec => ImplementsLedger
<1>1. CatalogInv /\ CatalogInv' /\ [Next]_vars => [Ledger!Next]_<<rulesSoFar, activeVersion>>
  BY LedgerStep
<1>2. QED BY <1>1, LedgerInit, CatalogInvariant, PTL DEF Spec, ImplementsLedger, Ledger!Spec

\* What follows for every ledger: the entry in force is the last one.
LastInForce ==
    \A s \in SchemeIds : rulesSoFar[s] \in Seq(Criteria) /\ activeVersion[s] = Len(rulesSoFar[s])

\* A step adds at most one entry to a ledger, and changes none.
Appended ==
    \A s \in SchemeIds :
        /\ Len(rulesSoFar'[s]) \in {Len(rulesSoFar[s]), Len(rulesSoFar[s]) + 1}
        /\ \A v \in 1..Len(rulesSoFar[s]) : rulesSoFar'[s][v] = rulesSoFar[s][v]

LEMMA LedgerKept ==
    ASSUME LastInForce, [Ledger!Next]_<<rulesSoFar, activeVersion>>
    PROVE  LastInForce' /\ Appended
<1>1. DOMAIN rulesSoFar = SchemeIds /\ DOMAIN activeVersion = SchemeIds
  BY DEF rulesSoFar, activeVersion
<1> HIDE DEF rulesSoFar, activeVersion
<1>2. ASSUME NEW S \in SUBSET SchemeIds, NEW first \in [S -> Criteria], Ledger!Open(S, first)
      PROVE  LastInForce' /\ Appended
  <2>1. ASSUME NEW s \in SchemeIds
        PROVE  \/ /\ rulesSoFar[s] = <<>> /\ activeVersion'[s] = 1
                  /\ \E c \in Criteria : rulesSoFar'[s] = <<c>>
               \/ rulesSoFar'[s] = rulesSoFar[s] /\ activeVersion'[s] = activeVersion[s]
    BY <1>2 DEF Ledger!Open
  <2>2. Len(<<>>) = 0 /\ \A c \in Criteria : <<c>> \in Seq(Criteria) /\ Len(<<c>>) = 1
    OBVIOUS
  <2>3. LastInForce'
    BY <2>1, <2>2 DEF LastInForce
  <2>4. ASSUME NEW s \in SchemeIds
        PROVE  /\ Len(rulesSoFar'[s]) \in {Len(rulesSoFar[s]), Len(rulesSoFar[s]) + 1}
               /\ \A v \in 1..Len(rulesSoFar[s]) : rulesSoFar'[s][v] = rulesSoFar[s][v]
    <3>1. CASE rulesSoFar[s] = <<>> /\ \E c \in Criteria : rulesSoFar'[s] = <<c>>
      <4>1. Len(rulesSoFar[s]) = 0 /\ Len(rulesSoFar'[s]) = 1
        BY <2>2, <3>1
      <4>2. QED BY <4>1
    <3>2. QED BY <2>1, <3>1
  <2>5. QED BY <2>3, <2>4 DEF Appended
<1>3. ASSUME NEW a \in SchemeIds, NEW c \in Criteria, Ledger!Amend(a, c)
      PROVE  LastInForce' /\ Appended
  <2>1. /\ rulesSoFar' = [rulesSoFar EXCEPT ![a] = Append(rulesSoFar[a], c)]
        /\ activeVersion' = [activeVersion EXCEPT ![a] = activeVersion[a] + 1]
    BY <1>3 DEF Ledger!Amend
  <2>2. ASSUME NEW s \in SchemeIds
        PROVE  \/ rulesSoFar'[s] = Append(rulesSoFar[s], c) /\ activeVersion'[s] = activeVersion[s] + 1
               \/ rulesSoFar'[s] = rulesSoFar[s] /\ activeVersion'[s] = activeVersion[s]
    BY <1>1, <2>1
  <2>3. ASSUME NEW s \in SchemeIds
        PROVE  /\ rulesSoFar[s] \in Seq(Criteria) /\ activeVersion[s] = Len(rulesSoFar[s])
               /\ Append(rulesSoFar[s], c) \in Seq(Criteria)
               /\ Len(Append(rulesSoFar[s], c)) = Len(rulesSoFar[s]) + 1
               /\ \A v \in 1..Len(rulesSoFar[s]) : Append(rulesSoFar[s], c)[v] = rulesSoFar[s][v]
    <3>1. rulesSoFar[s] \in Seq(Criteria) /\ activeVersion[s] = Len(rulesSoFar[s])
      BY DEF LastInForce
    <3>2. QED BY <3>1
  <2>4. LastInForce'
    BY <2>2, <2>3 DEF LastInForce
  <2>5. Appended
    BY <2>2, <2>3 DEF Appended
  <2>6. QED BY <2>4, <2>5
<1>4. CASE UNCHANGED <<rulesSoFar, activeVersion>>
  BY <1>4 DEF LastInForce, Appended
<1>5. QED BY <1>2, <1>3, <1>4 DEF Ledger!Next

\* What an auditor may rely on: a rule that was ever in force stays in the history at its
\* place, as it was, and the rule in force is the last of the history.  It follows from the
\* ledger alone (services/schemes.py:98-130).
THEOREM HistoryIsAppendOnly == Spec => []LastInForce /\ [][Appended]_<<rulesSoFar, activeVersion>>
<1>1. Ledger!Init => LastInForce
  BY DEF Ledger!Init, LastInForce
<1>2. LastInForce /\ [Ledger!Next]_<<rulesSoFar, activeVersion>> => LastInForce' /\ [Appended]_<<rulesSoFar, activeVersion>>
  BY LedgerKept
<1>3. Ledger!Spec => []LastInForce /\ [][Appended]_<<rulesSoFar, activeVersion>>
  BY <1>1, <1>2, PTL DEF Ledger!Spec
<1>4. QED BY <1>3, RulesImplementLedger, PTL DEF ImplementsLedger

-----------------------------------------------------------------------------
(* Whose step changes a scheme.                                              *)

Untouched(s) == schemes'[s] = schemes[s] /\ {r \in rules : r.scheme = s} = {r \in rules' : r.scheme = s}

\* A step of the owner, or of an expiry job.
OwnStep(s) ==
    \/ jobs' # jobs
    \/ \E r \in Requests : reqs[r].org = schemes[s].org /\ reqs'[r] # reqs[r]

\* The commit of a handler that touches at most the scheme it is about.
LEMMA OwnCommit ==
  ASSUME CatalogInv, NEW r \in Requests, reqs[r].op # "none", Done(r), NEW s \in SchemeIds,
         s # reqs[r].scheme => Untouched(s), s = reqs[r].scheme => OwnScheme(reqs[r].org, s)
  PROVE  Untouched(s) \/ OwnStep(s)
<1>1. reqs'[r] = Idle /\ reqs[r] # Idle
  BY IdleType DEF Done, CatalogInv, TypeInv, TypeOK
<1>2. QED BY <1>1 DEF OwnStep, OwnScheme

\* The steps of a handler that write schemes or rules.
CatalogueCommit(r) ==
    \/ CreateCommit(r) \/ PublishDraftInsert(r) \/ SeedCommit(r) \/ UpdateCommit(r)
    \/ PublishDraftUpdate(r) \/ PublishCommit(r) \/ ArchiveCommit(r)

LEMMA OthersOnlyRead ==
  ASSUME NEW r \in Requests, Handler(r), ~CatalogueCommit(r)
  PROVE  rules' = rules /\ schemes' = schemes
BY DEF Handler, CatalogueCommit, CreateCheck, UpdateReadScheme, UpdateReadRule, StatusReadScheme,
   PreviewRead, PreviewCommit, PublishDraftReadDraft, PublishDraftReadScheme,
   PublishDraftReadRule, SeedScan, MatchScan, MatchRule, MatchDone, Rollback, tables

LEMMA ForeignHandler ==
  ASSUME CatalogInv, NEW r \in Requests, Handler(r), NEW s \in SchemeIds, schemes[s] # NoRow
  PROVE  Untouched(s) \/ OwnStep(s)
<1> DEFINE q == reqs[r]
<1>1. q \in Request /\ Loaded(q) /\ rules \subseteq RuleRow /\ schemes \in [SchemeIds -> SchemeRow \cup {NoRow}]
  BY DEF CatalogInv, TypeInv, TypeOK, InFlight
<1>2. CASE CreateCommit(r) \/ PublishDraftInsert(r)
  <2>1. schemes[q.scheme] = NoRow /\ rules' = rules \cup {NewRule(q.org, q.scheme, 1, q.criteria)}
    BY <1>2 DEF CreateCommit, PublishDraftInsert
  <2>2. s # q.scheme
    BY <2>1
  <2>3. schemes'[s] = schemes[s]
    BY <1>1, <1>2, <2>2 DEF CreateCommit, PublishDraftInsert
  <2>4. NewRule(q.org, q.scheme, 1, q.criteria).scheme = q.scheme
    BY DEF NewRule
  <2>5. QED BY <2>1, <2>2, <2>3, <2>4 DEF Untouched
<1>3. CASE SeedCommit(r)
  <2>1. /\ \A t \in q.todo : schemes[t] = NoRow
        /\ rules' = rules \cup {NewRule(PublicOrg, t, 1, SeedRule[t]) : t \in q.todo}
    BY <1>3 DEF SeedCommit
  <2>2. s \notin q.todo
    BY <2>1
  <2>3. schemes'[s] = schemes[s]
    BY <1>3, <2>2 DEF SeedCommit
  <2>4. \A t : NewRule(PublicOrg, t, 1, SeedRule[t]).scheme = t
    BY DEF NewRule
  <2>5. QED BY <2>1, <2>2, <2>3, <2>4 DEF Untouched
<1>4. CASE UpdateCommit(r) \/ PublishDraftUpdate(r)
  <2>1. q.op # "none" /\ Done(r) /\ OwnScheme(q.org, q.scheme)
    BY <1>1, <1>4 DEF Loaded, UpdateCommit, PublishDraftUpdate, At
  <2>2. ASSUME s # q.scheme PROVE Untouched(s)
    <3>1. schemes'[s] = schemes[s]
      BY <1>1, <1>4, <2>2 DEF UpdateCommit, PublishDraftUpdate
    <3>2. rules' = Supersede(q.org, q.scheme, q.rule.version + 1, q.criteria)
      BY <1>4 DEF UpdateCommit, PublishDraftUpdate
    <3>3. \A x \in rules : x.scheme = s => x \in rules'
      BY <2>2, <3>2 DEF Supersede
    <3>4. ASSUME NEW x \in rules', x.scheme = s PROVE x \in rules
      <4>1. CASE x = NewRule(q.org, q.scheme, q.rule.version + 1, q.criteria)
        BY <2>2, <3>4, <4>1 DEF NewRule
      <4>2. CASE \E y \in rules : x = IF y.org = q.org /\ y.scheme = q.scheme
                                       THEN [y EXCEPT !.is_active = FALSE] ELSE y
        <5>1. PICK y \in rules : x = IF y.org = q.org /\ y.scheme = q.scheme
                                     THEN [y EXCEPT !.is_active = FALSE] ELSE y
          BY <4>2
        <5>2. CASE y.org = q.org /\ y.scheme = q.scheme
          <6>1. x = [y EXCEPT !.is_active = FALSE] /\ y \in RuleRow
            BY <1>1, <5>1, <5>2
          <6>2. x.scheme = y.scheme
            BY <6>1 DEF RuleRow
          <6>3. QED BY <2>2, <3>4, <5>2, <6>2
        <5>3. CASE ~(y.org = q.org /\ y.scheme = q.scheme)
          BY <5>1, <5>3
        <5>4. QED BY <5>2, <5>3
      <4>3. QED BY <3>2, <3>4, <4>1, <4>2 DEF Supersede
    <3>5. {x \in rules : x.scheme = s} = {x \in rules' : x.scheme = s}
      BY <3>3, <3>4
    <3>6. QED BY <3>1, <3>5 DEF Untouched
  <2>3. QED BY <2>1, <2>2, OwnCommit
<1>5. CASE PublishCommit(r) \/ ArchiveCommit(r)
  <2>1. q.op # "none" /\ Done(r) /\ OwnScheme(q.org, q.scheme) /\ rules' = rules
    BY <1>1, <1>5 DEF Loaded, PublishCommit, ArchiveCommit, At
  <2>2. s # q.scheme => schemes'[s] = schemes[s]
    BY <1>1, <1>5 DEF PublishCommit, ArchiveCommit
  <2>3. QED BY <2>1, <2>2, OwnCommit DEF Untouched
<1>6. CASE ~CatalogueCommit(r)
  BY <1>6, OthersOnlyRead DEF Untouched
<1>7. QED BY <1>2, <1>3, <1>4, <1>5, <1>6 DEF CatalogueCommit

LEMMA ForeignStep ==
  ASSUME CatalogInv, [Next]_vars, NEW s \in SchemeIds, schemes[s] # NoRow
  PROVE  Untouched(s) \/ OwnStep(s)
<1>1. ASSUME NEW w \in Workers, JobCommit(w) PROVE OwnStep(s)
  <2>1. jobs[w].running /\ jobs'[w] = NoJob
    BY <1>1 DEF JobCommit, CatalogInv, TypeInv, TypeOK
  <2>2. jobs' # jobs
    BY <2>1 DEF NoJob
  <2>3. QED BY <2>2 DEF OwnStep
<1>2. ASSUME \/ \E d \in Drafts : CreateDraft(d)
             \/ \E w \in Workers : JobScan(w) \/ JobCrash(w)
             \/ Tick
             \/ UNCHANGED vars
      PROVE  Untouched(s)
  <2>1. rules' = rules /\ schemes' = schemes
    BY <1>2 DEF CreateDraft, JobScan, JobCrash, Tick, vars, tables
  <2>2. QED BY <2>1 DEF Untouched
<1>3. QED BY <1>1, <1>2, ForeignHandler DEF Next

\* Only handlers of the organisation that owns a scheme, and the expiry job, change its row
\* or its rules, although a draft is published into the scheme with that global key, whoever
\* owns it (admin_panel/scheme_drafts.py:112, 140).
THEOREM OthersKeepOut == Spec => ForeignSchemeUntouched
<1>1. CatalogInv /\ [Next]_vars =>
        [\A s \in SchemeIds :
            /\ schemes[s] # NoRow
            /\ \/ schemes'[s] # schemes[s]
               \/ {r \in rules : r.scheme = s} # {r \in rules' : r.scheme = s}
            => \/ jobs' # jobs
               \/ \E r \in Requests : reqs[r].org = schemes[s].org /\ reqs'[r] # reqs[r]]_vars
  BY ForeignStep DEF Untouched, OwnStep
<1>2. QED BY <1>1, CatalogInvariant, PTL DEF Spec, ForeignSchemeUntouched

-----------------------------------------------------------------------------
(* Two columns say whether a scheme is offered; who may set them apart.      *)

Consistent(row) == row.is_active <=> row.status = "active"

\* A request that ends although its scheme's row is not the one it read.
Overtaken(s) ==
    \E r \in Requests : /\ reqs[r].scheme = s /\ reqs[r].loaded \notin {NoRow, schemes[s]}
                        /\ reqs[r].pc = "commit" /\ reqs'[r] = Idle

MixedByOverlap ==
    [][\A s \in SchemeIds : schemes'[s] # schemes[s] /\ ~Consistent(schemes'[s]) => Overtaken(s)]_vars

\* Who commits over the row it has read leaves the columns as it means them.
LEMMA OwnColumns ==
  ASSUME CatalogInv, NEW r \in Requests, NEW n \in SchemeRow, Consistent(n), n.org = reqs[r].loaded.org,
         reqs[r].pc = "commit", reqs[r].loaded # NoRow, reqs[r].scheme \in SchemeIds,
         schemes' = [schemes EXCEPT ![reqs[r].scheme] = OrmUpdate(n, reqs[r].loaded, schemes[reqs[r].scheme])],
         Done(r), NEW s \in SchemeIds, schemes'[s] # schemes[s], ~Consistent(schemes'[s])
  PROVE  Overtaken(s)
<1> DEFINE q == reqs[r]
<1>1. /\ schemes \in [SchemeIds -> SchemeRow \cup {NoRow}] /\ q.loaded \in SchemeRow
      /\ reqs'[r] = Idle
  BY DEF CatalogInv, TypeInv, TypeOK, Request, Done
<1>2. s = q.scheme /\ schemes'[s] = OrmUpdate(n, q.loaded, schemes[s])
  BY <1>1
<1>3. CASE q.loaded = schemes[s]
  <2>1. /\ OrmUpdate(n, q.loaded, schemes[s]).is_active = n.is_active
        /\ OrmUpdate(n, q.loaded, schemes[s]).status = n.status
    BY <1>1, <1>3 DEF OrmUpdate, Flushed, SchemeRow
  <2>2. QED BY <1>2, <2>1 DEF Consistent
<1>4. QED BY <1>1, <1>2, <1>3 DEF Overtaken

LEMMA ColumnsStep ==
  ASSUME CatalogInv, [Next]_vars, NEW s \in SchemeIds, schemes'[s] # schemes[s], ~Consistent(schemes'[s])
  PROVE  Overtaken(s)
<1>1. ASSUME NEW r \in Requests, Handler(r) PROVE Overtaken(s)
  <2> DEFINE q == reqs[r]
  <2>1. /\ q \in Request /\ Loaded(q)
        /\ schemes \in [SchemeIds -> SchemeRow \cup {NoRow}]
    BY DEF CatalogInv, TypeInv, TypeOK, InFlight
  <2>2. /\ q.scheme \in SchemeIds /\ q.valid_until \in Untils \cup {Keep} /\ q.publish \in BOOLEAN
        /\ q.loaded \in SchemeRow \cup {NoRow} /\ NoRow \notin SchemeRow
    BY <2>1, CatalogAssumption DEF Request
  <2> HIDE DEF q
  <2>3. CASE CreateCommit(r)
    <3>1. schemes'[s] = [org |-> q.org, status |-> "draft", is_active |-> FALSE, valid_until |-> q.valid_until]
      BY <2>1, <2>3, <2>2 DEF CreateCommit, q
    <3>2. QED BY <3>1 DEF Consistent
  <2>4. CASE PublishDraftInsert(r)
    <3>1. schemes'[s] = [org |-> q.org, status |-> "active", is_active |-> TRUE, valid_until |-> q.valid_until]
      BY <2>1, <2>4, <2>2 DEF PublishDraftInsert, q
    <3>2. QED BY <3>1 DEF Consistent
  <2>5. CASE SeedCommit(r)
    <3>1. schemes'[s] = [org |-> PublicOrg, status |-> "active", is_active |-> TRUE, valid_until |-> Never]
      BY <2>1, <2>5 DEF SeedCommit, q
    <3>2. QED BY <3>1 DEF Consistent
  <2>6. CASE UpdateCommit(r)
    <3> DEFINE n == [q.loaded EXCEPT !.status = IF q.publish THEN "active" ELSE "draft",
                                     !.is_active = q.publish,
                                     !.valid_until = Patched(q.valid_until, @)]
    <3>1. q.pc = "commit" /\ q.loaded # NoRow /\ q.loaded \in SchemeRow /\ Done(r)
      BY <2>1, <2>6, <2>2 DEF UpdateCommit, At, Loaded, q
    <3>2. schemes' = [schemes EXCEPT ![q.scheme] = OrmUpdate(n, q.loaded, schemes[q.scheme])]
      BY <2>1, <2>6, <3>1 DEF UpdateCommit, q
    <3>3. Patched(q.valid_until, q.loaded.valid_until) \in Untils
      BY <2>2, <3>1 DEF Patched, SchemeRow
    <3>4. n \in SchemeRow /\ n.org = q.loaded.org /\ Consistent(n)
      BY <2>2, <3>1, <3>3 DEF SchemeRow, Statuses, Consistent
    <3>5. QED BY <3>1, <3>2, <3>4, <2>2, OwnColumns DEF q
  <2>7. CASE PublishCommit(r) \/ ArchiveCommit(r) \/ PublishDraftUpdate(r)
    <3>1. q.pc = "commit" /\ q.loaded # NoRow /\ q.loaded \in SchemeRow /\ Done(r)
      BY <2>1, <2>7, <2>2 DEF PublishCommit, ArchiveCommit, PublishDraftUpdate, At, Loaded, q
    <3>2. CASE PublishCommit(r)
      <4> DEFINE n == [q.loaded EXCEPT !.status = "active", !.is_active = TRUE]
      <4>1. schemes' = [schemes EXCEPT ![q.scheme] = OrmUpdate(n, q.loaded, schemes[q.scheme])]
        BY <2>1, <3>1, <3>2 DEF PublishCommit, q
      <4>2. n \in SchemeRow /\ n.org = q.loaded.org /\ Consistent(n)
        BY <3>1 DEF SchemeRow, Statuses, Consistent
      <4>3. QED BY <3>1, <4>1, <4>2, <2>2, OwnColumns DEF q
    <3>3. CASE ArchiveCommit(r)
      <4> DEFINE n == [q.loaded EXCEPT !.status = "archived", !.is_active = FALSE]
      <4>1. schemes' = [schemes EXCEPT ![q.scheme] = OrmUpdate(n, q.loaded, schemes[q.scheme])]
        BY <2>1, <3>1, <3>3 DEF ArchiveCommit, q
      <4>2. n \in SchemeRow /\ n.org = q.loaded.org /\ Consistent(n)
        BY <3>1 DEF SchemeRow, Statuses, Consistent
      <4>3. QED BY <3>1, <4>1, <4>2, <2>2, OwnColumns DEF q
    <3>4. CASE PublishDraftUpdate(r)
      <4> DEFINE n == [q.loaded EXCEPT !.status = "active", !.is_active = TRUE, !.valid_until = q.valid_until]
      <4>1. schemes' = [schemes EXCEPT ![q.scheme] = OrmUpdate(n, q.loaded, schemes[q.scheme])]
        BY <2>1, <3>1, <3>4 DEF PublishDraftUpdate, q
      <4>2. q.valid_until \in Untils
        BY <2>1, <3>4 DEF PublishDraftUpdate, At, Loaded, q
      <4>3. n \in SchemeRow /\ n.org = q.loaded.org /\ Consistent(n)
        BY <3>1, <4>2 DEF SchemeRow, Statuses, Consistent
      <4>4. QED BY <3>1, <4>1, <4>3, <2>2, OwnColumns DEF q
    <3>5. QED BY <2>7, <3>2, <3>3, <3>4
  <2>8. CASE ~CatalogueCommit(r)
    BY <1>1, <2>8, OthersOnlyRead
  <2>9. QED BY <2>3, <2>4, <2>5, <2>6, <2>7, <2>8 DEF CatalogueCommit
<1>2. ASSUME NEW w \in Workers, JobCommit(w) PROVE FALSE
  <2>1. schemes \in [SchemeIds -> SchemeRow \cup {NoRow}]
    BY DEF CatalogInv, TypeInv, TypeOK
  <2>2. s \in jobs[w].due /\ schemes'[s] = [schemes[s] EXCEPT !.status = "expired", !.is_active = FALSE]
    <3>1. schemes'[s] = IF s \in jobs[w].due
                        THEN [schemes[s] EXCEPT !.status = "expired", !.is_active = FALSE] ELSE schemes[s]
      BY <1>2 DEF JobCommit
    <3>2. QED BY <3>1
  <2>3. schemes[s] \in SchemeRow
    BY <2>1, <2>2 DEF CatalogInv, TypeInv, InFlight
  <2>4. schemes'[s].status = "expired" /\ schemes'[s].is_active = FALSE
    BY <2>2, <2>3 DEF SchemeRow
  <2>5. QED BY <2>4 DEF Consistent
<1>3. QED
  BY <1>1, <1>2 DEF Next, CreateDraft, JobScan, JobCrash, Tick, vars, tables

\* A scheme whose status and is_active disagree was written by a request whose row somebody
\* else changed after it was read: the expiry job, the seeds and whoever works alone on a
\* scheme leave the two columns in agreement, also where they were not before
\* (services/schemes.py:119-129, 161-182; db/models: the ORM's column-wise UPDATE).
THEOREM OnlyOverlapMixesColumns == Spec => MixedByOverlap
<1>1. CatalogInv /\ [Next]_vars =>
        [\A s \in SchemeIds : schemes'[s] # schemes[s] /\ ~Consistent(schemes'[s]) => Overtaken(s)]_vars
  BY ColumnsStep
<1>2. QED BY <1>1, CatalogInvariant, PTL DEF Spec, MixedByOverlap
=============================================================================
