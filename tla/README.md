# Formal models of AdhikarAI

AdhikarAI tells people in India which welfare schemes they qualify for. A FastAPI
backend (`backend/app`) keeps schemes, eligibility rules, profiles and
conversations in PostgreSQL, keeps a copy of each conversation in Redis, and
serves a Next.js client. This directory holds TLA+ models of the backend's
stateful parts, TLC runs on small instances, and proofs checked by TLAPS.

## 1. Inventory

| Part | State it keeps | Operations | Talks to | What is hard |
|---|---|---|---|---|
| Scheme catalogue `services/schemes.py` | `schemes`, `eligibility_rules`, `scheme_versions` | create, update, publish, archive, read active rules | validation, matcher, search | overlapping admin writes without row locks; matcher reads in several queries |
| Scheme drafts `admin_panel/scheme_drafts.py` | `scheme_drafts`, `scheme_audit_logs` | create, preview, publish | catalogue | checks long before writes, global scheme ids |
| Seeds `services/seeds.py` | catalogue rows | import | catalogue | two imports, all-or-nothing |
| Expiry job `services/jobs` | catalogue rows, notifications | one run per day and process | catalogue | races with admins, lost runs |
| Agent sessions `services/sessions`, `agent` | `conversation_sessions`, `conversation_messages`, Redis state | open, read, chat turn | profiles, catalogue, search, engine | two copies of one state, failure between two commits |
| Profiles, households `services/profiles.py`, `households.py` | `profiles`, `profile_events` | patch, add member, delete member | engine | written by chat and API at the same time |
| Eligibility engine `services/eligibility` | none | evaluate, match, near misses | catalogue | three-valued answers, thresholds |
| Completeness, questions `agent/completeness.py`, `question_selection.py` | `asked_fields` | score, next question | catalogue | termination of the questionnaire |
| Search index `services/search` | index file, id file, `faiss_indexes` | rebuild, search | catalogue | two files and a row that must agree |
| OTP login `services/phase4.py` | `otp_challenges`, `users` | send, verify | provider | attempts counted under races, retries |
| User services `services/phase4.py` | saved schemes, checklists, statuses, sync events | save, delete, update, sync | catalogue | idempotency keys, reminders |
| Dashboard `dashboard` | beneficiaries, follow-ups, notes, audit | create, update, status | user services | two writers of one status |
| Bulk eligibility, rate limit | `bulk_eligibility_jobs`, Redis counters | upload, count | dashboard, chat | counter at its limit, half consumption |
| Voice, translation, speech | Redis caches, event rows | voice turn | agent sessions, providers | failure after the turn has committed |
| Documents, ingestion, configuration, CLI, frontend | little | | | pure computation, wiring |

How they interact: every HTTP handler gets an `AsyncSession` of its own
(`db/session.py`) on a READ COMMITTED database; handlers of one process
interleave at every `await`, and several processes run side by side. No query
uses `FOR UPDATE`. Unique constraints and primary keys are the only thing that
stops two handlers; the loser fails with its whole transaction. The ORM's UPDATE
writes only columns whose value differs from the one its session loaded.

What makes each part correct, in short: the catalogue keeps exactly one active
rule per scheme and a complete history, and never leaves the matcher without a
rule; organisations do not touch each other's schemes; overdue schemes are
retired; a chat turn changes only the profile facts it heard, and never loses
what is stored; a session always ends in a result; a code verifies at most once
and within its attempts; an event is applied once; caches answer what the source
would.

`PROJECT.json` lists every hazard at its line, with the properties that cover it.

## 2. Plan

What is there, in the order of importance it was built in:

| Modules | Part | Checked by | Proved in |
|---|---|---|---|
| `SchemeCatalog`, `RuleLedger` | catalogue, drafts, seeds, expiry job | `rules`, `tenants`, `expiry`, two violations | `SchemeCatalogProofs` |
| `AgentSession` | chat turns, profiles, household | `turns`, `household`, three violations | `AgentSessionProofs` |
| `Accounts` | OTP login, guest migration, deletion | `citizen` | `AccountsProofs` |
| `UserServices` (extends `Accounts`), `ChangeStore` | saved schemes, checklist, offline queue, application status | `citizen` | `AccountsProofs` |
| `Eligibility` | verdicts, completeness, question choice, interview | `assistant` | `EligibilityProofs` |
| `VoiceTurn`, `VoiceSocket` | voice pipeline with its caches, its socket | `assistant` | `VoiceTurnProofs` |
| `SearchIndex` | index files, their rows, rebuilds and searches | `assistant` | `SearchIndexProofs` |
| `Documents` | document checks | `assistant` | `EligibilityProofs` |
| `Quota` | daily limits, bulk upload | `assistant` | `QuotaProofs` |
| `Office` | beneficiaries, follow-ups, lists, audit | `assistant` | `AssistantProofs` |

Every safety property of the passing runs, the two refinements among them, is stated by a
theorem; for `assistant` and `citizen` also as one theorem about the very specification the
run checks. The three liveness properties stay with TLC, and for two of them the safety
part is proved (section 5). Left for later: the hazards of `PROJECT.json` that have no
property.

## 3. The scheme catalogue

`SchemeCatalog` has the five tables as variables: `schemes` and `drafts` are
functions from their primary key to a row or `NoRow`; `rules` and `versions` are
sets of rows; `published` counts the "publish" audit rows of each draft. `today`
is the date, `reqs[r]` a handler in progress and `jobs[w]` the expiry job of
process `w`.

A handler is split at its awaited reads, and remembers what it loaded:

| Code | Actions |
|---|---|
| `create_scheme` | `CreateCheck`, `CreateCommit` |
| `update_scheme` | `UpdateReadScheme`, `UpdateReadRule`, `UpdateCommit` |
| `publish_scheme`, `archive_scheme` | `StatusReadScheme`, `PublishCommit` / `ArchiveCommit` |
| `create_scheme_draft` | `CreateDraft` |
| `preview_scheme_draft` | `PreviewRead`, `PreviewCommit` |
| `publish_scheme_draft` | `PublishDraftReadDraft`, `PublishDraftReadScheme`, `PublishDraftReadRule`, `PublishDraftInsert` / `PublishDraftUpdate` |
| `seed_central_schemes` | `SeedScan`, `SeedCommit` |
| `expire_schemes` | `JobScan`, `JobCommit`, `JobCrash` |
| `active_scheme_rules`, `active_scheme_rules_for_ids` | `MatchScan`, `MatchRule`, `MatchDone` |
| any failure, cancellation or crash of a handler | `Rollback` |

*Flush and commit are one step.* The first flush of a writing handler takes the
row locks and the unique keys it needs and keeps them to the commit; nobody sees
anything before. Two handlers that add a version of one scheme meet on the unique
key `(organisation, scheme, version)` before they reach the rules, and those that
only write the scheme's row meet on its row lock. A commit on a taken key is not
enabled; that handler can only take `Rollback`.

*Column-wise updates.* `OrmUpdate(new, loaded, current)` writes a column only when
the handler's value differs from what it loaded. Two writers can so mix their
columns. A publish and an archive that overlap, or the job and a PATCH, can leave
`status = "expired"` with `is_active = TRUE`, a row the job never selects again;
no such row is served, because the matcher asks for both columns.

*Exclusions* are the only part of a rule that other rows matter for, so a rule's
payload is a model value and `Exclusions` says which schemes it excludes. A seed brings the
rule the file has for it (`SeedRule`): what it excludes is in the file, because the import
validates it against the ids of the file.

### Runs

| Run | Instance | Question |
|---|---|---|
| `rules` | 1 scheme, 2 payloads, 1 draft, 2 concurrent handlers, 3 versions | rule history and its refinement of `RuleLedger`, the matcher's reads |
| `tenants` | 2 schemes, 2 organisations, two seeds of which one excludes the other, 2 handlers | isolation, exclusions |
| `expiry` | 1 scheme, 1 admin handler, the job in 2 processes, 3 days | retirement under fairness |
| `lost_renewal` | 1 scheme, 1 handler, the job | violated: a renewal committed during the job is lost |
| `republish` | 1 draft, 1 handler | violated: a previewed draft is published again |

Two handlers suffice for every race of these properties: a race needs a reader
that remembers and a writer that commits in between, and the theorems below hold
for any number. Three versions let a history have a first, a middle and a last
rule. `expiry` needs a day of validity, the day after, and one more, so that a scheme whose
first overdue day saw no run must be found on a later one. Each
bound (`LastDay`, `MaxVersion`) is a constant that guards the action it limits.
`Ops` selects the handlers of a run.

*Fairness* (`FairSpec`): the cron trigger fires every day, so a job that is not
running starts in the end (`WF` of `JobScan`), and not every run crashes or is
overtaken (`SF` of `JobCommit`). Nothing is assumed of admins: they may stop, or
write for ever.

### Findings

* A renewal is lost (`lost_renewal`): the job writes the rows it selected earlier
  without asking again whether they are overdue.
* A draft is published twice (`republish`): `preview_scheme_draft` sets the status
  of a published draft back to `previewed`.

Read while modelling, and without a run:

* A seed can exclude another organisation's scheme. `pm_vishwakarma` excludes `mudra`
  (`seeds/central_schemes.v1.json:22`); `seed_central_schemes` validates that against the ids
  of the file (`services/seeds.py:30, 38`) and then leaves out every id that exists, whoever
  owns it (lines 34-36). If another organisation has a scheme `mudra`, the public
  organisation gets a rule that names a scheme it does not have, although
  `docs/prd/phase-1-foundation-eligibility-engine.md:96` says "Rule validation must reject
  `exclusion_scheme_ids` that do not exist in the same `organisation_id`". An admin's rule is
  refused for it (`services/eligibility/validation.py:46-54`); a PATCH of that scheme without a rule of its own
  validates the merged rule and is refused. `tenants` reaches such rules, so
  `NoDanglingExclusion` asks of a seed's first rule only that what it excludes exists, and
  of every other rule that it is in the organisation.
* Publishing rebuilds no search index, as
  `docs/prd/phase-1-foundation-eligibility-engine.md:922` says it does.

`docs/workflows/scheme-admin-draft-publish.md`
says that a scheme created by a draft starts with status `draft` and needs a
separate publish action (lines 69-70) and that a preview changes nothing in the
database (line 56). The code publishes at once and stores the preview.

### Proofs

`SchemeCatalogProofs` proves, for every value of the constants that
`CatalogAssumption` allows: `TypeOK`, `OneActiveRule`, `HistoryComplete`,
`MatchAlwaysAnswers` and `NoDanglingExclusion` are invariants of `Spec`.

None of them is inductive. `CatalogInv` adds three layers:

* `TypeInv`: types, and that what a handler has loaded still exists in the
  organisation it was found in, because no row is deleted or changes hands;
* `Tables`: every rule has an owner and a key, versions have no gaps, and each
  version row belongs to the rule that was added with it;
* `Ready`: the rule a handler will supersede is still stored under the version it
  read (`Backed`), the exclusions it has checked still resolve, and the seeds an import
  leaves out exist (`Vetted`).

The one step that matters is `TablesAmended`: if the next version is not taken
then the rule the handler read is the newest, because versions have no gaps;
superseding it leaves exactly one active rule.

`RulesImplementLedger` proves the refinement of `RuleLedger`: the rules of a scheme are
its ledger, `rulesSoFar` by version and `activeVersion` the number of the active one. The
mapping is a function of a set of rows, so the proof is about `Numbered`: a table whose
versions of one scheme are `1..n`, each once, maps to a sequence of length `n`, and a row
with version `n + 1` appends to it (`CatalogInv` says that the table is numbered). An
insert then opens a ledger, `TablesAmended` gives the amendment, the seed import opens
several ledgers in one step, and every other step leaves `rules` alone and so stutters.

`HistoryIsAppendOnly` uses the refinement: it follows from the ledger alone that the rule
in force is the last of the history, and that a step adds at most one rule to a scheme and
changes none that was there. Whatever implements the ledger inherits it.

`OthersKeepOut` proves `ForeignSchemeUntouched`: a step that changes a scheme or its rules
is a handler's of the organisation that owns it, or an expiry job's. It needs the part of
`Loaded` that a scheme once found stays in its organisation up to the commit.

`OnlyOverlapMixesColumns` says when a row can have a `status` and an `is_active` that
disagree (`services/schemes.py:161-182`): only a request that commits over a row somebody
else changed after it was read writes such a row. The expiry job, the seeds and an admin who
works on a scheme alone leave the two in agreement, also where they were not before.
The docs promise no more, so no run states it; that such rows are reachable is no defect of
what is served, since every reader asks for both columns.

Only model-checked: `ExpiredRetired`, as liveness is out of the prover's reach.

## 4. The agent session

`AgentSession` is one conversation: `row` is its row of `conversation_sessions`,
`expired` says whether `row.expires_at` has passed, `profiles` is the family's part
of `profiles` (a UUID is unused, a row, or deleted for good), `cache` is the
session's key in Redis, and `reqs[r]` is a handler in progress. Two history
variables serve the properties: `stored` collects every fact ever committed to a
profile, and `streak` counts the agent's messages since the last result.

| Code | Actions |
|---|---|
| `get_or_create_session`, session exists | `OpenReadRow`, `LoadProfile`, `Fill` |
| `get_or_create_session`, new session | `OpenReadRow`, `OpenCreate`, `Fill` |
| `get_session_state` | `ReadCache`, and without a key `LoadRow`, `LoadProfile`, `Fill` |
| `handle_chat_turn`, `load_session` | the same, then `TurnReadRow` |
| nodes `extract_profile_facts` .. `choose_response` | `TurnListen` |
| index rebuild within `retrieve_semantic_candidates` | `TurnIndexCommit` |
| `persist_session` | `TurnReadProfile`, `TurnCommit`, `TurnWriteCache` |
| `patch_profile` | `PatchRead`, `PatchCommit` |
| `create_household_member`, `delete_household_member` | `AddMember`, `DeleteMember` |
| thirty days without a turn; the TTL or loss of the key | `Expire`; `LoseKey` |
| any failure, cancellation or crash of a handler | `Rollback` |

*A turn writes twice.* `TurnCommit` is the transaction, `TurnWriteCache` the Redis
write after it. Between them anything may run, and the turn may fail.

*Facts.* A profile is a function from its facts to a value or `Null`. Columns and
the keys of `custom_attributes` differ: the ORM writes a column by itself but the
JSONB column as a whole, and `_persist_profile` skips a `None` column but never the
dictionary. `Flushed` and `Persisted` say so, and this is why `ScalarsNeverErased`
speaks of columns only: a key of `custom_attributes` stored by a PATCH is dropped by
the next turn from an older Redis copy, without a `None` anywhere.

*Messages* are what the extractor makes of them: whom it is about, a plain yes or no,
the facts heard surely (confidence 0.75 and more) or unsurely (0.5 and more), and
whether it tells of a birth. What lies below 0.5 is nothing. A message states at most
one fact; more facts at once take the same path one by one.

*Abstracted:* message text and history, asked fields (they choose the question, not
whether there is one), completeness and match results (below the hard stop a turn
without a pending fact may end in a question or in a result), profile events and
zero-match events (appended, never read back), the household members in the state
(never read back), and the count of turns beyond `MaxQuestions`. The pending fact
carries, beside field and value, the member that was active when it was asked.

### Runs

| Run | Instance | Question |
|---|---|---|
| `turns` | 2 handlers, 2 profiles, 1 column; open, turn, PATCH | races of turns and patches, failures between the two writes |
| `household` | 1 handler, 2 profiles, 1 column and 1 custom key, every operation | sequences of operations, members added and deleted, expiry, lost key, index rebuild |
| `stale_profile` | 1 handler, 1 profile, 2 values | violated: a turn undoes a PATCH |
| `hard_stop` | 1 handler, 1 profile, at most 2 questions | violated: a clarification is repeated without end |
| `wrong_member` | 1 handler, 2 profiles | violated: a confirmed fact goes to another member |

Two handlers give every order of reads, commits and Redis writes of two turns, two
profiles let a fact land on the wrong one, and two facts of different kinds separate
the column-wise from the dictionary-wise update. One value is enough for properties
that ask whether a fact was said or erased, because a wrong fact is then one that
nobody said; only `stale_profile` needs an old and a new value. The theorems hold for
every number of each. `CHECK_DEADLOCK FALSE`: an expired session whose members are
all deleted, their UUIDs used up, has nothing left to do.

### Findings

* `stale_profile`: `patch_profile` does not refresh the Redis copy, and a turn writes
  every differing value back. "ok" as the next message restores the age that the
  PATCH corrected, although the PRD (phase 2, rule 12) says that a message below
  confidence 0.5 must not update the profile.
* `hard_stop`: while a confirmation is pending the hard stop is not evaluated, and
  only a plain yes or no ends the confirmation.
* `wrong_member`: "Should I use annual income as 90000?" about the primary
  person, then a message about the child, then "yes": the child has an income.

### Proofs

`AgentSessionProofs` proves, for every value of the constants that
`SessionAssumption` allows, that `TypeOK` and `CacheNeverAhead` are invariants and
that `ScalarsNeverErased` and `NothingInvented` hold of every step.

`CacheNeverAhead` is not inductive: the state written to Redis comes from a handler
that computed it several steps ago. `SessionInv` therefore adds

* `RowFirst`, `BackedRows`: nobody has a profile before the session exists, and what
  the profile table holds is part of the history;
* `NewUnused`: the rows a handler has added and not committed are its own;
* `Sound`, for every handler and program counter: before it listens its state holds
  only committed facts (`Told`), after it also those it has heard (`Explained`), and
  the row it is about to update holds the same or what the turn itself added
  (`LoadedBacked`).

Since `stored` only grows, nothing another handler does can break what a handler
relies on (`SoundKept`); the commit turns `Explained` into `Told`, and only then is
Redis written. Moving the Redis write before the commit breaks exactly this step.

Model-checked only: the three violated statements, whose counterexamples are the
result.

## 5. Accounts and what a citizen does with one

`Accounts` has `otp_challenges`, `users` and the profiles logins open as functions
from their key to a row or `NoRow`, a clock `now`, and in `logins[l]` what handler `l`
has read and where it is. `UserServices` extends it: `saved`, `jobs`, `items`,
`events`, `application` and `history` are the tables of `services/phase4.py`, and
`calls[r]` its handlers. `effects` is auxiliary: how often a key's change was applied.

| Code | Actions |
|---|---|
| `send_otp` | `SendRead`, `SendStore` |
| `verify_otp` | `VerifyRead`, then `VerifyRefuse`, or `VerifyLookup` and `VerifyInsert` / `VerifyConflict` / `VerifyUpdate`, `ReadAttributes`, `VerifyCommit` |
| `patch_me` | `PatchStart`, `PatchSettings`, `ReadAttributes`, `PatchCommit` |
| `delete_account` | `DeleteStart`, `DeleteCommit` |
| `save_scheme`, `delete_saved_scheme` | `SaveRead`, `SaveCommit` / `SaveConflict`; `UnsaveRead`, `UnsaveCommit` |
| `update_checklist` | `ChecklistRead`, `ChecklistItem`, `ChecklistCommit` / `ChecklistConflict` |
| `process_offline_sync` | `SyncStart`, `SyncNext`, `SyncCommit` / `SyncConflict`, `DeadlockAbort` |
| `update_application_status`, the citizen's and the operator's | `StatusRead`, `StatusCommit` / `StatusConflict` |
| any failure, cancellation or crash | `Rollback`, `Abandon` |

*Autoflush.* The session flushes before each query. A login has therefore locked its
challenge before it looks the user up, and the user's row before it reads the profile;
`FreeChallenge` and `FreeUser` are these locks. A batch of offline actions locks one
key per query: two batches that name two keys in opposite orders wait for each other,
and the database rolls one of them back (`DeadlockAbort`). `Deadlocked` is exact: only a
request that is part of a circle may be rolled back, not one that waits for the circle.

*The store of changes.* `ChangeStore` is what a device offline may count on: a change is
made for somebody and its key spent in one step (`Make`), or a batch spends keys without
making any change (`Keep`). `UserServices` implements it (`ImplementsChangeStore`): a key is
recorded when `offline_sync_events` has a row for it, the lists are the checklist items.

*Saved rows have numbers.* `delete_saved_scheme` deletes by primary key, so it leaves a
row that was saved again after its read. `saved[u][s]` is the number of that row.

### Run

`citizen`: one phone number, two user ids, two profiles, three challenges, one guest id,
two login handlers, two attempts, a clock of three values with a resend interval of one
and an expiry of two; one scheme, one document, two idempotency keys, two statuses and
two service handlers. `MCUserServices` lets a behaviour either log in (at most four
requests) or use the services of an account that may be deleted meanwhile (at most three
requests): the two groups meet in the users table only. Two handlers are every race of a
reader and a writer; four logins are two overlapping ones of a new number, a repeated one
and a deletion; three service requests are a pair that overlaps and what came before it.
Two keys in both orders are the smallest deadlock.

*Fairness:* a handler that can take its next step in the end does (`WF` of each
handler). Handlers are asyncio tasks and the database wakes whoever waits for a lock.
Nothing is assumed of requests or of failures. `LoginsEnd` and `CallsEnd` so say that no
order of locks leaves a request waiting for ever.

### Proofs

`AccountsProofs` proves `AttemptsBounded`, `AccountsSound`, `TextsSpaced` and
`DeletionFinal` for any number of handlers, numbers and ids and any clock. The invariant
`AccountsInv` adds `HandlerSound`: a handler past the check of the attempts has read a
number below the maximum, its challenge and its user still exist, and a migration has a
guest id; and `ProfilesThere`: every account has its profile. The two action properties
follow because no step of the model rewrites a whole row of `users`. The rows a login
writes back are the columns it changed.

About `UserServices` it proves, for any number of schemes, documents, keys and handlers:

* `ServicesKeepAccounts`: every step of the services, a deletion of the account among
  them, is a step of `Accounts` or leaves its variables alone. What is proved of
  `Accounts` therefore holds with the services running;
* `ServicesTypeOK`, `OpenedOnce`, `HistoryTellsStatus`, `RemindersOnlyOnSaving` and
  `ChangedOnce`, which says that a key has its effect once and exactly if the request that
  made it stored the key. Their invariant `ServicesInv` adds `CallSound`: an
  application that a handler has read stays open, and a key that a batch has put into the
  table without committing is stored by nobody and put there by no other batch. Without
  it `ChangedOnce` is not inductive: the commit of a batch spends keys it looked up many
  steps before. `OpenedOnce` rests on the conflict of the second insert: a handler that
  read no application cannot commit once there is one;
* `ImplementsChangeStore`: `StoreStep` goes through the steps. The commit of a checklist
  change is a `Make`; whether its item is written depends on what the handler loaded, and
  the abstract step allows both. The commit of a batch is a `Keep` of the keys it has
  flushed, none of which is recorded (`CallSound`); everything else stutters.
  `KeysStaySpent` then needs the store only: a key stays spent, and its change is never
  made again.

### Proofs about locks

`LoginsEnd` and `CallsEnd` are liveness and so out of the prover's reach. What they rest on
is safety, and is proved for any number of handlers:

* `RowsLockedOnce`: a challenge and a user's row have at most one lock each;
* `NoDeadlockOfLogins`: in every set of login handlers one waits for nobody in the set.
  Locks are taken in one order, the challenge before the user; whoever has locked a user's
  row needs no lock any more, so waiting has at most two links;
* `LoginsAdvance` and `ServicesAdvance`: each step of a handler lowers the number of steps
  it has left (`StepsLeft`, `CallLeft`), and no step of another one raises it;
* `DeadlocksAreOfBatches`: a request the database can be forced to roll back is a batch
  that has put one key into the table and has another one to put. Checklist changes,
  saved schemes, statuses and batches of one action are never part of a circle.

Together: among the logins that wait there is always one to wait for that does not wait
itself, and none goes on for ever; `WF` of each handler then ends them all. That a handler
which waits for nobody has a step enabled is about `ENABLED`, and is left to TLC. The order
of the code matters here: were a challenge locked when it is read, before anybody asks
whether it is free, two logins could have the lock of one challenge, and each would wait for
the other. That is the mutant of `LoginsEnd`, and `RowsLockedOnce` is the theorem that fails
with it.

### The run's own specification

`CitizenKeepsItsPromises` states all safety properties of the run about `MCSpec` of
`MCUserServices`: its behaviours log in or start with an account opened before (`RunStarts`),
and each of its steps is a step of `UserServices` (`RunSteps`). It holds for every choice of
the bounds and of the account (`StartAssumption`), which the run gives small values.

`ServiceRowsAssumption` only keeps "no row", "no key" and the reminder for the status apart
from rows, keys and schemes.

Model-checked only: `LoginsEnd` and `CallsEnd` as they stand, with their fairness.

## 6. Around the conversation

Seven modules share no state, so the run `assistant` checks them in one model: a
behaviour of `MCAssistant` has a focus and only that module moves.

**`Eligibility`.** `Verdict` is `evaluate_criteria`, `Completeness` and `NextQuestion`
are the two functions of the agent, and `Turn` the nodes of a chat turn that use them.
A criterion is matched, failed or unknown; two texts compare as Python orders them
(`TextOrder`), and a text compared with a number fails, as the `TypeError` does in the code. `citizen` is what is true; `told` what the profile
says. Instance: a rule with bounds, one with an exclusion, a list and a comparison of two texts,
one whose custom criteria compare a text with a number; three citizens; three turns, each telling nothing,
one fact, "unknown", or the five base fields, with all rules or a search's as candidates.

**`VoiceTurn`.** Each utterance goes through `Hear`, the translation in (`TranslationCached`,
`TranslationProvided`, `TranslationPassedThrough`), `AgentAnswers`, the translation out,
`Synthesized`, `PreferenceRead` and `VoiceCommit` / `VoiceConflict`; `VoiceFails` at any
point. The agent's turn commits before the voice turn's own rows. `translated` and
`spoken` are the two caches; `ProviderAdded` restarts the server with a second provider
while Redis keeps both. Instance: two overlapping utterances, one of them possibly too
long for a chat message, in either language.

**`VoiceSocket`.** A client sends starts, pieces and ends ahead of the server, which
reads nothing during a turn. Instance: five messages, two sessions, one piece as the
upload limit: five messages are a recording given up, one made after it, and a message sent
during its turn.

**`SearchIndex`.** `rebuild_faiss_index` is `WriteVectors`, `WriteIds`, `MarkOld`, `RetireOld`,
`PurgeSame`, `CommitIndex` or `BuildFails`; `search_schemes` is `SearchLooks`,
`SearchReadsIds`, `SearchAnswers`, `SearchMisfits`. `CatalogueChanges` publishes or
archives at any time. Instance: two schemes, two handlers, three inserted rows, four
beginnings (changes, rebuilds, searches). Files are those of any process on one host.

**`Documents`.** `CheckDocumentSufficiency` is the matcher with its three passes. An answer
is kept by places in the rule's list: which documents are missing, which are found by a
substitute, and for each one found the citizen's name for it. Two versions of a rule, five spellings of three documents, up to three names,
three checks or publications.

**`Quota`.** `Count`, `SendExpire` and `ArriveExpire` are the INCR and EXPIRE of
`check_rate_limit`; a bulk upload takes one unit per row. A day has four seconds
and local time is two ahead, so the six seconds of the instance meet a midnight of each; limit two, uploads of up to two rows, two overlapping of three requests.

**`Office`.** `UpdateLoad` and `UpdateBeneficiary`, `AddLoad` with `AddNote` and
`AddFollowup`, `CloseLoad` and `CloseFollowup`, `CreateBeneficiary`; lists, export and
board are operators over the rows, and `ROLE_PERMISSIONS` says who may export. Two
operators of different organisations, an administrator and a super administrator; one beneficiary, one follow-up, two handlers,
four requests. `Written` is the ORM's column-wise update, here too.

Deadlock is not checked in these runs: requests are bounded and then nothing is left.
Nothing here assumes fairness.

### What is proved

| Module | Proved | Strengthening |
|---|---|---|
| `EligibilityProofs` | `VerdictsTrue` | `Honest`: what the profile says is true, unknown, or an admitted "unknown". A criterion decided on it is decided alike on the truth; one failed criterion with nothing unknown stays the only one |
| | `FallbackOnlyWhenExhausted` | `InterviewInv`: types, `Honest`, and after a fallback nothing is open (`Exhausted`). The comparison of two fields (`Before`) is a strict total order on the finitely many fields, so open fields have a first one and the fallback is asked only when there are none |
| | `CompleteDecides` | `InterviewInv`. `MissingWeighs`: what a missing column and the missing custom fields take from the weight of all; `PercentFull`: what rounding gives back, see below |
| | `AdviceHolds` | every stored answer is the one the matcher gives for its list; a document is missing exactly when none of the names serves, and lists only grow |
| `VoiceTurnProofs` | `VoiceRowsTellTurns`, `AnsweredInTheirLanguage` | `VoiceSound`: how far a handler is tells what was heard and stored. `NoneVerbatim`: no cached text is an untranslated one, so a cache hit is as good as a provider |
| | `RecordingsApart` | `Leads`: message by message, the wire takes the recording the server holds to the one the client is making. It holds when the client sends (one more message at the end) and when the server reads (one less at the front) |
| `SearchIndexProofs` | `OwnRebuildFits`, `StaysSearchable` | `Sound`: a rebuild past a write has left that file; while nobody else wrote, the files are the ones it wrote. `FilesInUse`: a row in use has both files |
| `QuotaProofs` | `NeverLockedOut` | `Backed`: a counter never runs ahead of what was granted under its key, up to the limit. `Taking`: a request in progress has a unit to take. The key's local date makes a counter without expiry harmless |
| | `GrantsWithinLimit` | `ExpiriesAtMidnight`: an EXPIRE on its way was sent this second or the last one, so a key expires at a UTC midnight or never. `DayCounted`: away from midnight a counter has counted all that was granted under its key since the UTC day began |
| `AssistantProofs` | `AssignmentByAdmins`, `ListsWhatMayBeOpened` | `DeskSound`: an operator's change leaves the assignment as it was loaded, so the column-wise update never writes it |

The constants' assumptions are those stated in each module, mostly that a value which
stands for "none" is not a real one; TLC evaluates them in the run.

`CompleteDecides` allows for the rounding (`agent/completeness.py:71`): custom fields share
six of a hundred points, so one unanswered of twelve leaves 99.5 percent, which `round`
makes 100. The first twenty rules of the seeds name 23 custom fields: a profile shown as
100 percent may leave one of them unanswered, and a rule that asks for it open. No column
is ever overlooked, and with fewer than twelve custom fields, as in the run, nothing is.

*Composition.* `CompositionImplementsParts` proves that a behaviour of `MCAssistant` is a
behaviour of each of the seven specifications: a step is one of the part in focus
(`FocusSteps`), and all parts start as they do alone. So everything proved of a part holds
of the model the run checks: `AssistantTypes` gives `AssistantTypeOK`, and
`AssistantKeepsItsPromises` the thirteen other properties. The run's bounds on requests only
remove behaviours. `DocumentsInvariant` is the invariant behind `AdviceHolds`.

### Read while modelling

The code differs here from what a reader might expect; no run of its own states it.

Accounts and services:
* Overlapping verifications count as one attempt (`services/phase4.py:125-135`), where
  `docs/product/auth-and-sessions.md:24` speaks of each. Verifying a verified or failed
  challenge again rewrites its status to `expired`. The code is sent before its
  challenge is stored, and overlapping requests send two.
* The guest id of the login that opens an account is not among
  `migrated_guest_profile_ids`. A PATCH of `/me` without other settings reads the profile
  with no lock, and of two overlapping guest ids one is lost.
* An offline action is recorded as `applied` while its payload is never applied; the later
  PATCH with the same key is then ignored
  (`docs/prd/phase-4-user-facing-pwa-full-product.md:1155`). The answer
  `RETRY_LIMIT_EXCEEDED` is unreachable, as the schema refuses such requests first.
* Once one document of a checklist is recorded, the rule's other mandatory documents no
  longer count for `ready_to_apply` (`services/phase4.py:253-269`). Deleting a saved
  scheme leaves its reminder. `old_status` of the status events need not be the
  `new_status` before it.

Conversation, voice and search:
* Opening a session that exists rebuilds the Redis state from PostgreSQL also when the key
  is there (`services/sessions/session_service.py:133`;
  `docs/prd/phase-2-agentic-conversation-layer.md:524` returns the state Redis has): what
  only Redis knows, the pending confirmation and the count of turns, is gone.
* Once a result is due at 75 percent, every further turn returns a result, so custom
  questions are not asked any more. Only the first twenty candidates count for completeness.
* A transcript over 2000 characters is answered by an error of the agent while its row says
  `agent_completed`. A failure after the agent's commit makes a retry process the utterance
  twice. Overlapping first turns of one profile lose one voice row to the unique key of the
  preference, and without a profile every turn adds a preference.
* Not every voice turn has a row, although
  `docs/product/voice-multilingual-pipeline.md:180` says "Every voice turn is persisted". A
  turn that began before its session existed has none, answered or not (`voice/pipeline.py:191`),
  so neither has an unclear one then, of which line 63 says "The voice turn is persisted with
  `status="low_confidence"`". A turn whose transcription, translation or speech fails has
  none either, even when the agent has committed it: the status `asr_error` of line 190 is
  written nowhere, and the check constraint of the table does not allow it.
  `VoiceRowsTellTurns` says what the rows there are tell, and of an answered turn, with a row
  or without, that the agent has committed it.
* The errors of audio validation end the voice socket uncaught.
* A stale index answers archived schemes and misses new ones until it is rebuilt. The file
  writes of two processes can interleave, and a crash between the two files pairs
  places with wrong schemes. A query the provider always refuses rebuilds the index again
  and again, because the recursive call does not know that it has rebuilt.

Limits and the office:
* The counter of a local date expires at midnight UTC, so the limit can be had twice on one
  date (`docs/workflows/rate-limiting.md:9` counts UTC days, the PRD days in Asia/Kolkata);
  in the last second of a UTC day nothing is counted, and a late EXPIRE lets a counter live
  into the first second of the next. A refused upload keeps the units it took.
* Operators export. `docs/engineering/rbac-and-tenancy.md:44` denies them
  `export.beneficiaries`, and `dashboard/rbac.py:22` gives them no `beneficiary:export`; but
  no route asks for that permission. The export (`api/routes/dashboard.py:243-248`) is the
  list, which asks for `beneficiary:read`, so an operator's file has the beneficiaries
  assigned to them. `ListsWhatMayBeOpened` affirms the export only of those who hold the
  permission.
* A follow-up goes to the operator who was assigned when it was loaded. Completing and
  cancelling one follow-up at the same time may leave a completion time on a cancelled one.
  A beneficiary with two open follow-ups is listed twice by the filter on them.

## 7. Not modelled

Of the inventory: push subscriptions, action plans, DigiLocker and Aadhaar prefill, the
dashboard's login, notifications and scheme guide, the bulk job's result file, and the
ingestion stub, which each write or read one row that no other part uses; the speech,
translation and language-model providers, whose answers are inputs here; configuration,
the error envelope, the command line and the frontend, which keep no shared state.

In the catalogue: descriptive columns, status events and notifications, which nothing
reads back, the draft's link to its scheme, which only the preview's diff uses, and the
warnings before an expiry.

In the agent session: message texts and several households in one database, which meet
only in the organisation check of each handler. `AgentSession` leaves open which response
a turn gives, and `Eligibility` decides it from the profile; the two are not composed,
because only the profile's facts would be shared and each run would pay for both.

The proofs say nothing of liveness, which is out of the prover's reach: `ExpiredRetired`,
`LoginsEnd` and `CallsEnd` are checked by TLC on the instances of their runs, and so are the
five violated statements. What the fairness of the last two builds on, no circle of waiting
logins and a measure that each step lowers, is proved (section 5).
