--------------------------- MODULE AssistantProofs ---------------------------
(***************************************************************************)
(* Proofs about module Office: what an operator may be shown and may       *)
(* change, for every staff, every assignment of roles and organisations    *)
(* and every number of handlers.  Then the parts together, in MCAssistant: *)
(* their composition implements each of their specifications, so what is   *)
(* proved of a part holds of it.                                           *)
(***************************************************************************)
EXTENDS MCAssistant, EligibilityProofs, VoiceTurnProofs, SearchIndexProofs, QuotaProofs, TLAPS

(* Office *)

\* What a handler that has loaded its rows may rely on: rows are never removed, and an
\* operator's change was checked to leave the assignment as it was.
DeskSound(d) ==
    LET q == desks[d] IN
    /\ q.op \in {"update", "followup"} => q.loaded \in BeneficiaryRow
    /\ q.op = "update" => q.wanted \in BeneficiaryRow /\ rows[q.of] # Absent
    /\ q.op = "update" /\ Role[q.actor] = "operator" => q.wanted.assigned = q.loaded.assigned
    /\ q.op = "close" => q.id \in Followups /\ followups[q.id] # Absent /\ q.status # "none"

OfficeInv == OfficeTypeOK /\ \A d \in Desks : DeskSound(d)

\* A handler that rests is one of Desk.
LEMMA FreeType == Free \in Desk /\ Free.op = "none"
BY OfficeAssumption DEF Free, Desk

\* The steps that load: nothing but one handler changes, and it is sound.
LEMMA LoadPreserves ==
    ASSUME OfficeInv, NEW d \in Desks, NEW q \in Desk,
           desks' = [desks EXCEPT ![d] = q], UNCHANGED <<rows, followups, notes, audits>>,
           q.op \in {"update", "followup"} => q.loaded \in BeneficiaryRow,
           q.op = "update" => q.wanted \in BeneficiaryRow /\ rows[q.of] # Absent,
           q.op = "update" /\ Role[q.actor] = "operator" => q.wanted.assigned = q.loaded.assigned,
           q.op = "close" => q.id \in Followups /\ followups[q.id] # Absent /\ q.status # "none"
    PROVE  OfficeInv'
<1>1. OfficeTypeOK'
  BY DEF OfficeInv, OfficeTypeOK
<1>2. ASSUME NEW x \in Desks PROVE DeskSound(x)'
  BY DEF OfficeInv, OfficeTypeOK, DeskSound
<1>3. QED BY <1>1, <1>2 DEF OfficeInv

\* A handler that ends leaves the others sound as long as no row disappears.
LEMMA LeavePreserves ==
    ASSUME OfficeInv, NEW d \in Desks, Leaves(d), OfficeTypeOK',
           \A b \in Beneficiaries : rows[b] # Absent => rows'[b] # Absent,
           \A f \in Followups : followups[f] # Absent => followups'[f] # Absent
    PROVE  OfficeInv'
<1>1. ASSUME NEW x \in Desks PROVE DeskSound(x)'
  <2>1. desks'[x] = IF x = d THEN Free ELSE desks[x]
    BY DEF OfficeInv, OfficeTypeOK, Leaves
  <2>2. CASE x = d
    BY <2>1, <2>2, FreeType DEF DeskSound
  <2>3. CASE x # d
    <3>1. DeskSound(x) /\ desks'[x] = desks[x]
      BY <2>1, <2>3 DEF OfficeInv
    <3>2. desks[x].of \in Beneficiaries
      BY DEF OfficeInv, OfficeTypeOK, Desk
    <3>3. QED BY <3>1, <3>2 DEF DeskSound
  <2>4. QED BY <2>2, <2>3
<1>2. QED BY <1>1 DEF OfficeInv

\* Writing columns of one row into another gives a row.
LEMMA WrittenType ==
    ASSUME NEW now \in BeneficiaryRow, NEW loaded \in BeneficiaryRow, NEW wanted \in BeneficiaryRow
    PROVE  /\ Written(now, loaded, wanted) \in BeneficiaryRow
           /\ wanted.assigned = loaded.assigned => Written(now, loaded, wanted).assigned = now.assigned
BY DEF Written, BeneficiaryRow

\* Each kind of commit.
LEMMA UpdatePreserves ==
    ASSUME OfficeInv, NEW d \in Desks, UpdateBeneficiary(d)
    PROVE  /\ OfficeInv'
           /\ \A b \in Beneficiaries :
                 rows[b] # Absent /\ rows'[b].assigned # rows[b].assigned => Role[desks[d].actor] # "operator"
           /\ audits' = Append(audits, [actor |-> desks[d].actor, action |-> "update", of |-> desks[d].of])
           /\ desks[d].actor \in Staff /\ desks[d].of \in Beneficiaries
<1> DEFINE q == desks[d]
<1>1. q \in Desk /\ q.op = "update" /\ q.actor \in Staff /\ q.of \in Beneficiaries
  BY DEF OfficeInv, OfficeTypeOK, UpdateBeneficiary, Sits, Desk
<1>2. /\ q.loaded \in BeneficiaryRow /\ q.wanted \in BeneficiaryRow /\ rows[q.of] \in BeneficiaryRow
      /\ Role[q.actor] = "operator" => q.wanted.assigned = q.loaded.assigned
  BY <1>1 DEF OfficeInv, OfficeTypeOK, DeskSound
<1>3. /\ Written(rows[q.of], q.loaded, q.wanted) \in BeneficiaryRow
      /\ q.wanted.assigned = q.loaded.assigned =>
            Written(rows[q.of], q.loaded, q.wanted).assigned = rows[q.of].assigned
  BY <1>2, WrittenType
<1>4. rows' = [rows EXCEPT ![q.of] = Written(rows[q.of], q.loaded, q.wanted)]
  BY DEF UpdateBeneficiary
<1>5. audits' = Append(audits, [actor |-> q.actor, action |-> "update", of |-> q.of])
  BY DEF UpdateBeneficiary, Logged
<1>6. [actor |-> q.actor, action |-> "update", of |-> q.of] \in Audit
  BY <1>1 DEF Audit
<1>7. audits' \in Seq(Audit)
  BY <1>5, <1>6 DEF OfficeInv, OfficeTypeOK
<1>8. rows' \in [Beneficiaries -> BeneficiaryRow \cup {Absent}]
  BY <1>3, <1>4 DEF OfficeInv, OfficeTypeOK
<1>9. desks' \in [Desks -> Desk]
  BY FreeType DEF OfficeInv, OfficeTypeOK, UpdateBeneficiary, Leaves
<1>10. OfficeTypeOK'
  BY <1>7, <1>8, <1>9 DEF OfficeInv, OfficeTypeOK, UpdateBeneficiary
<1>11. \A b \in Beneficiaries : rows[b] # Absent => rows'[b] # Absent
  BY <1>3, <1>4, AbsentAssumption DEF OfficeInv, OfficeTypeOK
<1>12. OfficeInv'
  BY <1>10, <1>11, LeavePreserves DEF UpdateBeneficiary
<1>13. ASSUME NEW b \in Beneficiaries, rows[b] # Absent, rows'[b].assigned # rows[b].assigned
       PROVE  Role[q.actor] # "operator"
  <2>1. b = q.of
    BY <1>4, <1>13 DEF OfficeInv, OfficeTypeOK
  <2>2. rows'[b] = Written(rows[b], q.loaded, q.wanted)
    BY <1>1, <1>4, <2>1 DEF OfficeInv, OfficeTypeOK
  <2>3. QED BY <1>2, <1>3, <1>13, <2>1, <2>2
<1>14. QED BY <1>1, <1>5, <1>12, <1>13

\* A commit that leaves the rows of beneficiaries alone.
LEMMA OtherCommits ==
    ASSUME OfficeInv, NEW d \in Desks, AddNote(d) \/ AddFollowup(d) \/ CloseFollowup(d) \/ DeskFails(d)
    PROVE  OfficeInv' /\ rows' = rows
<1> DEFINE q == desks[d]
<1>1. q \in Desk /\ q.actor \in Staff /\ q.of \in Beneficiaries /\ DeskSound(d)
  BY DEF OfficeInv, OfficeTypeOK, Desk
<1>2. \A action \in {"note", "followup", "close"} : [actor |-> q.actor, action |-> action, of |-> q.of] \in Audit
  BY <1>1 DEF Audit
<1>3. audits' \in Seq(Audit)
  <2>1. audits \in Seq(Audit)
    BY DEF OfficeInv, OfficeTypeOK
  <2>2. CASE audits' = audits
    BY <2>1, <2>2
  <2>3. CASE \E action \in {"note", "followup", "close"} :
               audits' = Append(audits, [actor |-> q.actor, action |-> action, of |-> q.of])
    BY <1>2, <2>1, <2>3
  <2>4. QED BY <2>2, <2>3 DEF AddNote, AddFollowup, CloseFollowup, DeskFails, Logged
<1>4. rows' = rows /\ Leaves(d)
  BY DEF AddNote, AddFollowup, CloseFollowup, DeskFails
<1>5. desks' \in [Desks -> Desk]
  BY <1>4, FreeType DEF OfficeInv, OfficeTypeOK, Leaves
<1>6. notes' \in [Beneficiaries -> Nat]
  BY <1>1 DEF OfficeInv, OfficeTypeOK, AddNote, AddFollowup, CloseFollowup, DeskFails
<1>7. /\ followups' \in [Followups -> FollowupRow \cup {Absent}]
      /\ \A f \in Followups : followups[f] # Absent => followups'[f] # Absent
  <2>1. CASE AddNote(d) \/ DeskFails(d)
    BY <2>1 DEF OfficeInv, OfficeTypeOK, AddNote, DeskFails
  <2>2. CASE AddFollowup(d)
    <3>1. q.loaded \in BeneficiaryRow
      BY <1>1, <2>2 DEF DeskSound, AddFollowup, Sits
    <3>2. [of |-> q.of, assigned |-> q.loaded.assigned, status |-> "open", dated |-> FALSE] \in FollowupRow
      BY <1>1, <3>1 DEF FollowupRow, BeneficiaryRow
    <3>3. QED BY <2>2, <3>2, AbsentAssumption DEF AddFollowup, OfficeInv, OfficeTypeOK
  <2>3. CASE CloseFollowup(d)
    <3>1. q.op = "close" /\ q.id \in Followups /\ followups[q.id] \in FollowupRow /\ q.status # "none"
      BY <1>1, <2>3 DEF DeskSound, CloseFollowup, Sits, OfficeInv, OfficeTypeOK
    <3>2. PICK s \in {"open", "completed", "cancelled"}, t \in BOOLEAN :
              followups' = [followups EXCEPT ![q.id].status = s, ![q.id].dated = t]
      <4>1. DEFINE s0 == IF q.status = q.card.status THEN followups[q.id].status ELSE q.status
                   t0 == IF q.status = "completed" THEN TRUE
                         ELSE IF q.card.dated THEN FALSE ELSE followups[q.id].dated
      <4>2. followups' = [followups EXCEPT ![q.id].status = s0, ![q.id].dated = t0]
        BY <2>3, <3>1 DEF CloseFollowup, FollowupRow, OfficeInv, OfficeTypeOK
      <4>3. t0 \in BOOLEAN
        BY <3>1 DEF FollowupRow
      <4>4. s0 \in {"open", "completed", "cancelled"}
        BY <1>1, <3>1 DEF FollowupRow, Desk
      <4>5. QED BY <4>2, <4>3, <4>4
    <3>3. [followups[q.id] EXCEPT !.status = s, !.dated = t] \in FollowupRow
      BY <3>1 DEF FollowupRow
    <3>4. QED BY <3>1, <3>2, <3>3, AbsentAssumption DEF OfficeInv, OfficeTypeOK, FollowupRow
  <2>4. QED BY <2>1, <2>2, <2>3
<1>8. OfficeTypeOK'
  BY <1>3, <1>4, <1>5, <1>6, <1>7 DEF OfficeInv, OfficeTypeOK
<1>9. QED BY <1>4, <1>7, <1>8, LeavePreserves

\* The requests that load.
LEMMA DeskOpensPreserves ==
    ASSUME OfficeInv, NEW d \in Desks, NEW m \in Staff, DeskOpens(d, m)
    PROVE  OfficeInv' /\ UNCHANGED rows
<1>1. CASE \E b \in Beneficiaries, assignee \in Assignee, details, facts \in Details :
               UpdateLoad(d, m, b, assignee, details, facts)
  <2>1. PICK b \in Beneficiaries, assignee \in Assignee, details \in Details, facts \in Details :
            UpdateLoad(d, m, b, assignee, details, facts)
    BY <1>1
  <2> DEFINE w == Wanted(rows[b], assignee, details, facts)
             q == [Free EXCEPT !.op = "update", !.actor = m, !.of = b, !.loaded = rows[b], !.wanted = w]
  <2>2. rows[b] \in BeneficiaryRow /\ rows[b] # Absent
    BY <2>1 DEF OfficeInv, OfficeTypeOK, UpdateLoad
  <2>3. w \in BeneficiaryRow
    BY <2>2 DEF Wanted, BeneficiaryRow, Assignee
  <2>4. Role[m] = "operator" => w.assigned = rows[b].assigned
    BY <2>1, <2>2 DEF UpdateLoad, Access, MayAssign, Wanted, BeneficiaryRow
  <2>5. /\ q \in Desk /\ q.op = "update" /\ q.actor = m /\ q.of = b
        /\ q.loaded = rows[b] /\ q.wanted = w
    BY <2>2, <2>3, FreeType DEF Desk
  <2>6. desks' = [desks EXCEPT ![d] = q] /\ UNCHANGED <<rows, followups, notes, audits>>
    BY <2>1 DEF UpdateLoad, Takes
  <2> HIDE DEF q, w
  <2>7. QED BY <2>2, <2>3, <2>4, <2>5, <2>6, LoadPreserves
<1>2. CASE \E b \in Beneficiaries, op \in {"note", "followup"} : AddLoad(d, m, b, op)
  <2>1. PICK b \in Beneficiaries, op \in {"note", "followup"} : AddLoad(d, m, b, op)
    BY <1>2
  <2> DEFINE q == [Free EXCEPT !.op = op, !.actor = m, !.of = b, !.loaded = rows[b]]
  <2>2. rows[b] \in BeneficiaryRow
    BY <2>1 DEF OfficeInv, OfficeTypeOK, AddLoad
  <2>3. q \in Desk /\ q.op \in {"note", "followup"} /\ q.loaded = rows[b]
    BY <2>2, FreeType DEF Desk
  <2>4. desks' = [desks EXCEPT ![d] = q] /\ UNCHANGED <<rows, followups, notes, audits>>
    BY <2>1 DEF AddLoad, Takes
  <2> HIDE DEF q
  <2>5. QED BY <2>2, <2>3, <2>4, LoadPreserves
<1>3. CASE \E f \in Followups, status \in {"completed", "cancelled"} : CloseLoad(d, m, f, status)
  <2>1. PICK f \in Followups, status \in {"completed", "cancelled"} : CloseLoad(d, m, f, status)
    BY <1>3
  <2> DEFINE q == [Free EXCEPT !.op = "close", !.actor = m, !.of = followups[f].of, !.id = f,
                               !.card = followups[f], !.status = status]
  <2>2. followups[f] \in FollowupRow /\ followups[f] # Absent
    BY <2>1 DEF OfficeInv, OfficeTypeOK, CloseLoad
  <2>3. q \in Desk /\ q.op = "close" /\ q.id = f /\ q.status # "none"
    BY <2>2, FreeType DEF Desk, FollowupRow
  <2>4. desks' = [desks EXCEPT ![d] = q] /\ UNCHANGED <<rows, followups, notes, audits>>
    BY <2>1 DEF CloseLoad, Takes
  <2> HIDE DEF q
  <2>5. QED BY <2>2, <2>3, <2>4, LoadPreserves
<1>4. UNCHANGED rows
  BY DEF DeskOpens, UpdateLoad, AddLoad, CloseLoad
<1>5. QED BY <1>1, <1>2, <1>3, <1>4 DEF DeskOpens

\* A new row, where there was none.
LEMMA CreatesPreserves ==
    ASSUME OfficeInv, NEW m \in Staff, Creates(m)
    PROVE  OfficeInv' /\ \A b \in Beneficiaries : rows[b] # Absent => rows'[b] = rows[b]
<1>1. PICK b \in Beneficiaries, assignee \in Assignee, details \in Details :
          CreateBeneficiary(m, b, assignee, details)
  BY DEF Creates
<1> DEFINE row == [org |-> OrgOf[m], details |-> details, facts |-> details,
                   assigned |-> IF Role[m] = "operator" THEN m ELSE assignee]
<1>2. row \in BeneficiaryRow
  BY DEF BeneficiaryRow, Assignee, Orgs
<1>3. rows' = [rows EXCEPT ![b] = row] /\ rows[b] = Absent
  BY <1>1 DEF CreateBeneficiary
<1> HIDE DEF row
<1>4. [actor |-> m, action |-> "create", of |-> b] \in Audit
  BY DEF Audit
<1>5. audits' \in Seq(Audit)
  BY <1>1, <1>4 DEF CreateBeneficiary, Logged, OfficeInv, OfficeTypeOK
<1>6. OfficeTypeOK'
  BY <1>1, <1>2, <1>3, <1>5 DEF CreateBeneficiary, OfficeInv, OfficeTypeOK
<1>7. \A x \in Beneficiaries : rows[x] # Absent => rows'[x] = rows[x]
  BY <1>3 DEF OfficeInv, OfficeTypeOK
<1>8. ASSUME NEW d \in Desks PROVE DeskSound(d)'
  <2>1. DeskSound(d) /\ desks'[d] = desks[d] /\ followups' = followups
    BY <1>1 DEF OfficeInv, CreateBeneficiary
  <2>2. desks[d].of \in Beneficiaries
    BY DEF OfficeInv, OfficeTypeOK, Desk
  <2>3. QED BY <1>7, <2>1, <2>2 DEF DeskSound
<1>9. QED BY <1>6, <1>7, <1>8 DEF OfficeInv

\* One step: the invariant, and who may change an assignment.
LEMMA OfficeStep ==
    ASSUME OfficeInv, [OfficeNext]_officeVars
    PROVE  /\ OfficeInv'
           /\ \A b \in Beneficiaries :
                 rows[b] # Absent /\ rows'[b].assigned # rows[b].assigned =>
                     Role[audits'[Len(audits')].actor] # "operator"
<1>1. CASE \E m \in Staff : Creates(m)
  BY <1>1, CreatesPreserves
<1>2. CASE \E m \in Staff, d \in Desks : DeskOpens(d, m)
  BY <1>2, DeskOpensPreserves
<1>3. CASE \E d \in Desks : UpdateBeneficiary(d)
  <2>1. PICK d \in Desks : UpdateBeneficiary(d)
    BY <1>3
  <2> DEFINE e == [actor |-> desks[d].actor, action |-> "update", of |-> desks[d].of]
  <2>2. /\ OfficeInv' /\ audits' = Append(audits, e)
        /\ \A b \in Beneficiaries :
              rows[b] # Absent /\ rows'[b].assigned # rows[b].assigned => Role[desks[d].actor] # "operator"
        /\ desks[d].actor \in Staff /\ desks[d].of \in Beneficiaries
    BY <2>1, UpdatePreserves
  <2>3. e \in Audit /\ e.actor = desks[d].actor
    BY <2>2 DEF Audit
  <2>4. audits \in Seq(Audit)
    BY DEF OfficeInv, OfficeTypeOK
  <2> HIDE DEF e
  <2>5. audits'[Len(audits')] = e
    BY <2>2, <2>3, <2>4
  <2>6. QED BY <2>2, <2>3, <2>5
<1>4. CASE \E d \in Desks : AddNote(d) \/ AddFollowup(d) \/ CloseFollowup(d) \/ DeskFails(d)
  BY <1>4, OtherCommits
<1>5. CASE UNCHANGED officeVars
  <2>1. ASSUME NEW d \in Desks PROVE DeskSound(d)'
    BY <1>5 DEF officeVars, OfficeInv, DeskSound
  <2>2. OfficeTypeOK'
    BY <1>5 DEF officeVars, OfficeInv, OfficeTypeOK
  <2>3. QED BY <1>5, <2>1, <2>2 DEF officeVars, OfficeInv
<1>6. QED BY <1>1, <1>2, <1>3, <1>4, <1>5 DEF OfficeNext, DeskWorks

\* Rows, follow-ups, handlers and the audit log keep their types, rows are never
\* removed, and what handlers hold stays sound (dashboard/beneficiaries.py:145-259).
THEOREM OfficeInvariant == OfficeSpec => []OfficeInv
<1>1. OfficeInit => OfficeInv
  <2> SUFFICES ASSUME OfficeInit PROVE OfficeInv
    OBVIOUS
  <2>1. OfficeTypeOK
    BY FreeType DEF OfficeInit, OfficeTypeOK
  <2>2. \A d \in Desks : DeskSound(d)
    BY FreeType DEF OfficeInit, DeskSound
  <2>3. QED BY <2>1, <2>2 DEF OfficeInv
<1>2. OfficeInv /\ [OfficeNext]_officeVars => OfficeInv'
  BY OfficeStep
<1>3. QED BY <1>1, <1>2, PTL DEF OfficeSpec

\* An operator never changes who a beneficiary is assigned to, also when a change that
\* was loaded before a reassignment commits after it (dashboard/beneficiaries.py:199-219).
THEOREM AssignmentStaysWithAdmins == OfficeSpec => AssignmentByAdmins
<1>1. OfficeInv /\ [OfficeNext]_officeVars =>
        [\A b \in Beneficiaries :
            rows[b] # Absent /\ rows'[b].assigned # rows[b].assigned =>
                Role[audits'[Len(audits')].actor] # "operator"]_officeVars
  BY OfficeStep
<1>2. QED BY <1>1, OfficeInvariant, PTL DEF OfficeSpec, AssignmentByAdmins

\* The WHERE of the lists and the access check of the pages agree for every member of
\* the staff, so the lists, the board and the export of those who have the permission show
\* what may be opened (dashboard/beneficiaries.py:54-67, 280-291, dashboard/rbac.py:39-57).
THEOREM ListsShowWhatMayBeOpened == OfficeSpec => []ListsWhatMayBeOpened
<1>1. ASSUME NEW m \in Staff, NEW b \in Beneficiaries
      PROVE  rows[b] # Absent => (Scoped(m, rows[b]) <=> Access(m, rows[b]))
  BY DEF Scoped, Access
<1>2. ASSUME NEW m \in Staff PROVE Listed(m, NoOne) = {b \in Beneficiaries : MayOpen(m, b)}
  BY <1>1, <1>2 DEF Listed, MayOpen
<1>3. ASSUME NEW m \in Staff, NEW assignee \in Staff PROVE Listed(m, assignee) \subseteq Listed(m, NoOne)
  BY DEF Listed
<1>4. ASSUME NEW s \in Statuses PROVE Column(s) \in Columns <=> s # "rejected"
  BY DEF Statuses, Column, Columns
<1>5. ASSUME NEW m \in Staff, NEW statusOf \in [Beneficiaries -> Statuses]
      PROVE  Board(m, statusOf) = {b \in Listed(m, NoOne) : statusOf[b] # "rejected"}
  BY <1>4 DEF Board, Listed
<1>6. ListsWhatMayBeOpened
  BY <1>2, <1>3, <1>5 DEF ListsWhatMayBeOpened, Exported
<1>7. QED BY <1>6, PTL

-----------------------------------------------------------------------------
(* The parts together (MCAssistant) *)

\* A step of the composition is a step of the part in focus, and none of the others.
LEMMA FocusSteps ==
    ASSUME [MCNext]_assistantVars
    PROVE  /\ [InterviewNext]_interviewVars
           /\ [VoiceNext]_voiceVars
           /\ [SocketNext]_socketVars
           /\ [IndexNext]_indexVars
           /\ [DocumentsNext]_documentVars
           /\ [QuotaNext]_quotaVars
           /\ [OfficeNext]_officeVars
<1>1. CASE focus = "interview" /\ MCNext
  BY <1>1 DEF MCNext, InterviewSteps, InterviewNext
<1>2. CASE focus = "voice" /\ MCNext
  BY <1>2 DEF MCNext, VoiceSteps
<1>3. CASE focus = "socket" /\ MCNext
  BY <1>3 DEF MCNext
<1>4. CASE focus = "index" /\ MCNext
  BY <1>4 DEF MCNext, IndexSteps, IndexNext
<1>5. CASE focus = "documents" /\ MCNext
  BY <1>5 DEF MCNext, DocumentSteps, DocumentsNext
<1>6. CASE focus = "quota" /\ MCNext
  BY <1>6 DEF MCNext, QuotaSteps, QuotaNext
<1>7. CASE focus = "office" /\ MCNext
  BY <1>7 DEF MCNext, OfficeSteps, OfficeNext
<1>8. CASE UNCHANGED assistantVars
  BY <1>8 DEF assistantVars
<1>9. QED BY <1>1, <1>2, <1>3, <1>4, <1>5, <1>6, <1>7, <1>8 DEF MCNext

\* The composition implements the specification of every part: a step of the run is a
\* step of one part and leaves the others alone, and the run starts where they start.
\* What the theorems say of a part they say of the run, whatever its focus and bounds.
THEOREM CompositionImplementsParts ==
    MCSpec => InterviewSpec /\ VoiceSpec /\ SocketSpec /\ IndexSpec /\ DocumentsSpec /\ QuotaSpec /\ OfficeSpec
<1>1. MCInit => InterviewInit /\ VoiceInit /\ SocketInit /\ IndexInit /\ DocumentsInit /\ QuotaInit /\ OfficeInit
  BY DEF MCInit
<1>2. [MCNext]_assistantVars => [InterviewNext]_interviewVars
  BY FocusSteps
<1>3. [MCNext]_assistantVars => [VoiceNext]_voiceVars
  BY FocusSteps
<1>4. [MCNext]_assistantVars => [SocketNext]_socketVars
  BY FocusSteps
<1>5. [MCNext]_assistantVars => [IndexNext]_indexVars
  BY FocusSteps
<1>6. [MCNext]_assistantVars => [DocumentsNext]_documentVars
  BY FocusSteps
<1>7. [MCNext]_assistantVars => [QuotaNext]_quotaVars
  BY FocusSteps
<1>8. [MCNext]_assistantVars => [OfficeNext]_officeVars
  BY FocusSteps
<1>9. QED
  BY <1>1, <1>2, <1>3, <1>4, <1>5, <1>6, <1>7, <1>8, PTL
  DEF MCSpec, InterviewSpec, VoiceSpec, SocketSpec, IndexSpec, DocumentsSpec, QuotaSpec, OfficeSpec

\* Every table, cache, file, counter, handler and message of the seven parts keeps its
\* type, whatever interleaving of their handlers the run takes.
THEOREM AssistantTypes == MCSpec => []AssistantTypeOK
<1>1. InterviewInv /\ VoiceInv /\ SocketInv /\ IndexInv /\ DocumentsInv /\ QuotaInv /\ OfficeInv => AssistantTypeOK
  BY DEF InterviewInv, VoiceInv, SocketInv, IndexInv, DocumentsInv, QuotaInv, OfficeInv, AssistantTypeOK
<1>2. QED
  BY <1>1, CompositionImplementsParts, InterviewInvariant, VoiceInvariant, WireLeads, IndexInvariant,
     DocumentsInvariant, CountersBacked, OfficeInvariant, PTL

\* The other properties of the run, for every value of the constants: answers that no
\* later fact overturns, questions to the end, quota, rows, recordings, files, advice and
\* lists that tell the truth, and what a step of any part may never do.
THEOREM AssistantKeepsItsPromises ==
    MCSpec => /\ [](VerdictsTrue /\ CompleteDecides /\ FallbackOnlyWhenExhausted)
              /\ [](GrantsWithinLimit /\ VoiceRowsTellTurns /\ RecordingsApart)
              /\ [](OwnRebuildFits /\ AdviceHolds /\ ListsWhatMayBeOpened)
              /\ StaysSearchable /\ AnsweredInTheirLanguage /\ NeverLockedOut /\ AssignmentByAdmins
BY CompositionImplementsParts, VerdictsNeverOverturned, CompleteProfilesDecide, QuestionsExhausted,
   LimitKept, RowsTellTurns, TurnsAreRecordings, OwnRebuildGivesFittingFiles, AdviceCanBeFollowed,
   ListsShowWhatMayBeOpened, IndexNeverLost, ForeignSpeakersServed, RefusedOnlyWhenSpent,
   AssignmentStaysWithAdmins, PTL
=============================================================================
