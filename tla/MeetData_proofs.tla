---------------------------- MODULE MeetData_proofs ----------------------------
(***************************************************************************)
(* Proofs about what the settings file and the viewers' pages hold, for    *)
(* all files, forms, footer messages and numbers of requests.              *)
(***************************************************************************)
EXTENDS MeetData, TLAPS
LOCAL INSTANCE SequencesExt
Numbers == INSTANCE WellFoundedInduction

-----------------------------------------------------------------------------
(* The settings file *)

\* The file has its four parts, and three of them always agree with the memory.
FileIsWhole ==
  /\ saved = [schedule |-> saved.schedule, standards |-> saved.standards,
              rec_sets |-> saved.rec_sets, footers |-> saved.footers]
  /\ failed \in BOOLEAN
  /\ RestartRestores

\* A change of one part leaves the others in the file.
LEMMA SaveKeepsTheRest ==
  ASSUME FileIsWhole
  PROVE  /\ \A value : Save("schedule", value) =>
              saved' = [schedule |-> value, standards |-> saved.standards,
                        rec_sets |-> saved.rec_sets, footers |-> saved.footers]
         /\ \A value : Save("standards", value) =>
              saved' = [schedule |-> saved.schedule, standards |-> value,
                        rec_sets |-> saved.rec_sets, footers |-> saved.footers]
         /\ \A value : Save("rec_sets", value) =>
              saved' = [schedule |-> saved.schedule, standards |-> saved.standards,
                        rec_sets |-> value, footers |-> saved.footers]
         /\ \A value : Save("footers", value) =>
              saved' = [schedule |-> saved.schedule, standards |-> saved.standards,
                        rec_sets |-> saved.rec_sets, footers |-> value]
  BY DEF FileIsWhole, Save

\* The schedule and the file after a change of the schedule that is saved.
LEMMA SavedWithSchedule ==
  ASSUME FileIsWhole, Save("schedule", schedule'), failed' \in BOOLEAN,
         UNCHANGED <<standards, rec_sets, footers>>
  PROVE  FileIsWhole'
<1>1. saved' = [schedule |-> schedule', standards |-> saved.standards,
                rec_sets |-> saved.rec_sets, footers |-> saved.footers]
  BY SaveKeepsTheRest
<1> QED BY <1>1 DEF FileIsWhole, RestartRestores

LEMMA ScheduleSaved ==
  ASSUME FileIsWhole,
         \/ \E file \in Parsed : UploadSchedule(file)
         \/ UploadScheduleFails \/ ClearSchedule
         \/ \E form \in Forms : CombineEvents(form)
  PROVE  FileIsWhole'
<1>1. ASSUME NEW file \in Parsed, UploadSchedule(file) PROVE FileIsWhole'
  BY <1>1, SavedWithSchedule DEF UploadSchedule
<1>2. CASE UploadScheduleFails
  BY <1>2 DEF UploadScheduleFails, FileIsWhole, RestartRestores
<1>3. CASE ClearSchedule
  BY <1>3, SavedWithSchedule DEF ClearSchedule
<1>4. ASSUME NEW form \in Forms, CombineEvents(form) PROVE FileIsWhole'
  <2> DEFINE tables == Merged(schedule.uncombined, form)
  <2> HIDE DEF tables
  <2>1. /\ failed' = ~tables.ok
        /\ IF tables.ok THEN Save("schedule", schedule') ELSE UNCHANGED saved
        /\ UNCHANGED <<standards, rec_sets, next_set_id, footers, heat>>
    BY <1>4 DEF CombineEvents, tables
  <2>2. CASE tables.ok
    BY <2>1, <2>2, SavedWithSchedule
  <2>3. CASE ~tables.ok
    BY <2>1, <2>3 DEF FileIsWhole, RestartRestores
  <2> QED BY <2>2, <2>3
<1> QED BY <1>1, <1>2, <1>3, <1>4

LEMMA TablesSaved ==
  ASSUME FileIsWhole,
         \/ \E rows \in RowTables : UploadStandards(rows) \/ UploadRecords(rows)
         \/ ClearStandards
         \/ \E r \in rec_sets : RemoveRecords(r.set_id)
  PROVE  FileIsWhole'
<1>1. ASSUME NEW rows \in RowTables, UploadStandards(rows) PROVE FileIsWhole'
  BY <1>1, SaveKeepsTheRest DEF UploadStandards, FileIsWhole, RestartRestores
<1>2. ASSUME NEW rows \in RowTables, UploadRecords(rows) PROVE FileIsWhole'
  BY <1>2, SaveKeepsTheRest DEF UploadRecords, FileIsWhole, RestartRestores
<1>3. CASE ClearStandards
  BY <1>3, SaveKeepsTheRest DEF ClearStandards, Silently, FileIsWhole, RestartRestores
<1>4. ASSUME NEW r \in rec_sets, RemoveRecords(r.set_id) PROVE FileIsWhole'
  BY <1>4, SaveKeepsTheRest DEF RemoveRecords, FileIsWhole, RestartRestores
<1> QED BY <1>1, <1>2, <1>3, <1>4

LEMMA FootersSaved ==
  ASSUME FileIsWhole, NEW list, ChangeFooters(list)
  PROVE  FileIsWhole'
  BY SaveKeepsTheRest DEF ChangeFooters, FileIsWhole, RestartRestores

LEMMA RestartsRestore ==
  ASSUME FileIsWhole, Restart \/ CrashInSave
  PROVE  FileIsWhole'
  BY DEF Restart, CrashInSave, LoadSettings, NothingSaved, FileIsWhole, RestartRestores

LEMMA FileCorrect == Spec => []FileIsWhole
<1>1. Init => FileIsWhole
  <2> SUFFICES ASSUME Init PROVE FileIsWhole
    OBVIOUS
  <2>1. NothingSaved.schedule = NoSchedule /\ NothingSaved.standards = {}
        /\ NothingSaved.rec_sets = {} /\ NothingSaved.footers = <<>>
    BY DEF NothingSaved
  <2>2. saved = NothingSaved /\ failed = FALSE /\ schedule = NoSchedule
        /\ standards = {} /\ rec_sets = {} /\ footers = <<>>
    BY DEF Init
  <2>3. saved = [schedule |-> saved.schedule, standards |-> saved.standards,
                 rec_sets |-> saved.rec_sets, footers |-> saved.footers]
    BY <2>2, Zenon DEF NothingSaved
  <2> QED BY <2>1, <2>2, <2>3 DEF FileIsWhole, RestartRestores
<1>2. FileIsWhole /\ [Next]_vars => FileIsWhole'
  <2> SUFFICES ASSUME FileIsWhole, [Next]_vars PROVE FileIsWhole'
    OBVIOUS
  <2>1. CASE Request
    BY <2>1, ScheduleSaved, TablesSaved, FootersSaved DEF Request, AddFooter, RemoveFooter
  <2>2. CASE (\E h \in Heats : SelectHeat(h)) \/ Connect
    BY <2>2 DEF SelectHeat, Connect, memory, FileIsWhole, RestartRestores
  <2>3. CASE Restart \/ CrashInSave
    BY <2>3, RestartsRestore
  <2>4. CASE UNCHANGED vars
    BY <2>4 DEF vars, memory, FileIsWhole, RestartRestores
  <2> QED BY <2>1, <2>2, <2>3, <2>4 DEF Next
<1> QED BY <1>1, <1>2, PTL DEF Spec

\* No request leaves the settings file behind the memory (RestartRestores).
THEOREM RestartsAreFaithful == Spec => []RestartRestores
<1>1. FileIsWhole => RestartRestores
  BY DEF FileIsWhole
<1> QED BY <1>1, FileCorrect, PTL

-----------------------------------------------------------------------------
(* The display *)

\* What the pages are told of depends on these.
LEMMA InfoStays ==
  ASSUME UNCHANGED <<announced, standards, rec_sets, footers, heat>>
  PROVE  Info(announced)' = Info(announced)
  BY DEF Info, QualifyingTimes, MatchingRecords, Matching, Matches, AgeRanges, Footer

\* Fewer standards and records select fewer, and the same lanes and footer.
LEMMA InfoShrinks ==
  ASSUME UNCHANGED <<announced, footers, heat>>,
         standards' \subseteq standards, rec_sets' \subseteq rec_sets
  PROVE  /\ Info(announced)'.lanes = Info(announced).lanes
         /\ Info(announced)'.footer = Info(announced).footer
         /\ Info(announced)'.times \subseteq Info(announced).times
         /\ Info(announced)'.records \subseteq Info(announced).records
<1>1. Footer(announced, heat[1])' = Footer(announced, heat[1])
  BY DEF Footer
<1>2. QualifyingTimes(announced, heat[1])' \subseteq QualifyingTimes(announced, heat[1])
  BY DEF QualifyingTimes, Matching, Matches, AgeRanges
<1>3. MatchingRecords(announced, heat[1])' \subseteq MatchingRecords(announced, heat[1])
  <2>1. \A rows : Matching(announced, heat[1], rows)' = Matching(announced', heat'[1], rows)
    BY DEF Matching, Matches, AgeRanges
  <2> QED BY <2>1 DEF MatchingRecords
<1> QED BY <1>1, <1>2, <1>3 DEF Info

\* What reaches the pages too late is only what was taken away, and the combined
\* heats; what was loaded, added or selected is there, or they are loaded again
\* (PagesMissNothing).
THEOREM DisplayMissesNothing == Spec => []PagesMissNothing
<1>1. Init => PagesMissNothing
  BY DEF Init, PagesMissNothing
<1>2. PagesMissNothing /\ [Next]_vars => PagesMissNothing'
  <2> SUFFICES ASSUME PagesMissNothing, [Next]_vars PROVE PagesMissNothing'
    OBVIOUS
  <2>1. ASSUME reload' = TRUE PROVE PagesMissNothing'
    BY <2>1 DEF PagesMissNothing
  <2>2. ASSUME Announce PROVE PagesMissNothing'
    <3>1. shown' = Info(announced)' /\ announced' = schedule'
      BY <2>2 DEF Announce, Info, QualifyingTimes, MatchingRecords, Matching, Matches,
                  AgeRanges, Footer
    <3> QED BY <3>1 DEF PagesMissNothing
  <2>3. ASSUME Silently, UNCHANGED <<standards, rec_sets, footers, heat>>,
               schedule'.uncombined \in {schedule.uncombined, NoEntries}
        PROVE  PagesMissNothing'
    <3>1. UNCHANGED <<shown, reload, announced>>
      BY <2>3 DEF Silently, display
    <3>2. Info(announced)' = Info(announced)
      BY <2>3, <3>1, InfoStays
    <3> QED BY <2>3, <3>1, <3>2 DEF PagesMissNothing
  <2>4. ASSUME Silently, UNCHANGED <<schedule, footers, heat>>,
               standards' \subseteq standards, rec_sets' \subseteq rec_sets
        PROVE  PagesMissNothing'
    <3>1. UNCHANGED <<shown, reload, announced>>
      BY <2>4 DEF Silently, display
    <3> QED BY <2>4, <3>1, InfoShrinks DEF PagesMissNothing
  <2>5. ASSUME NEW file \in Parsed, UploadSchedule(file) PROVE PagesMissNothing'
    BY <2>1, <2>5 DEF UploadSchedule, Reload
  <2>6. CASE UploadScheduleFails \/ ClearSchedule
    <3>1. NoSchedule.uncombined = NoEntries
      BY DEF NoSchedule
    <3>2. ASSUME NEW file \in Parsed
          PROVE  [NoSchedule EXCEPT !.meta = file.meta, !.events = file.heats].uncombined
                   = NoEntries
      BY <3>1 DEF NoSchedule
    <3>3. ASSUME NEW s \in Remains
          PROVE  s.uncombined = NoEntries
      <4>1. CASE s = NoSchedule
        BY <3>1, <4>1
      <4>2. ASSUME NEW file \in Parsed,
                   s = [NoSchedule EXCEPT !.meta = file.meta, !.events = file.heats]
            PROVE  s.uncombined = NoEntries
        BY <3>2, <4>2
      <4> QED BY <4>1, <4>2, Zenon DEF Remains
    <3> QED BY <2>3, <2>6, <3>1, <3>3 DEF UploadScheduleFails, ClearSchedule
  <2>7. ASSUME NEW form \in Forms, CombineEvents(form) PROVE PagesMissNothing'
    <3>1. schedule'.uncombined = schedule.uncombined
      BY <2>7 DEF CombineEvents
    <3> QED BY <2>3, <2>7, <3>1 DEF CombineEvents
  <2>8. ASSUME NEW rows \in RowTables, UploadStandards(rows) \/ UploadRecords(rows)
        PROVE  PagesMissNothing'
    BY <2>1, <2>8 DEF UploadStandards, UploadRecords, Reload
  <2>9. CASE ClearStandards
    BY <2>4, <2>9 DEF ClearStandards
  <2>10. ASSUME NEW r \in rec_sets, RemoveRecords(r.set_id) PROVE PagesMissNothing'
    BY <2>4, <2>10 DEF RemoveRecords
  <2>11. ASSUME NEW list, ChangeFooters(list) PROVE PagesMissNothing'
    BY <2>1, <2>11 DEF ChangeFooters, Reload, RefreshFooter
  <2>12. CASE (\E h \in Heats : SelectHeat(h)) \/ Connect
    BY <2>2, <2>12 DEF SelectHeat, Connect
  <2>13. CASE Restart \/ CrashInSave
    BY <2>1, <2>13 DEF Restart, CrashInSave, LoadSettings
  <2>14. CASE UNCHANGED vars
    BY <2>3, <2>14 DEF vars, memory, Silently
  <2> QED BY <2>5, <2>6, <2>7, <2>8, <2>9, <2>10, <2>11, <2>12, <2>13, <2>14
          DEF Next, Request, AddFooter, RemoveFooter
<1> QED BY <1>1, <1>2, PTL DEF Spec
-----------------------------------------------------------------------------
(* The identifiers of the record sets *)

\* In every part of the sets one was added last; this makes the identifier
\* that load_settings goes on with well defined.
HasLast(sets) == \E r \in sets : \A q \in sets : r.set_id >= q.set_id

Numbered(sets, next) ==
  /\ next \in Nat
  /\ \A r \in sets : r.set_id \in Nat /\ r.set_id < next
  /\ \A r, q \in sets : q.set_id = r.set_id => q = r
  /\ \A part \in SUBSET sets : part # {} => HasLast(part)

\* A set with the next identifier keeps the sets numbered.
LEMMA AddNumbered ==
  ASSUME NEW sets, NEW next, Numbered(sets, next), NEW added, added.set_id = next
  PROVE  Numbered(sets \cup {added}, next + 1)
<1>1. ASSUME NEW part \in SUBSET (sets \cup {added}), part # {} PROVE HasLast(part)
  <2>1. CASE added \in part
    <3>1. \A q \in part : added.set_id >= q.set_id
      BY DEF Numbered
    <3> QED BY <2>1, <3>1 DEF HasLast
  <2>2. CASE added \notin part
    BY <1>1, <2>2 DEF Numbered
  <2> QED BY <2>1, <2>2
<1> QED BY <1>1 DEF Numbered

LEMMA RemoveNumbered ==
  ASSUME NEW sets, NEW next, Numbered(sets, next), NEW fewer \in SUBSET sets
  PROVE  Numbered(fewer, next)
  BY DEF Numbered

\* After a restart the numbering goes on above every set there is.
LEMMA LoadNumbered ==
  ASSUME NEW sets, NEW next, Numbered(sets, next)
  PROVE  Numbered(sets, next_id_after_load(sets))
<1>1. CASE sets = {}
  BY <1>1 DEF Numbered, next_id_after_load
<1>2. CASE sets # {}
  <2> DEFINE last == CHOOSE r \in sets : \A q \in sets : r.set_id >= q.set_id
  <2>1. last \in sets /\ \A q \in sets : last.set_id >= q.set_id
    BY <1>2, Zenon DEF Numbered, HasLast
  <2>2. next_id_after_load(sets) = last.set_id + 1
    BY <1>2 DEF next_id_after_load
  <2> HIDE DEF last
  <2> QED BY <2>1, <2>2 DEF Numbered
<1> QED BY <1>1, <1>2

\* No request, restart or crash breaks the numbering.
LEMMA SetsNumbered == Spec => []Numbered(rec_sets, next_set_id)
<1>1. Init => Numbered(rec_sets, next_set_id)
  BY DEF Init, Numbered
<1>2. FileIsWhole /\ Numbered(rec_sets, next_set_id) /\ [Next]_vars
        => Numbered(rec_sets, next_set_id)'
  <2> SUFFICES ASSUME FileIsWhole, Numbered(rec_sets, next_set_id), [Next]_vars
               PROVE  Numbered(rec_sets', next_set_id')
    OBVIOUS
  <2>1. ASSUME NEW rows \in RowTables, UploadRecords(rows)
        PROVE  Numbered(rec_sets', next_set_id')
    BY <2>1, AddNumbered DEF UploadRecords
  <2>2. ASSUME NEW r \in rec_sets, RemoveRecords(r.set_id)
        PROVE  Numbered(rec_sets', next_set_id')
    BY <2>2, RemoveNumbered DEF RemoveRecords
  <2>3. CASE Restart
    <3>1. saved.rec_sets = rec_sets
      BY DEF FileIsWhole, RestartRestores
    <3> QED BY <2>3, <3>1, LoadNumbered DEF Restart, LoadSettings
  <2>4. CASE CrashInSave
    <3>1. rec_sets' = {} /\ next_set_id' = next_id_after_load({})
      BY <2>4 DEF CrashInSave, LoadSettings, NothingSaved
    <3> QED BY <3>1 DEF Numbered, next_id_after_load
  <2>5. CASE UNCHANGED <<rec_sets, next_set_id>>
    BY <2>5
  <2>6. ASSUME NEW file \in Parsed, UploadSchedule(file) PROVE UNCHANGED <<rec_sets, next_set_id>>
    BY <2>6 DEF UploadSchedule
  <2>7. CASE UploadScheduleFails \/ ClearSchedule \/ ClearStandards
    BY <2>5, <2>7 DEF UploadScheduleFails, ClearSchedule, ClearStandards
  <2>8. ASSUME NEW form \in Forms, CombineEvents(form) PROVE UNCHANGED <<rec_sets, next_set_id>>
    BY <2>8 DEF CombineEvents
  <2>9. ASSUME NEW rows \in RowTables, UploadStandards(rows) PROVE UNCHANGED <<rec_sets, next_set_id>>
    BY <2>9 DEF UploadStandards
  <2>10. ASSUME NEW list, ChangeFooters(list) PROVE UNCHANGED <<rec_sets, next_set_id>>
    BY <2>10 DEF ChangeFooters
  <2>11. CASE (\E h \in Heats : SelectHeat(h)) \/ Connect \/ UNCHANGED vars
    BY <2>5, <2>11 DEF SelectHeat, Connect, vars, memory
  <2> QED BY <2>1, <2>2, <2>3, <2>4, <2>5, <2>6, <2>7, <2>8, <2>9, <2>10, <2>11
          DEF Next, Request, AddFooter, RemoveFooter
<1> QED BY <1>1, <1>2, FileCorrect, PTL DEF Spec

\* No two record sets ever share an identifier (UniqueSetIds).
THEOREM IdsAreUnique == Spec => []UniqueSetIds
<1>1. Numbered(rec_sets, next_set_id) => UniqueSetIds
  BY DEF Numbered, UniqueSetIds
<1> QED BY <1>1, SetsNumbered, PTL

-----------------------------------------------------------------------------
(* Types *)

LEMMA RemoveAtTyped ==
  ASSUME NEW S, NEW s \in Seq(S), NEW i \in DOMAIN s
  PROVE  RemoveAt(s, i) \in Seq(S)
<1>1. i \in 1 .. Len(s)
  OBVIOUS
<1>2. SubSeq(s, 1, i - 1) \in Seq(S) /\ SubSeq(s, i + 1, Len(s)) \in Seq(S)
  BY <1>1
<1>3. SubSeq(s, 1, i - 1) \o SubSeq(s, i + 1, Len(s)) \in Seq(S)
  BY <1>2
<1> QED BY <1>3 DEF RemoveAt

Flags == {reload, failed} \subseteq BOOLEAN

\* Types of a step in parts: the flags, and all the rest.
LEMMA TypeParts ==
  ASSUME Flags', TypeOK,
         /\ standards' \in RowTables \cup {{}}
         /\ \A r \in rec_sets' : r.set_id \in Nat /\ r.rows \in RowTables
         /\ next_set_id' \in Nat /\ footers' \in Seq(Messages)
         /\ heat' \in Heats /\ edits' \in 0 .. MaxEdits
  PROVE  TypeOK'
  BY DEF TypeOK, Flags

\* A change of the footers, to a list of messages.
LEMMA FootersTyped ==
  ASSUME TypeOK, NEW list \in Seq(Messages), ChangeFooters(list), edits' \in 0 .. MaxEdits
  PROVE  TypeOK'
  BY DEF TypeOK, ChangeFooters, Reload, RefreshFooter

\* What a request does to the tables; the numbering of the sets is known.
LEMMA RequestTyped ==
  ASSUME TypeOK, Numbered(rec_sets, next_set_id), Request
  PROVE  TypeOK'
<1> USE BoundAssumption DEF TypeOK, Edit
<1>1. ASSUME NEW file \in Parsed, UploadSchedule(file) PROVE TypeOK'
  <2>1. Flags'
    BY <1>1, Zenon DEF UploadSchedule, Announce, Reload, Flags
  <2> QED BY <1>1, <2>1, TypeParts DEF UploadSchedule
<1>2. CASE UploadScheduleFails \/ ClearSchedule
  <2>1. reload' = reload /\ (failed' = TRUE \/ failed' = FALSE)
    BY <1>2, Zenon DEF UploadScheduleFails, ClearSchedule, Silently, display
  <2>2. Flags'
    BY <2>1, Zenon DEF Flags
  <2> QED BY <1>2, <2>2, TypeParts DEF UploadScheduleFails, ClearSchedule
<1>3. ASSUME NEW form \in Forms, CombineEvents(form) PROVE TypeOK'
  <2>1. failed' \in BOOLEAN
    BY <1>3 DEF CombineEvents
  <2> QED BY <1>3, <2>1 DEF CombineEvents, Silently, display
<1>4. ASSUME NEW rows \in RowTables, UploadStandards(rows) PROVE TypeOK'
  BY <1>4 DEF UploadStandards, Reload
<1>5. ASSUME NEW rows \in RowTables, UploadRecords(rows) PROVE TypeOK'
  BY <1>5 DEF UploadRecords, Reload
<1>6. CASE ClearStandards
  BY <1>6 DEF ClearStandards, Silently, display
<1>7. ASSUME NEW r \in rec_sets, RemoveRecords(r.set_id) PROVE TypeOK'
  BY <1>7 DEF RemoveRecords, Silently, display
<1>8. ASSUME NEW msg \in Messages, AddFooter(msg) PROVE TypeOK'
  <2>1. Append(footers, msg) \in Seq(Messages)
    OBVIOUS
  <2>2. ChangeFooters(Append(footers, msg)) /\ edits' \in 0 .. MaxEdits
    BY <1>8 DEF AddFooter
  <2> QED BY <2>1, <2>2, FootersTyped
<1>9. ASSUME NEW i \in DOMAIN footers, RemoveFooter(i) PROVE TypeOK'
  <2>1. RemoveAt(footers, i) \in Seq(Messages)
    BY RemoveAtTyped
  <2> QED BY <1>9, <2>1, FootersTyped DEF RemoveFooter
<1> QED BY <1>1, <1>2, <1>3, <1>4, <1>5, <1>6, <1>7, <1>8, <1>9 DEF Request

\* A restart finds in the file what was typed in memory.
LEMMA RestartTyped ==
  ASSUME TypeOK, FileIsWhole, Numbered(rec_sets, next_set_id), Restart \/ CrashInSave
  PROVE  TypeOK'
<1> USE HeatAssumption DEF TypeOK, LoadSettings
<1>1. CASE Restart
  <2>1. saved.standards = standards /\ saved.rec_sets = rec_sets /\ saved.footers = footers
    BY DEF FileIsWhole, RestartRestores
  <2>2. next_set_id' \in Nat
    BY <1>1, <2>1, LoadNumbered DEF Restart, Numbered
  <2> QED BY <1>1, <2>1, <2>2 DEF Restart
<1>2. CASE CrashInSave
  <2>1. standards' = {} /\ rec_sets' = {} /\ footers' = <<>> /\ next_set_id' = 0
    BY <1>2 DEF CrashInSave, NothingSaved, next_id_after_load
  <2>2. Flags'
    BY <1>2, Zenon DEF CrashInSave, Flags
  <2>3. heat' \in Heats /\ UNCHANGED edits
    BY <1>2 DEF CrashInSave
  <2> QED BY <2>1, <2>2, <2>3, TypeParts
<1> QED BY <1>1, <1>2

\* The tables hold what files and forms contain, whatever is replaced, added,
\* removed or read back from the settings file (TypeOK).
THEOREM TypeCorrect == Spec => []TypeOK
<1>1. Init => TypeOK
  <2> SUFFICES ASSUME Init PROVE TypeOK
    OBVIOUS
  <2>1. Flags
    BY Zenon DEF Init, Flags
  <2> QED BY <2>1, HeatAssumption, BoundAssumption DEF Init, TypeOK, Flags
<1>2. TypeOK /\ FileIsWhole /\ Numbered(rec_sets, next_set_id) /\ [Next]_vars => TypeOK'
  <2> SUFFICES ASSUME TypeOK, FileIsWhole, Numbered(rec_sets, next_set_id), [Next]_vars
               PROVE  TypeOK'
    OBVIOUS
  <2>1. CASE (\E h \in Heats : SelectHeat(h)) \/ Connect
    BY <2>1 DEF SelectHeat, Connect, Announce, memory, TypeOK
  <2>2. CASE UNCHANGED vars
    BY <2>2 DEF vars, memory, display, TypeOK
  <2> QED BY <2>1, <2>2, RequestTyped, RestartTyped DEF Next
<1> QED BY <1>1, <1>2, FileCorrect, SetsNumbered, PTL DEF Spec

-----------------------------------------------------------------------------
(* The loop of combine_events *)

\* What holds before the first row, and after a row if it held before it, holds
\* after every row: else there would be a first row after which it does not.
LEMMA RowByRow ==
  ASSUME NEW n \in Nat, NEW S, 0 \in S, \A i \in 0..(n - 1) : i \in S => i + 1 \in S
  PROVE  \A i \in 0..n : i \in S
<1> DEFINE Missed == {i \in 0..n : i \notin S}
           less == Numbers!OpToRel(<, Nat)
<1>1. SUFFICES ASSUME Missed # {} PROVE FALSE
  OBVIOUS
<1>2. \A x, y \in Nat : <<y, x>> \in less <=> y < x
  BY DEF Numbers!OpToRel
<1>3. Numbers!IsWellFoundedOn(less, Nat)
  BY Numbers!NatLessThanWellFounded
<1> HIDE DEF less
<1>4. PICK m \in Missed : \A i \in Missed : <<i, m>> \notin less
  <2>1. Missed \subseteq Nat
    OBVIOUS
  <2> HIDE DEF Missed
  <2> QED BY <1>1, <1>3, <2>1, Numbers!WFMin
<1>5. m # 0 /\ m \in Nat /\ m - 1 \in 0..(n - 1)
  OBVIOUS
<1>6. m - 1 \in Missed
  BY <1>5
<1>7. <<m - 1, m>> \in less
  BY <1>2, <1>5
<1> QED BY <1>4, <1>6, <1>7

\* The tables that the loop starts from, goes through row by row, and ends with.
IsLoop(after, uncombined, form) ==
  /\ DOMAIN after = 0..Len(form)
  /\ after[0] = Copied(uncombined)
  /\ \A i \in 1..Len(form) : after[i] = MergeInto(after[i - 1], form[i])

\* Merged is what a loop ends with: its recursive function exists.
LEMMA MergedIsALoop ==
  ASSUME NEW uncombined, NEW form, Len(form) \in Nat
  PROVE  \E after : IsLoop(after, uncombined, form) /\ Merged(uncombined, form) = after[Len(form)]
<1> DEFINE n == Len(form)
           Turn(after, i) == IF i = 0 THEN Copied(uncombined) ELSE MergeInto(after[i - 1], form[i])
           S == {k \in Nat : \E after : after = [i \in 0..k |-> Turn(after, i)]}
<1>1. n \in S
  <2>1. 0 \in S
    <3> DEFINE first == [i \in 0..0 |-> Copied(uncombined)]
    <3>1. first = [i \in 0..0 |-> Turn(first, i)]
      <4>1. \A i \in 0..0 : i = 0
        OBVIOUS
      <4> QED BY <4>1
    <3> QED BY <3>1
  <2>2. ASSUME NEW k \in Nat, k \in S
        PROVE  k + 1 \in S
    <3>1. PICK after : after = [i \in 0..k |-> Turn(after, i)]
      BY <2>2
    <3> DEFINE longer == [i \in 0..(k + 1) |-> IF i = k + 1 THEN MergeInto(after[k], form[k + 1])
                                               ELSE after[i]]
    <3>2. \A i \in 0..(k + 1) : longer[i] = Turn(longer, i)
      <4> TAKE i \in 0..(k + 1)
      <4>1. CASE i = k + 1
        <5>1. longer[i] = MergeInto(after[k], form[i])
          BY <4>1
        <5>2. longer[i - 1] = after[k]
          BY <4>1
        <5>3. i # 0
          BY <4>1
        <5> HIDE DEF longer
        <5> QED BY <5>1, <5>2, <5>3
      <4>2. CASE i # k + 1 /\ i # 0
        <5>1. i \in 0..k /\ i - 1 \in 0..k /\ i # 0
          BY <4>2
        <5>2. after[i] = Turn(after, i)
          <6> HIDE DEF Turn
          <6> QED BY <3>1, <5>1
        <5>3. longer[i] = after[i] /\ longer[i - 1] = after[i - 1]
          BY <4>2, <5>1
        <5> HIDE DEF longer
        <5> QED BY <5>1, <5>2, <5>3
      <4>3. CASE i # k + 1 /\ i = 0
        <5>1. after[0] = Turn(after, 0)
          <6>1. 0 \in 0..k
            OBVIOUS
          <6> HIDE DEF Turn
          <6> QED BY <3>1, <6>1
        <5> QED BY <4>3, <5>1
      <4> QED BY <4>1, <4>2, <4>3
    <3>3. longer = [i \in 0..(k + 1) |-> Turn(longer, i)]
      <4>1. longer = [i \in 0..(k + 1) |-> longer[i]]
        OBVIOUS
      <4> HIDE DEF longer, Turn
      <4> QED BY <3>2, <4>1
    <3> HIDE DEF longer, Turn
    <3>4. \E f : f = [i \in 0..(k + 1) |-> Turn(f, i)]
      BY <3>3
    <3> QED BY <3>4
  <2>3. \A i \in 0..n : i \in S
    <3>1. \A i \in 0..(n - 1) : i \in S => i + 1 \in S
      <4> HIDE DEF S
      <4> QED BY <2>2
    <3> HIDE DEF S
    <3> QED BY <2>1, <3>1, RowByRow
  <2>4. n \in 0..n
    OBVIOUS
  <2> HIDE DEF S
  <2> QED BY <2>3, <2>4
<1> DEFINE after == CHOOSE f : f = [i \in 0..n |-> Turn(f, i)]
<1>2. after = [i \in 0..n |-> Turn(after, i)]
  <2>1. \E f : f = [i \in 0..n |-> Turn(f, i)]
    BY <1>1
  <2> HIDE DEF Turn
  <2> QED BY <2>1
<1>3. Merged(uncombined, form) = after[n]
  BY DEF Merged
<1> HIDE DEF after
<1>4. \A i \in 0..n : after[i] = Turn(after, i)
  <2> HIDE DEF Turn
  <2> QED BY <1>2
<1>5. DOMAIN after = 0..n
  <2> HIDE DEF Turn
  <2> QED BY <1>2
<1>6. \A i \in 1..n : i \in 0..n /\ i # 0
  OBVIOUS
<1> QED BY <1>3, <1>4, <1>5, <1>6 DEF IsLoop

\* A page lists every heat once, in order, and the dictionary has each row.
LEMMA PageRows ==
  ASSUME NEW form \in Forms
  PROVE  /\ Len(form) \in Nat
         /\ \A i \in 1..Len(form) :
              /\ form[i][1] \in Nat \X Nat /\ form[i][1] \in DOMAIN Combined(form)
              /\ Combined(form)[form[i][1]] = form[i][2]
              /\ \A j \in 1..(i - 1) : Before(form[j][1], form[i][1])
              /\ \A j \in 1..Len(form) : form[j][1] = form[i][1] => j = i
         /\ DOMAIN Combined(form) = {form[i][1] : i \in 1..Len(form)}
<1>1. /\ form \in Seq((Nat \X Nat) \X (Nat \X Nat))
      /\ \A i \in 1..Len(form) : \A j \in 1..(i - 1) : Before(form[j][1], form[i][1])
  BY FormsAssumption
<1>2. \A i \in 1..Len(form) : form[i] \in (Nat \X Nat) \X (Nat \X Nat)
  BY <1>1
<1>3. \A i \in 1..Len(form) : form[i][1] \in Nat \X Nat
  BY <1>2
<1>4. \A i, j \in 1..Len(form) : form[j][1] = form[i][1] => j = i
  <2> SUFFICES ASSUME NEW i \in 1..Len(form), NEW j \in 1..Len(form), i < j
               PROVE  form[i][1] # form[j][1]
    BY <1>1
  <2>1. Before(form[i][1], form[j][1])
    BY <1>1
  <2>2. ~Before(form[i][1], form[i][1])
    BY <1>3 DEF Before
  <2> QED BY <2>1, <2>2
<1>5. \A i \in 1..Len(form) :
        /\ form[i][1] \in {form[j][1] : j \in 1..Len(form)}
        /\ (CHOOSE j \in 1..Len(form) : form[j][1] = form[i][1]) = i
  BY <1>4
<1>6. DOMAIN Combined(form) = {form[i][1] : i \in 1..Len(form)}
  BY DEF Combined
<1>7. \A i \in 1..Len(form) : Combined(form)[form[i][1]] = form[i][2]
  <2> TAKE i \in 1..Len(form)
  <2> DEFINE s == form[i][1]
  <2>1. Combined(form)[s] = form[CHOOSE j \in 1..Len(form) : form[j][1] = s][2]
    BY <1>5 DEF Combined
  <2> QED BY <1>5, <2>1
<1>8. \A i \in 1..Len(form) : form[i][1] \in DOMAIN Combined(form)
  BY <1>6
<1>9. Len(form) \in Nat
  BY <1>1
<1> QED BY <1>1, <1>3, <1>4, <1>6, <1>7, <1>8, <1>9, Zenon

\* The order of the heats is strict.
LEMMA BeforeIsStrict ==
  ASSUME NEW g \in Nat \X Nat, NEW h \in Nat \X Nat, Before(g, h)
  PROVE  ~Before(h, g) /\ g # h
BY DEF Before

\* The lanes of a heat without sources are its own.
LEMMA NoSources ==
  ASSUME NEW heats, NEW h, LaneTable(heats[h])
  PROVE  LanesWith(heats, h, {}) = heats[h]
BY DEF LanesWith, LaneTable

\* Every one of these sources is before s.
AllBefore(sources, s) ==
  s \in Nat \X Nat /\ \A q \in sources : q \in Nat \X Nat /\ Before(q, s)

\* A source after all the others takes over the lanes it has, and no others.
LEMMA LastSource ==
  ASSUME NEW heats, NEW h, NEW sources, NEW s, NEW old,
         AllBefore(sources, s), old = LanesWith(heats, h, sources)
  PROVE  LanesWith(heats, h, sources \cup {s}) = PutOver(old, heats[s])
<1> DEFINE inLane(S, l) == {q \in S : l \in DOMAIN heats[q]}
           latest(T) == CHOOSE q \in T : \A r \in T : ~Before(q, r)
           last(S, l) == latest(inLane(S, l))
           all(S) == DOMAIN heats[h] \cup UNION {DOMAIN heats[q] : q \in S}
           show(S, l) == IF inLane(S, l) = {} THEN heats[h][l] ELSE Starred(heats[last(S, l)][l])
           new == sources \cup {s}
<1>1. \A S : LanesWith(heats, h, S) = [l \in all(S) |-> show(S, l)]
  BY DEF LanesWith
<1>2. all(new) = DOMAIN heats[s] \cup all(sources)
  OBVIOUS
<1>3. ASSUME NEW l, l \in DOMAIN heats[s]
      PROVE  show(new, l) = Starred(heats[s][l])
  <2>1. s \in inLane(new, l)
    BY <1>3
  <2>2. \A r \in inLane(new, l) : ~Before(s, r)
    BY BeforeIsStrict DEF AllBefore
  <2>3. \A q \in inLane(new, l) : q # s => Before(q, s)
    BY DEF AllBefore
  <2> HIDE DEF inLane
  <2>4. last(new, l) = s
    BY <2>1, <2>2, <2>3
  <2> QED BY <2>1, <2>4
<1>4. ASSUME NEW l, l \notin DOMAIN heats[s]
      PROVE  show(new, l) = show(sources, l)
  <2>1. inLane(new, l) = inLane(sources, l)
    BY <1>4
  <2> HIDE DEF inLane, latest
  <2> QED BY <2>1
<1>5. DOMAIN old = all(sources) /\ \A l \in all(sources) : old[l] = show(sources, l)
  <2> HIDE DEF show, all
  <2> QED BY <1>1
<1>6. LanesWith(heats, h, new) = [l \in all(new) |-> show(new, l)]
  BY <1>1
<1>7. \A l \in all(new) :
        show(new, l) = IF l \in DOMAIN heats[s] THEN Starred(heats[s][l]) ELSE old[l]
  <2> HIDE DEF show, all
  <2> QED BY <1>2, <1>3, <1>4, <1>5
<1> HIDE DEF show, all
<1> QED BY <1>2, <1>5, <1>6, <1>7 DEF PutOver

\* The heats that the first rows combine into another, and those of them that
\* are combined into this one.
Moved(form, i) == {form[j][1] : j \in {j \in 1..i : form[j][1] # form[j][2]}}
MovedTo(form, i, h) == {s \in Moved(form, i) : Combined(form)[s] = h}

\* What the loop has made of the tables after i rows, unless a row had a heat
\* that is not in the schedule: the sources share the tables of their
\* destinations, which have the lanes of the sources so far.
Processed(t, uncombined, form, i) ==
  /\ t = [ok |-> t.ok, at |-> t.at, lanes |-> t.lanes]
  /\ DOMAIN t.at = DOMAIN uncombined /\ DOMAIN t.lanes = DOMAIN uncombined
  /\ t.ok =>
       /\ \A h \in DOMAIN uncombined :
            /\ t.at[h] = IF h \in Moved(form, i) THEN Combined(form)[h] ELSE h
            /\ t.lanes[h] = LanesWith(uncombined, h, MovedTo(form, i, h))
       /\ \A s \in Moved(form, i) : {s, Combined(form)[s]} \subseteq DOMAIN uncombined

\* The tables of a schedule: what an upload puts there, or nothing.
LoadedTables(heats) == \A h \in DOMAIN heats : LaneTable(heats[h])

LEMMA BeforeTheRows ==
  ASSUME NEW uncombined, LoadedTables(uncombined), NEW form
  PROVE  Processed(Copied(uncombined), uncombined, form, 0)
<1>1. Moved(form, 0) = {}
  BY DEF Moved
<1>2. \A h : MovedTo(form, 0, h) = {}
  BY <1>1 DEF MovedTo
<1>3. \A h \in DOMAIN uncombined : LanesWith(uncombined, h, {}) = uncombined[h]
  BY NoSources DEF LoadedTables
<1> QED BY <1>1, <1>2, <1>3 DEF Processed, Copied

\* One row, of a page without chains: the destination is not a source, so its
\* table is its own, and that of the source has nothing added.
LEMMA OneRow ==
  ASSUME NEW uncombined, LoadedTables(uncombined), NEW form \in Forms,
         Unchained(Combined(form)), NEW i \in 1..Len(form), NEW t,
         Processed(t, uncombined, form, i - 1)
  PROVE  Processed(MergeInto(t, form[i]), uncombined, form, i)
<1> DEFINE s == form[i][1]
           d == form[i][2]
           u == MergeInto(t, form[i])
           real == s # d
<1>0. Len(form) \in Nat
  BY PageRows
<1>1. /\ s \in Nat \X Nat /\ Combined(form)[s] = d /\ s \in DOMAIN Combined(form)
      /\ \A j \in 1..(i - 1) : j \in 1..Len(form) /\ form[j][1] # s /\ Before(form[j][1], s)
  <2>1. \A j \in 1..(i - 1) : j \in 1..Len(form) /\ j # i
    BY <1>0
  <2>2. s \in Nat \X Nat /\ Combined(form)[s] = d /\ s \in DOMAIN Combined(form)
    BY PageRows
  <2>3. \A j \in 1..(i - 1) : Before(form[j][1], s)
    BY PageRows
  <2>4. \A j \in 1..Len(form) : form[j][1] = s => j = i
    BY PageRows
  <2> QED BY <2>1, <2>2, <2>3, <2>4
<1>2. Moved(form, i) = IF real THEN Moved(form, i - 1) \cup {s} ELSE Moved(form, i - 1)
  <2>1. 1..i = (1..(i - 1)) \cup {i}
    OBVIOUS
  <2> QED BY <2>1 DEF Moved
<1>3. /\ \A q \in Moved(form, i - 1) : q # s /\ Before(q, s) /\ q \in Nat \X Nat
      /\ \A q \in Moved(form, i - 1) : q \in DOMAIN Combined(form) /\ Combined(form)[q] # q
  <2> SUFFICES ASSUME NEW j \in 1..(i - 1), form[j][1] # form[j][2]
               PROVE  /\ form[j][1] # s /\ Before(form[j][1], s) /\ form[j][1] \in Nat \X Nat
                      /\ form[j][1] \in DOMAIN Combined(form)
                      /\ Combined(form)[form[j][1]] # form[j][1]
    BY DEF Moved
  <2>1. j \in 1..Len(form) /\ form[j][1] # s /\ Before(form[j][1], s)
    BY <1>1
  <2>2. /\ form[j][1] \in Nat \X Nat /\ form[j][1] \in DOMAIN Combined(form)
        /\ Combined(form)[form[j][1]] = form[j][2]
    BY <2>1, PageRows
  <2> QED BY <2>1, <2>2
<1>4. \A h : MovedTo(form, i, h) =
        IF real /\ h = d THEN MovedTo(form, i - 1, h) \cup {s} ELSE MovedTo(form, i - 1, h)
  BY <1>1, <1>2, <1>3 DEF MovedTo
<1> HIDE DEF s, d
<1>5. CASE ~t.ok \/ ~real
  <2>1. u = t
    BY <1>5 DEF MergeInto, s, d
  <2>2. t.ok => Moved(form, i) = Moved(form, i - 1) /\ \A h : MovedTo(form, i, h) = MovedTo(form, i - 1, h)
    BY <1>2, <1>4, <1>5
  <2> QED BY <2>1, <2>2 DEF Processed
<1>6. CASE t.ok /\ real /\ ~{s, d} \subseteq DOMAIN t.at
  <2>1. u = [t EXCEPT !.ok = FALSE]
    BY <1>6 DEF MergeInto, s, d
  <2>2. t = [ok |-> t.ok, at |-> t.at, lanes |-> t.lanes]
    BY DEF Processed
  <2>3. u = [ok |-> FALSE, at |-> t.at, lanes |-> t.lanes]
    BY <2>1, <2>2
  <2> QED BY <2>3 DEF Processed
<1>7. CASE t.ok /\ real /\ {s, d} \subseteq DOMAIN t.at
  <2> DEFINE D == DOMAIN uncombined
             old == t.lanes[d]
             added == PutOver(old, uncombined[s])
  <2>1. /\ DOMAIN t.at = D /\ DOMAIN t.lanes = D /\ s \in D /\ d \in D
        /\ t = [ok |-> t.ok, at |-> t.at, lanes |-> t.lanes]
        /\ \A h \in D : t.at[h] = IF h \in Moved(form, i - 1) THEN Combined(form)[h] ELSE h
        /\ \A h \in D : t.lanes[h] = LanesWith(uncombined, h, MovedTo(form, i - 1, h))
        /\ \A q \in Moved(form, i - 1) : {q, Combined(form)[q]} \subseteq D
    BY <1>7 DEF Processed
  <2>2. d \notin DOMAIN Combined(form)
    BY <1>1, <1>7 DEF Unchained
  <2>3. t.at[s] = s /\ t.at[d] = d
    BY <1>3, <2>1, <2>2
  <2>4. MovedTo(form, i - 1, s) = {}
    BY <1>1, <1>3 DEF MovedTo, Unchained
  <2>5. t.lanes[s] = uncombined[s]
    BY <2>1, <2>4, NoSources DEF LoadedTables
  <2>6. u = [t EXCEPT !.lanes[d] = added, !.at[s] = d]
    BY <1>7, <2>3, <2>5 DEF MergeInto, s, d
  <2> HIDE DEF added
  <2>7. u = [ok |-> t.ok, at |-> [t.at EXCEPT ![s] = d], lanes |-> [t.lanes EXCEPT ![d] = added]]
    BY <2>1, <2>6
  <2>8. added = LanesWith(uncombined, d, MovedTo(form, i, d))
    <3> DEFINE sources == MovedTo(form, i - 1, d)
    <3>1. AllBefore(sources, s)
      BY <1>1, <1>3 DEF MovedTo, AllBefore
    <3>2. old = LanesWith(uncombined, d, sources)
      BY <2>1
    <3>3. MovedTo(form, i, d) = sources \cup {s}
      BY <1>4, <1>7
    <3> HIDE DEF old, sources
    <3>4. LanesWith(uncombined, d, sources \cup {s}) = PutOver(old, uncombined[s])
      BY <3>1, <3>2, LastSource
    <3> QED BY <3>3, <3>4 DEF added
  <2>9. \A h \in D :
          /\ u.at[h] = IF h \in Moved(form, i) THEN Combined(form)[h] ELSE h
          /\ u.lanes[h] = LanesWith(uncombined, h, MovedTo(form, i, h))
    BY <1>1, <1>2, <1>4, <1>7, <2>1, <2>7, <2>8
  <2>10. \A q \in Moved(form, i) : {q, Combined(form)[q]} \subseteq D
    BY <1>1, <1>2, <1>7, <2>1
  <2>11. /\ u = [ok |-> u.ok, at |-> u.at, lanes |-> u.lanes]
         /\ DOMAIN u.at = D /\ DOMAIN u.lanes = D
    BY <2>1, <2>7
  <2> HIDE DEF u
  <2>12. Processed(u, uncombined, form, i)
    BY <2>9, <2>10, <2>11 DEF Processed
  <2> QED BY <2>12 DEF u
<1> QED BY <1>5, <1>6, <1>7

\* So after the last row every heat has the lanes that the page asks for.
LEMMA MergedAsEntered ==
  ASSUME NEW uncombined, LoadedTables(uncombined), NEW form \in Forms,
         Unchained(Combined(form)), Merged(uncombined, form).ok
  PROVE  \A h \in DOMAIN uncombined :
           LET d == ShownWith(Combined(form), h)
           IN  Events(Merged(uncombined, form))[h]
                 = LanesWith(uncombined, d, SourcesOf(Combined(form), d))
<1> DEFINE n == Len(form)
           D == DOMAIN uncombined
           t == Merged(uncombined, form)
<1>1. n \in Nat
  BY PageRows
<1>2. PICK after : IsLoop(after, uncombined, form) /\ t = after[n]
  BY <1>1, MergedIsALoop
<1> HIDE DEF t
<1>3. Processed(t, uncombined, form, n)
  <2> DEFINE S == {i \in 0..n : Processed(after[i], uncombined, form, i)}
  <2>1. 0 \in S
    BY <1>1, <1>2, BeforeTheRows DEF IsLoop
  <2>2. ASSUME NEW i \in 0..(n - 1), i \in S
        PROVE  i + 1 \in S
    <3> DEFINE j == i + 1
    <3>1. j \in 1..n /\ j - 1 = i
      BY <1>1
    <3>2. after[j] = MergeInto(after[j - 1], form[j])
      BY <1>2, <3>1 DEF IsLoop
    <3>3. Processed(after[j - 1], uncombined, form, j - 1)
      BY <2>2, <3>1
    <3> HIDE DEF j
    <3>4. Processed(after[j], uncombined, form, j)
      BY <3>1, <3>2, <3>3, OneRow
    <3>5. j \in 0..n
      BY <3>1
    <3>6. j = i + 1
      BY DEF j
    <3> QED BY <3>4, <3>5, <3>6
  <2>3. n \in S
    <3>1. \A i \in 0..(n - 1) : i \in S => i + 1 \in S
      <4> HIDE DEF S
      <4> QED BY <2>2
    <3>2. n \in 0..n
      BY <1>1
    <3> HIDE DEF S
    <3> QED BY <1>1, <2>1, <3>1, <3>2, RowByRow
  <2> QED BY <1>2, <2>3
<1>4. Moved(form, n) = {s \in DOMAIN Combined(form) : Combined(form)[s] # s}
  <2>1. \A j \in 1..n : Combined(form)[form[j][1]] = form[j][2]
    BY PageRows
  <2>2. DOMAIN Combined(form) = {form[j][1] : j \in 1..n}
    BY PageRows
  <2> QED BY <2>1, <2>2 DEF Moved
<1>5. \A h : MovedTo(form, n, h) = SourcesOf(Combined(form), h)
  BY <1>4 DEF MovedTo, SourcesOf
<1> SUFFICES ASSUME NEW h \in D
             PROVE  LET d == ShownWith(Combined(form), h)
                    IN  Events(t)[h] = LanesWith(uncombined, d, SourcesOf(Combined(form), d))
  BY DEF t
<1> DEFINE d == ShownWith(Combined(form), h)
<1>6. d \in D /\ t.at[h] = d
  <2>1. /\ t.ok
        /\ t.at[h] = IF h \in Moved(form, n) THEN Combined(form)[h] ELSE h
        /\ h \in Moved(form, n) => Combined(form)[h] \in D
    BY <1>3 DEF Processed, t
  <2> QED BY <1>4, <2>1 DEF ShownWith
<1>7. Events(t)[h] = t.lanes[d]
  BY <1>3, <1>6 DEF Events, Processed
<1>8. t.lanes[d] = LanesWith(uncombined, d, MovedTo(form, n, d))
  <2> HIDE DEF d
  <2> QED BY <1>3, <1>6 DEF Processed, t
<1> QED BY <1>5, <1>7, <1>8

-----------------------------------------------------------------------------
(* The combined heats *)

\* A schedule has its four parts, and the tables of a file or none.
Tables(sch) ==
  /\ sch = [meta |-> sch.meta, uncombined |-> sch.uncombined,
            combined |-> sch.combined, events |-> sch.events]
  /\ LoadedTables(sch.uncombined)

\* CombinedAsEntered of a schedule that no change has failed on.
AsEntered(sch) ==
  Unchained(sch.combined) =>
    \A h \in DOMAIN sch.uncombined :
      LET d == ShownWith(sch.combined, h)
      IN  sch.events[h] = LanesWith(sch.uncombined, d, SourcesOf(sch.combined, d))

\* The schedule in the file is always as entered, the one in memory is the same
\* unless its last change failed.
FileAsEntered == Tables(schedule) /\ Tables(saved.schedule) /\ AsEntered(saved.schedule)

LEMMA NothingAsEntered == Tables(NoSchedule) /\ AsEntered(NoSchedule)
<1>1. NoSchedule.uncombined = NoEntries /\ DOMAIN NoEntries = {}
  BY DEF NoSchedule, NoEntries
<1>2. NoSchedule = [meta |-> NoSchedule.meta, uncombined |-> NoSchedule.uncombined,
                    combined |-> NoSchedule.combined, events |-> NoSchedule.events]
  BY DEF NoSchedule
<1> QED BY <1>1, <1>2 DEF Tables, LoadedTables, AsEntered

LEMMA FileLoadedAsEntered ==
  ASSUME NEW file \in Parsed
  PROVE  Tables(Loaded(file)) /\ AsEntered(Loaded(file))
<1> DEFINE sch == Loaded(file)
<1>1. /\ sch.uncombined = file.heats /\ sch.events = file.heats /\ sch.combined = NoEntries
      /\ sch = [meta |-> sch.meta, uncombined |-> sch.uncombined,
                combined |-> sch.combined, events |-> sch.events]
  BY DEF Loaded
<1>2. DOMAIN sch.combined = {}
  BY <1>1 DEF NoEntries
<1>3. LoadedTables(sch.uncombined)
  BY <1>1, FilesAssumption DEF LoadedTables
<1>4. \A h : ShownWith(sch.combined, h) = h /\ SourcesOf(sch.combined, h) = {}
  BY <1>2 DEF ShownWith, SourcesOf
<1> HIDE DEF sch
<1>5. \A h \in DOMAIN sch.uncombined : LanesWith(sch.uncombined, h, {}) = sch.events[h]
  BY <1>1, <1>3, NoSources DEF LoadedTables
<1>6. Tables(sch) /\ AsEntered(sch)
  BY <1>1, <1>3, <1>4, <1>5 DEF Tables, AsEntered
<1> QED BY <1>6 DEF sch

\* What a form makes of the schedule, if it names only heats that are there.
LEMMA FormAsEntered ==
  ASSUME NEW form \in Forms, Tables(schedule), CombineEvents(form)
  PROVE  /\ Tables(schedule')
         /\ Merged(schedule.uncombined, form).ok => AsEntered(schedule')
<1> DEFINE tables == Merged(schedule.uncombined, form)
           combined == Combined(form)
           events == Events(tables)
<1>1. schedule' = [schedule EXCEPT !.combined = combined, !.events = events]
  BY DEF CombineEvents
<1> HIDE DEF tables, combined, events
<1>2. schedule' = [meta |-> schedule.meta, uncombined |-> schedule.uncombined,
                   combined |-> combined, events |-> events]
  BY <1>1 DEF Tables
<1>3. Tables(schedule')
  BY <1>2 DEF Tables
<1>4. ASSUME tables.ok, Unchained(combined)
      PROVE  \A h \in DOMAIN schedule.uncombined :
               LET d == ShownWith(combined, h)
               IN  events[h] = LanesWith(schedule.uncombined, d, SourcesOf(combined, d))
  BY <1>4, MergedAsEntered DEF Tables, tables, combined, events
<1>5. tables.ok => AsEntered(schedule')
  BY <1>2, <1>4 DEF AsEntered
<1> QED BY <1>3, <1>5 DEF tables

\* A request either leaves the schedule alone, in memory and in the file, or it
\* keeps the file as entered.
LEMMA ScheduleRequest ==
  ASSUME FileIsWhole, FileAsEntered,
         \/ \E file \in Parsed : UploadSchedule(file)
         \/ UploadScheduleFails \/ ClearSchedule
         \/ \E form \in Forms : CombineEvents(form)
  PROVE  FileAsEntered'
<1>1. Save("schedule", schedule') => saved'.schedule = schedule'
  BY DEF Save, FileIsWhole
<1>2. ASSUME NEW file \in Parsed, UploadSchedule(file) PROVE FileAsEntered'
  BY <1>1, <1>2, FileLoadedAsEntered DEF UploadSchedule, FileAsEntered
<1>3. CASE UploadScheduleFails
  <2>1. saved' = saved /\ schedule' \in Remains
    BY <1>3 DEF UploadScheduleFails
  <2>2. Tables(schedule')
    <3>1. CASE schedule' = NoSchedule
      BY <3>1, NothingAsEntered
    <3>2. ASSUME NEW file \in Parsed,
                 schedule' = [NoSchedule EXCEPT !.meta = file.meta, !.events = file.heats]
          PROVE  Tables(schedule')
      <4>1. schedule' = [meta |-> file.meta, uncombined |-> NoEntries,
                         combined |-> NoEntries, events |-> file.heats]
        BY <3>2 DEF NoSchedule
      <4>2. DOMAIN NoEntries = {}
        BY DEF NoEntries
      <4> QED BY <4>1, <4>2 DEF Tables, LoadedTables
    <3> QED BY <2>1, <3>1, <3>2 DEF Remains
  <2> QED BY <2>1, <2>2 DEF FileAsEntered
<1>4. CASE ClearSchedule
  BY <1>1, <1>4, NothingAsEntered DEF ClearSchedule, FileAsEntered
<1>5. ASSUME NEW form \in Forms, CombineEvents(form) PROVE FileAsEntered'
  <2> DEFINE tables == Merged(schedule.uncombined, form)
  <2>1. IF tables.ok THEN Save("schedule", schedule') ELSE UNCHANGED saved
    BY <1>5 DEF CombineEvents
  <2>2. Tables(schedule') /\ (tables.ok => AsEntered(schedule'))
    BY <1>5, FormAsEntered DEF FileAsEntered
  <2> HIDE DEF tables
  <2> QED BY <1>1, <2>1, <2>2 DEF FileAsEntered
<1> QED BY <1>2, <1>3, <1>4, <1>5

LEMMA FileEntered == Spec => []FileAsEntered
<1>1. Init => FileAsEntered
  BY NothingAsEntered DEF Init, NothingSaved, FileAsEntered
<1>2. FileIsWhole /\ FileAsEntered /\ [Next]_vars => FileAsEntered'
  <2> SUFFICES ASSUME FileIsWhole, FileAsEntered, [Next]_vars PROVE FileAsEntered'
    OBVIOUS
  <2>1. schedule' = schedule /\ saved'.schedule = saved.schedule => FileAsEntered'
    BY DEF FileAsEntered
  <2>2. ASSUME NEW rows \in RowTables, UploadStandards(rows) \/ UploadRecords(rows)
        PROVE  FileAsEntered'
    BY <2>1, <2>2, SaveKeepsTheRest DEF UploadStandards, UploadRecords
  <2>3. CASE ClearStandards \/ \E r \in rec_sets : RemoveRecords(r.set_id)
    BY <2>1, <2>3, SaveKeepsTheRest DEF ClearStandards, RemoveRecords
  <2>4. ASSUME NEW list, ChangeFooters(list) PROVE FileAsEntered'
    BY <2>1, <2>4, SaveKeepsTheRest DEF ChangeFooters
  <2>5. CASE (\E h \in Heats : SelectHeat(h)) \/ Connect \/ UNCHANGED vars
    BY <2>1, <2>5 DEF SelectHeat, Connect, vars, memory
  <2>6. CASE Restart \/ CrashInSave
    BY <2>6, NothingAsEntered DEF Restart, CrashInSave, LoadSettings, NothingSaved, FileAsEntered
  <2>7. CASE Request
    BY <2>2, <2>3, <2>4, <2>7, ScheduleRequest DEF Request, AddFooter, RemoveFooter
  <2> QED BY <2>5, <2>6, <2>7 DEF Next
<1> QED BY <1>1, <1>2, FileCorrect, PTL DEF Spec

\* On every schedule and for every form without chains, heats that were combined
\* show the lanes of the destination and of all its sources, the last source on
\* top and marked once, whatever was combined before (CombinedAsEntered).
THEOREM CombinedCorrect == Spec => []CombinedAsEntered
<1>1. FileIsWhole /\ FileAsEntered => CombinedAsEntered
  BY DEF FileIsWhole, RestartRestores, FileAsEntered, AsEntered, CombinedAsEntered
<1> QED BY <1>1, FileCorrect, FileEntered, PTL
=============================================================================
