------------------------------- MODULE MeetData -------------------------------
(***************************************************************************)
(* What the operator enters for a meet, where it is kept, and what the     *)
(* viewers see of it: the schedule with its combined heats                 *)
(* (hytek_event_loader.py), the time standards, the record sets and the    *)
(* footer messages (settings_routes.py), their copy in the settings file,  *)
(* and the names, standards, records and footer that send_event_info       *)
(* selects for the heat on display (CTS_Scoreboard.py).                    *)
(*                                                                         *)
(* A request is handled without yielding.  Parsing is abstracted to its    *)
(* outcome: a table, or an error.  The tables of names, teams, age codes   *)
(* and seed times always change together; the names stand for all of them, *)
(* each with the number of "*" appended to it.                             *)
(***************************************************************************)
EXTENDS Naturals, Sequences, FiniteSets
LOCAL INSTANCE SequencesExt
LOCAL INSTANCE FiniteSetsExt

CONSTANTS
  Parsed,     \* the schedules in the operator's files: meta and heats
  Forms,      \* what the page of combined heats may post: one heat into another, row by row
  RowTables,  \* the contents of the files of time standards and of records
  Messages,   \* the footer messages the operator may write
  Heats,      \* the pairs <<event, heat>> that are put on display
  FirstHeat,  \* last_event_sent when the process starts
  NoMessage,
  MaxEdits    \* bound: uploads, forms and messages

ASSUME HeatAssumption == FirstHeat \in Heats
ASSUME BoundAssumption == MaxEdits \in Nat

\* The order of the pairs <<event, heat>>, in which the page lists the heats.
Before(g, h) == g[1] < h[1] \/ (g[1] = h[1] /\ g[2] < h[2])

ASSUME FormsAssumption ==
  \A form \in Forms :
    /\ form \in Seq((Nat \X Nat) \X (Nat \X Nat))
    /\ \A j \in 1..Len(form) : \A i \in 1..(j - 1) : Before(form[i][1], form[j][1])

\* A heat has names on some of its lanes.
LaneTable(lanes) == lanes = [l \in DOMAIN lanes |-> lanes[l]]

ASSUME FilesAssumption == \A file \in Parsed : \A h \in DOMAIN file.heats : LaneTable(file.heats[h])

VARIABLES
  schedule,    \* event_info: its meta, events_uncombined, combined and events
  standards,   \* the rows of time_standards
  rec_sets,    \* swim_record_sets
  next_set_id, \* _next_rec_set_id
  footers,     \* settings["footer_messages"], in the order of created_at
  heat,        \* last_event_sent
  saved,       \* the settings file
  shown,       \* what the viewers' pages show
  reload,      \* whether the viewers have been told to reload, or lost the server
  announced,   \* history: the schedule at the last send_event_info
  failed,      \* history: the last change of the schedule failed half-way
  edits

memory == <<schedule, standards, rec_sets, next_set_id, footers>>
display == <<shown, reload, announced>>
vars == <<memory, heat, saved, display, failed, edits>>

-----------------------------------------------------------------------------
(* HytekEventLoader *)

NoEntries == [h \in {} |-> {}]
NoSchedule == [meta |-> NoEntries, uncombined |-> NoEntries,
               combined |-> NoEntries, events |-> NoEntries]

\* load_from_bytestream: clear, then the tables of the file.
Loaded(file) == [meta |-> file.meta, uncombined |-> file.heats,
                 combined |-> NoEntries, events |-> file.heats]

Starred(name) == <<name[1], name[2] + 1>>

\* The dictionary the rows of the page are read into.
Combined(form) ==
  [s \in {form[i][1] : i \in 1..Len(form)} |->
     form[CHOOSE i \in 1..Len(form) : form[i][1] = s][2]]

\* The lanes of a source, each name with a "*", are put over those of a table.
PutOver(table, lanes) ==
  [l \in DOMAIN lanes \cup DOMAIN table |->
     IF l \in DOMAIN lanes THEN Starred(lanes[l]) ELSE table[l]]

\* Mutant: the source keeps a table of its own.
MergeInto_Unshared(tables, entry) ==
  LET s == entry[1]  d == entry[2]
  IN  IF ~tables.ok \/ s = d THEN tables
      ELSE IF ~{s, d} \subseteq DOMAIN tables.at THEN [tables EXCEPT !.ok = FALSE]
      ELSE [tables EXCEPT !.lanes[tables.at[d]] = PutOver(@, tables.lanes[tables.at[s]])]

\* One turn of the loop of combine_events: the lanes of the source are put over
\* those of the destination, whose table the source then shares.  A heat the
\* schedule does not have ends the loop with a KeyError.
MergeInto(tables, entry) ==
  LET s == entry[1]  d == entry[2]
  IN  IF ~tables.ok \/ s = d THEN tables
      ELSE IF ~{s, d} \subseteq DOMAIN tables.at THEN [tables EXCEPT !.ok = FALSE]
      ELSE [tables EXCEPT !.lanes[tables.at[d]] = PutOver(@, tables.lanes[tables.at[s]]),
                          !.at[s] = tables.at[d]]

\* combine_events starts from copies of the entries as they were loaded.
Copied(uncombined) == [ok |-> TRUE, at |-> [h \in DOMAIN uncombined |-> h], lanes |-> uncombined]

Merged(uncombined, form) ==
  LET after[i \in 0..Len(form)] ==
        IF i = 0 THEN Copied(uncombined) ELSE MergeInto(after[i - 1], form[i])
  IN  after[Len(form)]

Events(tables) == [h \in DOMAIN tables.at |-> tables.lanes[tables.at[h]]]

-----------------------------------------------------------------------------
(* _get_qualifying_times and _get_matching_records *)

\* Ages are pairs; 0 stands for no limit.
UpTo(ages) == IF ages[2] = 0 THEN 999 ELSE ages[2]
Overlap(a, b) == a[1] <= UpTo(b) /\ b[1] <= UpTo(a)

\* The ages of an event or, if its first heat is combined, of the sources.
AgeRanges(info, event) ==
  LET sources == {s \in DOMAIN info.combined :
                    <<event, 1>> \in {s, info.combined[s]} /\ s[1] \in DOMAIN info.meta}
  IN  IF sources = {} THEN {info.meta[event].ages}
      ELSE {info.meta[s[1]].ages : s \in sources}

Matches(info, event, row) ==
  LET meta == info.meta[event]
  IN  /\ row.stroke = meta.stroke /\ row.distance = meta.distance
      /\ row.relay = meta.relay /\ row.sex \in meta.sexes
      /\ \E ages \in AgeRanges(info, event) : Overlap(ages, row.ages)

Matching(info, event, rows) ==
  {row \in rows : event \in DOMAIN info.meta /\ Matches(info, event, row)}

QualifyingTimes(info, event) == Matching(info, event, standards)

\* The record sets that have a record for the event.
MatchingRecords(info, event) ==
  {r \in {[set_id |-> r.set_id, rows |-> Matching(info, event, r.rows)] : r \in rec_sets} :
     r.rows # {}}

\* Whether rows must be told apart by sex or age.
Qualified(rows) == Cardinality({<<row.sex, row.ages>> : row \in rows}) > 1

-----------------------------------------------------------------------------
(* The footer *)

Selectors == {"genders", "distances", "strokes", "age_groups"}
Specificity(msg) == Cardinality({c \in Selectors : msg[c] # {}})

EventMatches(msg, meta) ==
  /\ msg.genders = {} \/ meta.sexes \in msg.genders
  /\ msg.distances = {} \/ meta.distance \in msg.distances
  /\ msg.strokes = {} \/ meta.stroke \in msg.strokes
  /\ msg.age_groups = {} \/ \E ages \in msg.age_groups : Overlap(ages, meta.ages)

\* _select_footer_message: the most specific match, the newest of these, else
\* the newest default.
Footer(info, event) ==
  LET matches == {i \in DOMAIN footers :
                    /\ ~footers[i].is_default /\ event \in DOMAIN info.meta
                    /\ EventMatches(footers[i], info.meta[event])}
      best == {i \in matches :
                 \A j \in matches : Specificity(footers[j]) <= Specificity(footers[i])}
      defaults == {i \in DOMAIN footers : footers[i].is_default}
  IN  IF matches # {} THEN footers[Max(best)]
      ELSE IF defaults # {} THEN footers[Max(defaults)]
      ELSE NoMessage

\* What send_event_info says of the heat on display when event_info is `info`.
Info(info) ==
  LET event == heat[1]
      times == QualifyingTimes(info, event)
      records == MatchingRecords(info, event)
  IN  [lanes |-> IF heat \in DOMAIN info.events THEN info.events[heat] ELSE NoEntries,
       times |-> times,
       records |-> records,
       age_codes |-> Qualified(times) \/ Qualified(UNION {r.rows : r \in records}),
       footer |-> Footer(info, event)]

-----------------------------------------------------------------------------
(* Broadcasts and the settings file *)

\* send_event_info
Announce == shown' = Info(schedule)' /\ announced' = schedule'

\* broadcast_footer_message_refresh: only the footer is sent.
RefreshFooter == shown' = [shown EXCEPT !.footer = Footer(schedule, heat[1])'] /\ UNCHANGED announced

\* broadcast_settings_changed: the pages are to be loaded again.
Reload == reload' = TRUE

\* The pages are told nothing.
Silently == UNCHANGED display

\* save_settings after a change of one part.
Save(part, value) == saved' = [saved EXCEPT ![part] = value]

Edit == edits < MaxEdits /\ edits' = edits + 1

-----------------------------------------------------------------------------
(* The requests *)

UploadSchedule(file) ==
  /\ Edit
  /\ schedule' = Loaded(file)
  /\ UNCHANGED <<standards, rec_sets, next_set_id, footers, heat>>
  /\ Save("schedule", schedule')
  /\ Announce /\ Reload
  /\ failed' = FALSE

\* The tables a file that cannot be loaded leaves: they are cleared before it is
\* parsed and filled until the error; the uncombined copies come last.
Remains == {NoSchedule} \cup
           {[NoSchedule EXCEPT !.meta = file.meta, !.events = file.heats] : file \in Parsed}

UploadScheduleFails ==
  /\ Edit
  /\ schedule' \in Remains
  /\ failed' = TRUE
  /\ Silently
  /\ UNCHANGED <<standards, rec_sets, next_set_id, footers, heat, saved>>

ClearSchedule ==
  /\ schedule' = NoSchedule
  /\ Save("schedule", schedule')
  /\ failed' = FALSE
  /\ Silently
  /\ UNCHANGED <<standards, rec_sets, next_set_id, footers, heat, edits>>

\* route_schedule_preview: the page may be older than the schedule.
CombineEvents(form) ==
  LET tables == Merged(schedule.uncombined, form)
  IN  /\ Edit
      /\ schedule' = [schedule EXCEPT !.combined = Combined(form), !.events = Events(tables)]
      /\ failed' = ~tables.ok
      /\ IF tables.ok THEN Save("schedule", schedule') ELSE UNCHANGED saved
      /\ Silently
      /\ UNCHANGED <<standards, rec_sets, next_set_id, footers, heat>>

\* Mutant: a second file is added to the first.
UploadStandards_Adds(rows) ==
  /\ Edit
  /\ standards' = standards \cup rows
  /\ Save("standards", standards')
  /\ Reload
  /\ UNCHANGED <<schedule, rec_sets, next_set_id, footers, heat, shown, announced, failed>>

UploadStandards(rows) ==
  /\ Edit
  /\ standards' = rows
  /\ Save("standards", rows)
  /\ Reload
  /\ UNCHANGED <<schedule, rec_sets, next_set_id, footers, heat, shown, announced, failed>>

ClearStandards ==
  /\ standards' = {}
  /\ Save("standards", {})
  /\ Silently
  /\ UNCHANGED <<schedule, rec_sets, next_set_id, footers, heat, failed, edits>>

\* Mutant: as when a set is removed, the pages are told nothing.
UploadRecords_Quiet(rows) ==
  /\ Edit
  /\ rec_sets' = rec_sets \cup {[set_id |-> next_set_id, rows |-> rows]}
  /\ next_set_id' = next_set_id + 1
  /\ Save("rec_sets", rec_sets')
  /\ Silently
  /\ UNCHANGED <<schedule, standards, footers, heat, failed>>

UploadRecords(rows) ==
  /\ Edit
  /\ rec_sets' = rec_sets \cup {[set_id |-> next_set_id, rows |-> rows]}
  /\ next_set_id' = next_set_id + 1
  /\ Save("rec_sets", rec_sets')
  /\ Reload
  /\ UNCHANGED <<schedule, standards, footers, heat, shown, announced, failed>>

\* Mutant: the last record set removed is not taken out of the settings.
RemoveRecords_KeepsLast(set_id) ==
  /\ rec_sets' = {r \in rec_sets : r.set_id # set_id}
  /\ IF rec_sets' # {} THEN Save("rec_sets", rec_sets') ELSE UNCHANGED saved
  /\ Silently
  /\ UNCHANGED <<schedule, standards, next_set_id, footers, heat, failed, edits>>

RemoveRecords(set_id) ==
  /\ rec_sets' = {r \in rec_sets : r.set_id # set_id}
  /\ Save("rec_sets", rec_sets')
  /\ Silently
  /\ UNCHANGED <<schedule, standards, next_set_id, footers, heat, failed, edits>>

\* The footer form: the file, the pages, then the footer.
ChangeFooters(list) ==
  /\ footers' = list
  /\ Save("footers", list)
  /\ UNCHANGED <<schedule, standards, rec_sets, next_set_id, heat>>
  /\ Reload
  /\ RefreshFooter
  /\ UNCHANGED failed

AddFooter(msg) == Edit /\ ChangeFooters(Append(footers, msg))
RemoveFooter(i) == UNCHANGED edits /\ ChangeFooters(RemoveAt(footers, i))

\* The console, or a browser, puts another heat on display.
SelectHeat(h) ==
  /\ heat # h
  /\ heat' = h
  /\ UNCHANGED <<memory, saved, failed, edits, reload>>
  /\ Announce

\* ws_scoreboard: a page is loaded.
Connect ==
  /\ UNCHANGED <<memory, heat, saved, failed, edits>>
  /\ Announce
  /\ reload' = FALSE

-----------------------------------------------------------------------------
(* Restarts *)

NothingSaved == [schedule |-> NoSchedule, standards |-> {}, rec_sets |-> {}, footers |-> <<>>]

\* Mutant: the identifiers are counted, not continued.
next_id_after_load_Counted(sets) == Cardinality(sets)

next_id_after_load(sets) ==
  IF sets = {} THEN 0
  ELSE (CHOOSE r \in sets : \A q \in sets : r.set_id >= q.set_id).set_id + 1

\* load_settings.  The viewers lose their connection and connect again.
LoadSettings(file) ==
  /\ schedule' = file.schedule /\ standards' = file.standards
  /\ rec_sets' = file.rec_sets /\ footers' = file.footers
  /\ next_set_id' = next_id_after_load(file.rec_sets)
  /\ heat' = FirstHeat
  /\ failed' = FALSE
  /\ reload' = TRUE
  /\ UNCHANGED <<shown, announced, edits>>

Restart == LoadSettings(saved) /\ UNCHANGED saved

\* save_settings truncates the file before it writes: if the process ends in
\* between, load_settings gives up and everything starts from the defaults.
CrashInSave == LoadSettings(NothingSaved) /\ saved' = NothingSaved

-----------------------------------------------------------------------------
Init ==
  /\ schedule = NoSchedule /\ standards = {} /\ rec_sets = {} /\ footers = <<>>
  /\ next_set_id = 0
  /\ heat = FirstHeat
  /\ saved = NothingSaved
  /\ shown = Info(schedule) /\ announced = schedule
  /\ reload = FALSE /\ failed = FALSE
  /\ edits = 0

Request ==
  \/ \E file \in Parsed : UploadSchedule(file)
  \/ UploadScheduleFails \/ ClearSchedule
  \/ \E form \in Forms : CombineEvents(form)
  \/ \E rows \in RowTables : UploadStandards(rows) \/ UploadRecords(rows)
  \/ ClearStandards
  \/ \E r \in rec_sets : RemoveRecords(r.set_id)
  \/ \E msg \in Messages : AddFooter(msg)
  \/ \E i \in DOMAIN footers : RemoveFooter(i)

Next ==
  \/ Request
  \/ \E h \in Heats : SelectHeat(h)
  \/ Connect
  \/ Restart \/ CrashInSave

Spec == Init /\ [][Next]_vars

-----------------------------------------------------------------------------
(* Properties *)

\* The tables hold what the operator's files and forms contain: an upload of
\* standards replaces the rows, one of records adds a set.
TypeOK ==
  /\ standards \in RowTables \cup {{}}
  /\ \A r \in rec_sets : r.set_id \in Nat /\ r.rows \in RowTables
  /\ next_set_id \in Nat
  /\ footers \in Seq(Messages)
  /\ heat \in Heats
  /\ {reload, failed} \subseteq BOOLEAN
  /\ edits \in 0..MaxEdits

\* A restart brings back what was in memory, except for a schedule whose last
\* change failed half-way: then it brings back the one before.
RestartRestores ==
  /\ ~failed => saved.schedule = schedule
  /\ saved.standards = standards /\ saved.rec_sets = rec_sets /\ saved.footers = footers

\* No two record sets have the identifier by which they are removed and tagged,
\* in spite of removals and restarts.
UniqueSetIds ==
  \A r \in rec_sets :
    /\ r.set_id < next_set_id
    /\ \A q \in rec_sets : q.set_id = r.set_id => q = r

\* Pages that need not be loaded again lack nothing that was entered.  Of the
\* schedule they were last told of they show the lanes of the heat on display,
\* the footer chosen from the current messages, and every current standard and
\* record that matches; what they show beyond that was removed.  And that
\* schedule has the entries as they were last loaded, unless these are gone:
\* only clearing, a file that could not be loaded and combined heats, on which
\* the code tells nobody, do not reach them before the next heat is selected.
PagesMissNothing ==
  ~reload =>
    LET now == Info(announced)
    IN  /\ schedule.uncombined \in {announced.uncombined, NoEntries}
        /\ shown.lanes = now.lanes /\ shown.footer = now.footer
        /\ now.times \subseteq shown.times
        /\ now.records \subseteq shown.records

\* A page on which no heat is a source and a destination.
Unchained(combined) == \A s \in DOMAIN combined : combined[s] # s => combined[s] \notin DOMAIN combined

\* The lanes of a heat with the swimmers of these other heats, marked with one
\* "*"; a later source takes a lane over.
LanesWith(heats, h, sources) ==
  LET inLane(l) == {s \in sources : l \in DOMAIN heats[s]}
      last(l) == CHOOSE s \in inLane(l) : \A q \in inLane(l) : ~Before(s, q)
  IN  [l \in DOMAIN heats[h] \cup UNION {DOMAIN heats[s] : s \in sources} |->
         IF inLane(l) = {} THEN heats[h][l] ELSE Starred(heats[last(l)][l])]

SourcesOf(combined, h) == {s \in DOMAIN combined : combined[s] = h /\ s # h}
ShownWith(combined, h) == IF h \in DOMAIN combined THEN combined[h] ELSE h

\* Heats that were combined show the same lanes, the destination's and the
\* sources', and all others show their own, whatever was combined before.
CombinedAsEntered ==
  ~failed /\ Unchained(schedule.combined) =>
    \A h \in DOMAIN schedule.uncombined :
      LET d == ShownWith(schedule.combined, h)
      IN  schedule.events[h] =
            LanesWith(schedule.uncombined, d, SourcesOf(schedule.combined, d))
=============================================================================
