# TLA+ models of CTS_Scoreboard

CTS_Scoreboard reads the serial output of a Colorado Time Systems console and shows a swim meet's
scoreboard in browsers, on the pool's network and, through a relay in the cloud, anywhere. This
directory holds TLA+ models of the parts of the program that keep state and run concurrently, the TLC
configurations that check them on small instances, and TLAPS proofs that hold for every instance.
Paths below are relative to `src/`.

To check: `tlc -workers 2 -config <Run>.cfg <Module>` for a run of the table below, and
`tlapm <Module>_proofs.tla` for the proofs.

## The system

| part | code | state | operations |
|---|---|---|---|
| race state machine | `race_state_machine.py` | the display state; the event/heat, running lanes and blank lanes of the last evaluated board | `evaluate_update`, `notify_event_change` |
| scoreboard process | `CTS_Scoreboard.py` | decoded console digits, running lanes, lane times, scores, `last_event_sent`, the gathered `update`, the replay snapshot | `parse_line`; browsers' connect, next heat, set heat; the broadcasts |
| relay client | `azure_relay.py`, routes in `settings_routes.py` | credentials, status, backoff, reconnect event, queue of 1000, device-code flow, worker thread | `forward_event`, sign in / cancel / sign out, change or end the meet, reconnect; the worker's loop |
| cloud relay, `/pi` | `azure/app/handlers.py` | socket sessions, pending coalesced updates | connect, disconnect, `meet_open`, `heartbeat`, `meet_close`, the pushes |
| cloud store | `azure/app/state.py` | per meet: metadata, scoreboard state, fragments, templates; the meet bound to each Pi; three process-local caches | read-modify-write of metadata, HSET of the state, caches with a time to live |
| watchdog | `azure/app/watchdog.py` | none of its own | marks quiet meets degraded, then closed |
| cloud relay, `/scoreboard` | `azure/app/handlers.py`, `routes.py` | rooms of viewers | join, hydrate, broadcast |
| rotations | `CTS_Scoreboard.py:1343-1633`, `settings_routes.py` | message pages, advertisements, the position in each, ticker flags, their part of the snapshot | the forms, uploads, the QR page added on a sign-in; start, stop, tick |
| meet pages | `azure/app/routes.py:346-471`, `state.py`, `handlers.py` | template bundles and context in the store, the caches of each worker process | template and context pushes, close; the page and its assets |
| meet data | `settings_routes.py`, `hytek_event_loader.py`, `CTS_Scoreboard.py:249-435,717-1300` | schedule with its combined heats, standards, record sets, footer messages, the settings file | uploads, removals, combining, the footer form, load and save; selection of what is shown with a heat |
| simulator | `sim.py` | writes the scoreboard process's globals; its clock tasks | one handler per button, the clock task |
| Wi-Fi, credentials, QR codes, images, tokens, telemetry, deployment | the rest | files and external programs | not modelled |

How they interact:

* The serial worker calls `parse_line` for each frame. It updates the module's globals, may announce a
  heat at once, and in its `finally` block evaluates the race state machine on a snapshot of the globals
  and broadcasts what it gathered. Browser handlers call the same machine, the same broadcasts.
* The scoreboard process runs under gevent. None of the handlers above yields between its first read and
  its last write, so each is atomic.
* The settings pages change the meet data, save all settings to one file, and tell the browsers to reload,
  or send the heat or the footer again, or tell nobody. `send_event_info` reads these tables.
* `broadcast_scoreboard` also puts every update on the relay's queue. The relay's worker thread takes it
  from there; it yields at every network call, and the operator's requests run in between.
* The cloud handles every event in a task of its own and awaits the store at every operation, on two
  worker processes. Between two store operations of one handler any other handler, or the watchdog, may
  run.
* The rotations are background tasks that sleep for an interval; the forms, the relay's status callback and
  other ticks run in between. What a tick or a form broadcasts also goes into the replay snapshot.
* A page of a meet is made of a template bundle and a context that the Pi pushed, read through the caches of
  the worker process that the request reaches; the page then asks for its assets by the bundle's identifier.

What is hard here, and rarely reached by the tests: the order in which the console's edges (heat, lanes,
clear) fall into evaluations; messages of two senders merged into one snapshot; requests that reach the
relay while its worker is in the middle of a handshake; records read, awaited upon and written back;
the disconnect of an old socket handled after its successor's `meet_open`; a rotation stopped and started while
its task sleeps; a page load that caches a template older than the one just pushed. `PROJECT.json` lists them
line by line under `hazards`.

## The modules

| module | models | notes |
|---|---|---|
| `RaceLifecycle` | what the display promises of one race | the abstract specification: waiting, running, results |
| `RaceStateMachine` | `race_state_machine.py` | any board may be evaluated at any time; seven triggers as operators on the state, `evaluate_update` as one action |
| `Scoreboard` | `parse_line`, the browser handlers, the broadcasts, the snapshot | drives `RaceStateMachine` (an instance) with the boards the console can produce |
| `AzureRelay` | `azure_relay.py` and the `/azure` routes | the worker split at its network calls, each request one action |
| `MeetSessions` | the `/pi` sessions, the records of the meets, the watchdog | each handler split at its store operations |
| `LiveFeed` | an update's way from the Pi to the viewers of a meet | buffer, flush tasks, store, room and hydration, split at every await |
| `Rotation` | what a rotation of a list promises | an abstract specification, implemented twice |
| `Signage` | message pages, advertisements, their rotations, the QR page, what a loading page is shown of them | each form, tick and callback one action; implements `Rotation` twice |
| `MeetPages` | template pushes, page loads and assets on several worker processes with their caches | each handler and request split at its store operations |
| `MeetData` | the meet data, the settings file, what the pages show | each request one action; restarts, and a crash while saving |
| `Simulator` | the demo mode | extends `Scoreboard` with the test page's buttons and clock tasks |
| `MC*` | instances for TLC | |
| `*_proofs` | the theorems about a module | |

### Race state machine

`state` is the machine's state, `prev_*` the fields of the same name. A row of `TRANSITIONS` becomes a
case of the operator named after its trigger; a trigger with no row leaves the state alone, as
`ignore_invalid_triggers` does. `EvaluateUpdate` follows `evaluate_update`: the heat change first, which
forgets the running lanes, then the edge of the running lanes, then `_evaluate_blank_state` unless the
race is running. In that last method the final test looks at the state it started with and the trigger
acts on the state reached so far; `evaluate_blank_state` keeps that. Times are abstracted to "blank or
not", event/heat pairs to the members of a set with some blank ones.

`ImplementsLifecycle` is the refinement: under the mapping `phase`, every evaluation and every request
starts a race, ends it under the heat it was run in, waits, or changes nothing.

### Scoreboard

One action per kind of frame (lane, clock, event/heat, score) and per browser request. `update` holds
the gathered lane keys, `snapshot` is `_last_scoreboard_state` with the heat key in the spelling of its
sender: the console's three characters (`wire`) or `str(int)` of `send_event_info`. That the two differ
is what makes `_update_scoreboard_snapshot` drop lane times. `Broadcast` merges a message as that
function does. Left out: the rendered fragments, names, records, and the worker's reading of a file in
place of the serial port.

### Relay client

`pc` is the place of the worker: waiting in `_run`, before the access token, in `client.connect`, before
`meet_open`, before the pushes, at the test of the serve loop, waiting for an event, or in the
`client.disconnect` that follows the loop. `held` are the credentials it
read; `aliased` says whether they are still the object in `_creds`, which `set_meet_id` changes in place, and
`authed` is the ID the cloud authenticated for the socket, so that a `meet_open` for another one is refused.
`failed` is the `except` arm of `_run`. Times are abstracted: a backoff elapses, and a heartbeat is
acknowledged or late, at any moment. `cloud` is the meet the cloud has open for this Pi, `published` and
`delivered` number the scoreboard updates. Left out: `update_relay_url`, `stop`, and the token calls,
which return or raise like the rest of the handshake.

### Cloud sessions

`metadata` is the record of each meet: status, owner and the age of the last heartbeat on the scale of the
watchdog's two thresholds. `handlers` holds the handlers in flight: the next store operation, the copy of the
record that was read, and the session the handler was called in. A `meet_open` for another ID than the
session's (`RefuseMeetOpen`) changes nothing. `heartbeat` and `mark_status` are a `ReadRecord` followed by a
`WriteRecord` of the whole record; `meet_open` is a check of the owner, a read of the Pi's previous meet,
perhaps the marking of that one, and the write of the new record. `claims` is a history variable: which Pis
passed the check of an ID. Left out: other data of the record, its expiry after two weeks, fragments; the
scoreboard state is `LiveFeed`'s, the templates are `MeetPages`'. The `feed_status` events are left out too:
the cloud emits them, but no page of the repository handles them (`azure/app/routes.py:436-438`), and a
heartbeat that brings a meet back to live emits none.

### Live feed

`pending` and `task` are the entry of a meet in `_pending` and `_pending_tasks`. A payload gives each field
the number of the update it is from. `flushes` are the runs of `_put_state_and_emit_now`: `gather` overlaps
its two halves, and the flushes overlap each other, so each `PutState` and each `Emit` is a step of its
own. A viewer enters the room, reads the state, and is sent it, with anything in between. `window` is
the configured coalescing, off by default (`azure/app/config.py:66-76`): both settings are initial states.
The two worker processes have a buffer each; the Pi's sockets are taken to be on the same one, which is
the case in which they meet. Left out: the end of a meet, the expiry of its state, the kinds of updates
(each kind has its own entry of the buffer). Pages are `MeetPages`' subject.

### Meet pages

`blobs`, `current` and `context` are the keys `template:<bundle_id>`, `current_template` and `context` of one
meet; `current_template_cache` and `template_blob_cache` are the two caches of each worker process,
`cache_set` is `_TTLCache.set` with its eviction. A push stores the bundle, then its name, then refreshes both
caches without an await in between; a close deletes the name, then drops the caches; a load reads
the name, then the bundle, filling the caches of its worker on the way. Each of these is a
step, on any worker, with any number of others in between.
A bundle lives for a day from when it was stored, which a push of a bundle that is there does not renew; its name
lives for a day from the last push. `LapseBundle` and `LapseCurrent` end them at any moment, and the history
variable `lapsed` has the bundles whose day has passed since they were stored. `published` is a history variable
of a load: what it needs was there when it began, and neither a close nor a lapse has taken what it has not
read yet. The record is not part of this module (`MeetSessions` has its states and its owner): a request may find
the meet open (`OpenPage`) or not (`OpenStatusPage`) at any time. The gathered read of the context is reduced to
its end. Left out: the two weeks of the record and of the context, fragments.

### Rotations

`Rotation` says what a rotation is: a list of flags, a position, a flag that the task is told to stop by, and
the number of tasks that sleep. `Signage` has two, as instances: `Messages` of the message pages and
`Advertisements` of the images. `UpdatePages` and `UpdateAds` are a change of a list and the
`_update_*_rotation` that follows it; the position that is broadcast with a change of the pages is the one from
before that (`SendOverlayState`), because the code sends first. `replay` is the part of
`_last_scoreboard_state` that these broadcasts leave behind; it is all that a page that loads gets to see.
`AdFlags` reads the flag of an entry through its name: the code keeps it in the entry itself, which the
replayed list shares. Positions count from 1. Left out: texts and alignment but for blank, text or QR code;
the interval, which a tick waits for and which decides nothing else.

### Meet data

`schedule` is the `HytekEventLoader`: names per lane with the number of `*` appended (teams, age codes and
seed times change in the same places), the events' metadata and the table of combined heats. A form is the
sequence of its rows, source and destination, in page order, and `Combined` the dictionary they are read into.
`PutOver` and `MergeInto` are one turn of the loop of `combine_events`, `Merged` the loop, a recursive
function over the rows; `at` says which table a heat's entry points to, because the source is made to share
the destination's. A missing heat ends the loop with a `KeyError`. `Matching` are the filters of
`_get_qualifying_times` and `_get_matching_records`, `Footer` is `_select_footer_message`; `Info` is what
`send_event_info` makes of them, `shown` what the pages have. `saved` is the settings file: `Save` copies the
changed part, as the routes do, `LoadSettings` reads it back, and a crash between the truncation and the write
of `save_settings` leaves a file that `load_settings` gives up on. `failed` records why the file may differ
from the memory, `reload` that the pages were told to load again, and `announced` is the schedule that the
pages were last told of, which is all that `PagesMissNothing` lets them lag behind by. A file's parse is its
outcome: tables, or an error with the tables it leaves. Left out: the course of the pool, order, colours and
repetition of the listed times, the tags and descriptions of standards and teams, the other settings and the
migrations of old files; the message pages are `Signage`'s.

### Simulator

The buttons of `sim.py` write the globals that `parse_line` writes, so `Simulator` extends `Scoreboard` and
replaces its console. Each button is one action, but for "finish", whose evaluation per lane is a step
each; nothing interrupts the handler, and `finishing` are the lanes it has left. `tickers` are the
`_sim_clock_tick` tasks: "start" adds one and does not look for another. The demo schedule and records that
the first button installs are left out; the constant `OtherHeat` stands for the other heat of an event in
that schedule. No button writes anything but blanks to the console's heat characters, which stay blank (`Spaces`).

## The runs

| run | module | checks | result |
|---|---|---|---|
| `RaceStateMachine` | `RaceStateMachine` | blank, cleared and finished displays mean what they say; the refinement of `RaceLifecycle` | holds |
| `Scoreboard` | `MCScoreboard` | the snapshot has the machine's state, the console's lanes and the announced heat; a start is shown with its first frame; the end of a race is noticed | holds |
| `ScoreboardRunningEnds` | `MCScoreboard` | a race whose lanes stopped is not shown running for ever | violated |
| `Simulator` | `MCSimulator` | finish ends the race; resting lanes are replayed as the buttons left them; the buttons only take steps of `RaceStateMachine` | holds |
| `AzureRelay` | `MCAzureRelay` | truthful status, order of updates, reconnection, requested reconnects, draining | holds |
| `MeetSessions` | `MCMeetSessions` | who may own a meet; bindings; what late writes leave alone | holds |
| `MeetSessionsFair` | `MCMeetSessions` | quiet meets are closed; served ones recover from degraded | holds |
| `LiveFeed` | `LiveFeed` | a waiting update has a flush; a joined viewer gets all that is not discarded or already emitted | holds |
| `MeetPages` | `MeetPages` | a named bundle was stored and only its day ends it; a published meet is shown; stale caches are got rid of | holds |
| `Signage` | `MCSignage` | both rotations are alive, implement `Rotation` and show every item; the screens show the page that is up | holds |
| `SignageReload` | `MCSignage` | a page that loads shows the advertisement that is up | violated |
| `MeetData` | `MCMeetData` | the file keeps up with the memory; the pages miss nothing that was entered; identifiers of record sets; combined heats | holds |

The violated ones state what a comment or a docstring says, quoted in the module and under `findings` in
`PROJECT.json`:

* `RunningEndsWhenLanesStop`: if the lanes stop in the evaluation that also brings a new heat, the machine
  has just forgotten which lanes were running, sees no edge, and stays in Running until the next race.
* `ReloadedPagesShowTheAd`: the list of advertisements is broadcast by a tick only. Once it has been, the
  snapshot replaces what a page was rendered with, so after the removal of an advertisement with no rotation
  left, a page that reloads is given the removed one, whose file is gone, or the wrong one.

Other disagreements met while modelling, without a run of their own:

* `_force_reconnect` is cleared at the end of the handshake (`azure_relay.py:873`). A `set_meet_id` made between the
  `meet_open` and that point is forgotten, and the old meet remains served, while l.595-596 say that the worker
  re-opens the meet under the new ID. One made between `client.connect` and the `meet_open` is worse: the cloud
  refuses the new ID on this socket (`azure/app/handlers.py:246-247`), and as the emit has no callback the worker
  goes on and shows connected.
* The write of the state and the emit overlap (`azure/app/handlers.py:437`). A viewer that enters the room after
  the emit and reads the state before the write misses that update until the field changes again. One that
  enters and reads before both, and is sent what it read after the emit (l.439-441), goes back to the older value.
* The boxes of the advertisements are read by row, after the row that "up" or "down" moves has been moved
  (`settings_routes.py:279-299`): moving an advertisement whose neighbour has another flag exchanges the flags.
* A change of the message pages is broadcast, and the cloud's context pushed, before the position is
  re-evaluated (`settings_routes.py:642-651`); until the next tick a page may be given a position whose page is
  disabled. The browser then shows the first enabled page, which is why `ScreensShowTheActivePage` holds.
* "no need to refresh", says the page that is served before the first push (`azure/app/routes.py:402-408`), but it
  has no script that would load it again.
* The refresh of the caches that ends a push is meant to make reads on this worker consistent with it
  (`azure/app/state.py:467-468`); a load that read the older name before puts it back into the cache, for two
  seconds. `CachesConverge` says that no more comes of it.
* A bundle that is pushed again is not written again (`azure/app/state.py:464`), so its day is counted from
  the first push while that of its name starts anew. When it passes, the name is left without its bundle, and
  the pages that are pinned to it lose their assets, while `routes.py:452-454` promises them.
* `reload_clients` relies on the context having been pushed before (`azure/app/handlers.py:350`), but the events of
  a Pi are handled concurrently, so browsers may reload into the old context.
* `ws_scoreboard` calls `send_event_info` first, whose heat is spelt `str(int)`; the snapshot drops the lane
  times of the race just before it is replayed (`CTS_Scoreboard.py:1638,2009`), while the comment at
  l.1731-1734 says a fresh page load reflects "finished lane times when reloading mid-Finished".
* A `meet_close` queued when the socket is lost is sent on the next connection and ends the meet opened there
  (`azure_relay.py:590`; l.579: "End the current meet on the cloud").
* The disconnect after a `meet_close` marks the meet degraded whatever its status, and so does any handler that
  read the record before the close (`azure/app/handlers.py:225`), while `azure_relay.py:582-584` says that
  `meet_close` flips the meet to the closed state.
* Two Pis that open a free ID at once both pass the check, and the later write takes the meet over
  (`azure/app/handlers.py:251` against the comment at l.249, "Reject if this id is owned by a different Pi").
  `OwnerIsStable` says that nothing else can change the owner.
* `azure_relay.py:348-354` drops the newest update when the queue is full, while
  `CTS_Scoreboard.py:2025-2026` says the most recent ones win.
* A worker in flight overwrites the `needs_auth` of `logout` (`azure_relay.py:746,864`); the docstring at
  l.527 says the state is reset.
* A cancelled sign-in may still succeed if the poll under way brings a token (`azure_relay.py:538-540`), and
  `cancel_login` shows `disconnected` while a socket is being served (l.556-559).
* Lane times gathered before a heat change are broadcast with the new heat and so enter its snapshot
  (`CTS_Scoreboard.py:635-641` against the comment at l.1966-1970), and a heat is announced with the display
  mode of the state before it (l.598-600 against l.2031-2034).
* The disconnect of the old socket takes a rotated ID out of `expired_id_rotated`
  (`azure/app/handlers.py:225` against l.258-260).
* A Pi whose `meet_open` was refused stays connected, and its `meet_close` closes the other Pi's meet
  (`azure/app/handlers.py:405-412`). An update that comes after `meet_close` recreates the state it dropped
  (`azure/app/state.py:371`, `537-547`).
* `docs/plan-azure.md:19` gives eight hours before a quiet meet is closed, `azure/app/watchdog.py:53` two.
* Starting the demo race twice, or within the tenth of a second that the clock task sleeps after a stop,
  leaves two clock tasks (`sim.py:328-329,528`) that show two clocks in turn. "reset" during a race leaves
  the display in Running (`sim.py:386`), while the comment at l.369-370 says it goes to PreRace.
* Heats combined in a chain (A with B, B with C) leave A on B's table, without C (`hytek_event_loader.py:397`).
  An upload that fails has cleared the schedule in memory but not in the file (l.263). The routes that clear,
  remove and combine tell no page (`settings_routes.py:889-984`).
* `save_settings` truncates the file before it writes it (`CTS_Scoreboard.py:434`), so a process that ends in between
  has lost every setting when it is started again (`CrashInSave`).
* A lane that starts from Finished under the same heat, or before the last race's lanes were seen to stop, is not
  shown running: there is no such row, or no edge (`race_state_machine.py:23-99,192`).
* A rotation that is stopped and started while its task sleeps has two tasks (`CTS_Scoreboard.py:1491-1506`), so its
  items are shown for less than the interval.

### Bounds

* Race state machine: three channels, of which one is the clock lane, two heats and a blank one. The code treats all
  result lanes alike (any/all over lanes), and a heat only by comparison with the previous one.
* Scoreboard: one result lane and the clock lane, two heats, a blank one, and a schedule of the two heats. The
  console's scores are always on: they only add a key to the message they are sent with. The violated run needs
  one heat.
* Relay: a queue of two, two updates, one sign-in, one meet ID (so the refusal of a changed one is covered by the
  theorems only). A queue of two can be full, and can hold a
  stale entry before a fresh one. `MaxAttempt` caps the attempt counter as the backoff schedule does its
  length.
* Cloud: two Pis, two IDs and two sockets with two handlers in flight; every race found needs two. This run
  has the heartbeats, opens, disconnects and the watchdog, but no `meet_close`, which writes a record as a
  disconnect does; the theorems cover it, and so does the fair run, which has one Pi and one ID, both of
  its sockets, every event and all ages. `MaxTasks` bounds the handlers in flight, `MaxAge` the thresholds
  that pass.
* Live feed: two fields, so that a merge differs from a replacement, two updates, two lost sockets, one
  viewer (viewers do not interact).
* Meet pages: two worker processes, two bundles, one browser (browsers only interact through the caches, which
  pushes write too), caches of one entry, so that each new bundle evicts, two pushes or closes under way, and
  one bundle whose day may pass (`Lapsing`), beside one that stays: the code treats all bundles alike. The
  theorems have any.
* Rotations: five forms of message pages with none to three enabled, blank and QR pages among them, two
  advertisements and one to upload, at most three pages (the code has five), three edits, sign-ins or restarts:
  stop, start and stop again while a task sleeps.
* Meet data: a file of three heats in two events and one of a single heat, every form over the three heats,
  chained and circular ones among them, so a page may be older than the schedule; two tables of standards
  and records with one, two or no rows that match; a default, a selective and a more selective footer.
  `MaxEdits` is three: upload, combine, combine again, or upload, remove, upload around a restart.
* Simulator: the three lanes of a pool, one of them without a swimmer and one the clock lane, two clock
  tasks at a time, two heats.

Symmetry is used in `MeetSessions` only, where no liveness is checked.

### Fairness

* `Scoreboard`: the console repeats its clock frame; the timers do while they are switched on.
* `AzureRelay`: the worker thread is scheduled, waits with a timeout end, an emit on a closed socket
  raises (weak fairness); the network, however often it fails, succeeds again and again (strong
  fairness of the steps of the handshake and of an emit). The operator is not assumed to do anything.
* `MeetSessionsFair`: a handler in flight goes on; the watchdog's loop comes round; the Pi's worker sends
  a heartbeat every few seconds while its socket is up; time passes for a meet nobody is connected for.
  The starts are strongly fair only because `MaxTasks`, which the code does not have, can keep them
  waiting.
* `LiveFeed`: a flush task's sleep ends, and the store and the room answer. A viewer is not assumed to go
  on: the property is about one that has joined.
* `MeetPages`: handlers and loads that have begun go on, and two seconds pass for a cache entry. Neither the
  Pi nor a browser is assumed to do anything, nor that a lifetime in the store ends; `CachesConverge` is about
  a time when nothing is pushed any more.
* `Signage`: a task that sleeps wakes. Nothing is assumed of the operator.
* `Simulator` has no liveness property: its clock tasks end, but two of them may be there by then (see above).

## What is proved

The theorems hold for every value of the constants under the modules' named assumptions: the clock lane
is a channel, blank heats are heats and there is one, the console's other heat is a heat, the values that stand
for "none" are not members, the bounds are natural numbers, the queue holds at least one event, forms are within
their bounds and list their rows in the order of the page, a settings or meet file has tables.

* `RaceStateMachine_proofs`: the type invariant; that the display agrees with the board it was evaluated on
  (`DisplayMatchesBoard`); that only stopped lanes end a race, that they do unless a new heat comes with them
  (`StoppedLanesEnd`, the safety half of `EndIsNoticed`), that an edge of the lanes starts one, and the
  refinement of `RaceLifecycle`. The parts of `DisplayMatchesBoard` are inductive together, with the types:
  leaving the blank states needs that a hidden display was evaluated on blank lanes.
* `Scoreboard_proofs`: the type invariant; that every handler is a step of `RaceStateMachine` (or none),
  so that what is proved of the machine carries over to the process; that the snapshot has the machine's state;
  that it names the announced heat; that it has each resting lane as the console last sent it; that a start is
  shown at once. The snapshot invariants follow the order of the broadcasts inside each handler. The one of the
  lanes needs that what waits in the update for a resting lane is what the console sent last (`LanesAreTracked`).
  `ReplayHeat` needs that every announcement is broadcast in the step that sets `last_event_sent`, and that a
  heat number from the console is announced before it is gathered.
* `Scoreboard_proofs` has the simulator too, whose buttons share those lemmas: its types, the refinement of
  `RaceStateMachine` with what that brings, the promises of the snapshot, and that "finish" ends the race
  (`FinishEndsRace`). The last needs an invariant of the whole demo (`RaceCanEnd`): the board's heat stays blank
  and so never changes under running lanes, the display runs only while the machine knows a running lane, and
  while "finish" is handled no lane runs but those it has left.
* `AzureRelay_proofs`: the type invariant with the bound of the queue; that connected and degraded are only
  shown while a socket is served, or closed behind the loop; that a backoff on display has been counted; that
  updates are emitted in increasing order (what becomes of the order in the cloud is `LiveFeed`'s subject);
  that a requested reconnect is not forgotten and lets at most one more event through (`ReconnectIsPrompt`,
  the safety half of `ReconnectLeaves`). The order rests on an invariant of the queue: its updates are in
  order, newer than what was delivered and no newer than what was published.
* `MeetSessions_proofs`: the type invariant; that a Pi is only bound to a meet it claimed; that a record is
  never lost and changes its owner only between overlapping claims; that an ID with a record is not
  claimed by another Pi. The invariant speaks of the handlers in flight: a copy that will be written back
  belongs to a claimant, and a `meet_open` past its check has its own Pi among the claimants. Claims only
  grow and records do not disappear, so no interleaving breaks it.
* `LiveFeed_proofs`: the type invariant; that the buffer is non-empty exactly when a flush task sleeps; that
  what had arrived when a disconnect was handled leaves the buffer for good; that no step loses a waiting
  update (`NoUpdateIsLost`, the safety half of `JoinedViewerCatchesUp`): it waits until a later one of its field
  takes its place, a disconnect discards the buffer, or everyone in the room is shown it. The replacement
  is a later one because the buffer holds nothing that has not arrived.
* `MeetPages_proofs`: the type invariant with the bound of the caches; that every bundle that is named was stored,
  and is there unless its day has passed; that a load of a published meet shows it; that an outdated template
  that is gone from the caches and the loads comes back only with a push or a close (`SettledStays`, the safety
  half of `CachesConverge`). The first follows from the order of a push, the bundle before its name: the invariant
  adds that a push past its first step has stored its bundle (`PushesAreStored`), and nothing but its day takes
  a bundle out. The second needs the first, for the step in which a load turns a name into a bundle, and that what
  a load still has to read is only taken by a close or a lapse, which end its promise (`PublishedStays`).
* `Signage_proofs`: the type invariant; that both rotations implement `Rotation`; that they are alive; that the
  screens show the page the rotation is on; that between two edits a rotation only moves to the next enabled item
  (`NoItemIsSkipped`, the safety half of `EveryItemComesUp`). That they are alive is proved of `Rotation` under
  its two mappings: every change evaluates the switch and the position anew, and a tick stops exactly when there
  is nothing to rotate. The screens need to know how the snapshot falls behind: it has the current pages or
  none, and its position, clamped to the current pages, is the rotation's.
* `MeetData_proofs`: the type invariant; that a restart restores what was in memory, but for a schedule whose
  last change failed; that pages which need not be loaded again miss nothing that was entered
  (`DisplayMissesNothing`, which rests on the schedule that was announced last: it stays, or loses entries,
  until the next announcement); that record sets never share an identifier; that combined heats show the lanes
  of all heats combined into them, each marked once (`CombinedAsEntered`). The types and the identifiers need
  that every part of the sets has one that was added last, which the greatest identifier in `load_settings` is
  taken from, and that the file has the same sets.
* `CombinedAsEntered` is about the loop of `combine_events`. `Merged` is a recursive function over the rows of the
  form, and the proof is the usual one of a loop: such a function exists because each value only needs the one
  before (`MergedIsALoop`), and after each row a loop invariant (`Processed`) tells which lanes the destinations of
  the rows so far have and that the rest is untouched. Since induction cannot be cited, it is done by the least
  row that breaks the invariant, which well-foundedness of the naturals gives. That the state is right after any
  history then needs it of the settings file as well (`FileAsEntered`), which a restart reads.

The theorems about `RunningEndsByFinish`, `StartEdgeRuns`, `StoppedLanesEnd`, `DrivesRaceStateMachine`,
`BackoffCountsFailures`, `ReconnectIsPrompt`, `ClaimedWhileFree`, `DroppedStaysDropped`, `NoUpdateIsLost`,
`SettledStays` and `NoItemIsSkipped` state properties that have no run of their own.

Every invariant and every action property of the passing runs has a theorem. Only model-checked are the
liveness properties (`EndIsNoticed`, `ComesBack`, `ReconnectLeaves`, `QueueDrains`, `QuietMeetCloses`,
`ServedMeetRecovers`, `JoinedViewerCatchesUp`, `CachesConverge`, `EveryItemComesUp`), because the
prover does not handle fairness and enabledness. For five of them the theorems above have the part that is safety.

## The plan

1. `RaceStateMachine`, `RaceLifecycle`, then `Scoreboard` on top of it, with proofs: done.
2. `AzureRelay` with proofs: done.
3. `MeetSessions` with proofs: done.
4. `LiveFeed` with proofs, `Simulator`, `MeetData` with proofs: done.
5. `MeetPages` (pushes, loads and the caches of several worker processes) with proofs: done.
6. `Rotation` and `Signage` (the rotations, with start and stop while a task sleeps) with proofs: done.
7. `SnapshotTracksLanes`, `CombinedAsEntered`, the types of `MeetData`, and `Simulator` proved: done. So are the
   safety halves of five liveness properties.
8. Compositions of `AzureRelay` with `MeetSessions` and of `MeetSessions` with `LiveFeed`. What crosses these
   borders is recorded above as disagreements (a `meet_close` on a later connection, an update after the
   close); what is left to say across them is a property of one side, so they come last.

## Not modelled

The parsers of meet, record and standards files, the generic settings, the rendering of HTML, images and QR codes,
rendered fragments and their cache (one key is written and read; nothing refers to another), the lifetimes of
weeks in the store, the Wi-Fi manager (it runs `nmcli` and parses what that prints), token validation
(a library), telemetry, the browsers' own scripts but for the choice of the page and the advertisement to show,
infrastructure and set-up scripts. They transform data or call external programs and keep next to no state;
the parts with an algorithm worth checking are in the plan.
