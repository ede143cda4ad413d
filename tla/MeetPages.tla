------------------------------ MODULE MeetPages ------------------------------
(***************************************************************************)
(* The page of one meet on the cloud relay (azure/app): the Pi's template  *)
(* bundles and render context in the shared store, the caches that every   *)
(* worker process keeps of them, the handlers of the Pi's pushes and of    *)
(* its meet_close, and the HTTP requests of browsers.                      *)
(*                                                                         *)
(* A handler or a request is one asyncio task: it is interleaved with the  *)
(* others at each of its store operations, and what it does between two of *)
(* them is one step.  The handlers of a Pi's events run concurrently, and  *)
(* on any worker: the Pi reconnects through the load balancer.             *)
(*                                                                         *)
(* Each bundle and the name of the current one live for a day in the       *)
(* store, a bundle from when it was stored, the name from the last push.   *)
(* Either may lapse at any moment here.  The two weeks of the context are   *)
(* left out.  What the meet's record says is MeetSessions' subject: here a  *)
(* request may find it open or not at any time.                            *)
(***************************************************************************)
EXTENDS Naturals, Sequences, FiniteSets

CONSTANTS Workers,   \* the processes of the cloud relay
          Bundles,   \* template bundles, by their bundle_id
          NoBundle,  \* no template: an absent key, a miss, a page without one
          Viewers,   \* browsers
          MaxBlobs,  \* template_blob_cache_max
          MaxTasks,  \* bound: the tasks of Pi events under way at a time
          Lapsing    \* bound: the bundles whose day may pass while they are stored

ASSUME BoundsAssumption == MaxBlobs \in Nat \ {0} /\ MaxTasks \in Nat
ASSUME NoBundleAssumption == NoBundle \notin Bundles
ASSUME LapsingAssumption == Lapsing \subseteq Bundles

VARIABLES
  blobs,                   \* store: the bundles under meet:<id>:template:<bundle_id>
  lapsed,                  \* history: the bundles whose day has passed since they
                           \* were last stored
  current,                 \* store: meet:<id>:current_template
  context,                 \* store: whether meet:<id>:context is there
  current_template_cache,  \* per worker: the meet's entry, for two seconds
  template_blob_cache,     \* per worker: bundles in the order they were inserted
  tasks,                   \* the pushes and closes under way; a push that equals
                           \* one under way can as well arrive after its next step
  request,                 \* the page load of each viewer
  page                     \* what each viewer shows: a meet page pinned to its
                           \* bundle, or one of the status pages (NoBundle)

store == <<blobs, lapsed, current, context>>
caches == <<current_template_cache, template_blob_cache>>
vars == <<blobs, lapsed, current, context, current_template_cache, template_blob_cache,
          tasks, request, page>>

OptionalBundle == Bundles \union {NoBundle}
Pushing == [step : {"current", "refresh"}, worker : Workers, bundle : Bundles]
Closing == [step : {"delete", "evict"}, worker : Workers]
IdleRequest == [step |-> "idle"]
\* A page load reads the template at its worker; `bundle` is the name it has
\* read, then what it found.  `published` is a history variable: whether
\* template and context were there when the load began, and neither a close nor
\* a lapse has taken what the load still has to read.
Loading == [step : {"reading", "filling"}, worker : Workers,
            bundle : OptionalBundle, published : BOOLEAN]
Found == [step : {"found"}, bundle : OptionalBundle, published : BOOLEAN]

TypeOK ==
  /\ blobs \in SUBSET Bundles
  /\ lapsed \in SUBSET Bundles
  /\ current \in OptionalBundle
  /\ context \in BOOLEAN
  /\ current_template_cache \in [Workers -> OptionalBundle]
  /\ template_blob_cache \in [Workers -> Seq(Bundles)]
  /\ \A w \in Workers : Len(template_blob_cache[w]) <= MaxBlobs
  /\ tasks \in SUBSET (Pushing \union Closing)
  /\ request \in [Viewers -> {IdleRequest} \union Loading \union Found]
  /\ page \in [Viewers -> OptionalBundle]

Init ==
  /\ blobs = {}
  /\ lapsed = {}
  /\ current = NoBundle
  /\ context = FALSE
  /\ current_template_cache = [w \in Workers |-> NoBundle]
  /\ template_blob_cache = [w \in Workers |-> <<>>]
  /\ tasks = {}
  /\ request = [v \in Viewers |-> IdleRequest]
  /\ page = [v \in Viewers |-> NoBundle]

(***************************************************************************)
(* _TTLCache                                                               *)
(***************************************************************************)
InCache(cache, b) == \E i \in 1 .. Len(cache) : cache[i] = b

\* Mutant: the cache takes one entry more than its bound
cache_set_Late(cache, b) ==
  LET kept == IF Len(cache) > MaxBlobs THEN Tail(cache) ELSE cache
  IN  IF InCache(kept, b) THEN kept ELSE Append(kept, b)

\* set: a full cache drops its oldest entry first, also when b is cached
\* already; an entry that is set again keeps its place.
cache_set(cache, b) ==
  LET kept == IF Len(cache) >= MaxBlobs THEN Tail(cache) ELSE cache
  IN  IF InCache(kept, b) THEN kept ELSE Append(kept, b)

\* Mutant: the current template is cached until the process ends
ttl_passed_Never(w) == FALSE

\* The time to live of an entry of the current-template cache has passed.
ttl_passed(w) == current_template_cache[w] # NoBundle

ExpireCurrent(w) ==
  /\ ttl_passed(w)
  /\ current_template_cache' = [current_template_cache EXCEPT ![w] = NoBundle]
  /\ UNCHANGED <<store, template_blob_cache, tasks, request, page>>

(***************************************************************************)
(* The Pi's events                                                         *)
(***************************************************************************)
OnMeetContext ==
  /\ context' = TRUE
  /\ UNCHANGED <<blobs, lapsed, current, caches, tasks, request, page>>

\* The loads that still have to read the name of the current bundle.
reading == {v \in Viewers : request[v].step = "reading"}

\* The loads that still have to find bundle b.
finding(b) ==
  {v \in Viewers : \/ request[v].step = "reading" /\ current = b
                   \/ request[v].step = "filling" /\ request[v].bundle = b}

\* The loads of the viewers in S are no longer of a published page.
unpublished(S) ==
  [v \in Viewers |-> IF v \in S THEN [request[v] EXCEPT !.published = FALSE]
                    ELSE request[v]]

\* template_push arrives at worker w.  put_template stores the bundle unless
\* it is there (one that is there keeps its day), then the name of the current
\* bundle, then, without an await in between, refreshes both caches of this
\* worker.  The look and the store are one step: between them only the same
\* bundle can be put there.
OnTemplatePush(w, b) ==
  /\ Cardinality(tasks) < MaxTasks
  /\ blobs' = blobs \union {b}
  /\ lapsed' = lapsed \ {b}
  /\ tasks' = tasks \union {[step |-> "current", worker |-> w, bundle |-> b]}
  /\ UNCHANGED <<current, context, caches, request, page>>

\* The bundle may have lapsed since the look.
PutCurrent(t) ==
  /\ t.step = "current"
  /\ current' = t.bundle
  /\ request' = IF t.bundle \in lapsed THEN unpublished(reading) ELSE request
  /\ tasks' = (tasks \ {t}) \union {[t EXCEPT !.step = "refresh"]}
  /\ UNCHANGED <<blobs, lapsed, context, caches, page>>

RefreshCaches(t) ==
  /\ t.step = "refresh"
  /\ LET w == t.worker
         b == t.bundle
     IN  /\ template_blob_cache' = [template_blob_cache EXCEPT ![w] = cache_set(@, b)]
         /\ current_template_cache' = [current_template_cache EXCEPT ![w] = b]
  /\ tasks' = tasks \ {t}
  /\ UNCHANGED <<store, request, page>>

\* meet_close arrives at worker w, or the watchdog there gives the meet up.
\* close_meet has marked the record (MeetSessions has the read and the write),
\* then deletes the hot state, then drops this worker's entries.  The bundles and
\* the context stay.
OnMeetClose(w) ==
  /\ Cardinality(tasks) < MaxTasks
  /\ tasks' = tasks \union {[step |-> "delete", worker |-> w]}
  /\ UNCHANGED <<store, caches, request, page>>

\* Mutant: the bundles are deleted with the hot state
DeleteHotState_Blobs(t) ==
  /\ t.step = "delete"
  /\ current' = NoBundle
  /\ blobs' = {}
  /\ request' = unpublished(reading)
  /\ tasks' = (tasks \ {t}) \union {[t EXCEPT !.step = "evict"]}
  /\ UNCHANGED <<lapsed, context, caches, page>>

DeleteHotState(t) ==
  /\ t.step = "delete"
  /\ current' = NoBundle
  /\ request' = unpublished(reading)
  /\ tasks' = (tasks \ {t}) \union {[t EXCEPT !.step = "evict"]}
  /\ UNCHANGED <<blobs, lapsed, context, caches, page>>

EvictMeet(t) ==
  /\ t.step = "evict"
  /\ LET w == t.worker
     IN  /\ current_template_cache' = [current_template_cache EXCEPT ![w] = NoBundle]
         /\ template_blob_cache' = [template_blob_cache EXCEPT ![w] = <<>>]
  /\ tasks' = tasks \ {t}
  /\ UNCHANGED <<store, request, page>>

(***************************************************************************)
(* Lifetimes in the store                                                  *)
(***************************************************************************)
\* The day of bundle b has passed.
LapseBundle(b) ==
  /\ b \in blobs
  /\ blobs' = blobs \ {b}
  /\ lapsed' = lapsed \union {b}
  /\ request' = unpublished(finding(b))
  /\ UNCHANGED <<current, context, caches, tasks, page>>

\* The day of the name, which every push renews, has passed.
LapseCurrent ==
  /\ current # NoBundle
  /\ current' = NoBundle
  /\ request' = unpublished(reading)
  /\ UNCHANGED <<blobs, lapsed, context, caches, tasks, page>>

(***************************************************************************)
(* The browsers' requests                                                  *)
(***************************************************************************)
\* GET /m/<id> finds no record, or one that is closed or expired.
OpenStatusPage(v) ==
  /\ request[v] = IdleRequest
  /\ page' = [page EXCEPT ![v] = NoBundle]
  /\ UNCHANGED <<store, caches, tasks, request>>

\* The template b, or none, is found; the context may still be on its way.
found(b, published) == [step |-> "found", bundle |-> b, published |-> published]

\* GET /m/<id> of an open meet at worker w: the two overlapping reads begin;
\* the template may be in the cache.
OpenPage(v, w) ==
  /\ request[v] = IdleRequest
  /\ LET cached == current_template_cache[w]
         published == current \in blobs /\ context
     IN  request' = [request EXCEPT ![v] =
           IF cached # NoBundle THEN found(cached, published)
           ELSE [step |-> "reading", worker |-> w, bundle |-> NoBundle,
                 published |-> published]]
  /\ UNCHANGED <<store, caches, tasks, page>>

\* get_current_template, after a miss: the name of the current bundle ...
ReadCurrent(v) ==
  /\ request[v].step = "reading"
  /\ request' = [request EXCEPT ![v] =
       IF current = NoBundle THEN found(NoBundle, @.published)
       ELSE [@ EXCEPT !.bundle = current, !.step = "filling"]]
  /\ UNCHANGED <<store, caches, tasks, page>>

\* Mutant: what the cache lacks is not read from the store
bundle_found_Cached(w, b) == InCache(template_blob_cache[w], b)

\* ... and the bundle, from this worker's cache or from the store.  What was
\* found goes into the cache, whatever was put there in the meantime.
bundle_found(w, b) == InCache(template_blob_cache[w], b) \/ b \in blobs

FillTemplate(v) ==
  /\ request[v].step = "filling"
  /\ LET w == request[v].worker
         b == request[v].bundle
     IN  IF bundle_found(w, b)
         THEN /\ template_blob_cache' =
                   IF InCache(template_blob_cache[w], b) THEN template_blob_cache
                   ELSE [template_blob_cache EXCEPT ![w] = cache_set(@, b)]
              /\ current_template_cache' = [current_template_cache EXCEPT ![w] = b]
              /\ request' = [request EXCEPT ![v] = found(b, @.published)]
         ELSE /\ request' = [request EXCEPT ![v] = found(NoBundle, @.published)]
              /\ UNCHANGED caches
  /\ UNCHANGED <<store, tasks, page>>

\* The meet page, or "Connecting to the scoreboard".  The read of the context
\* that overlaps those of the template is taken to end last: within its two
\* weeks a context is replaced, never removed.
ShowPage(v) ==
  /\ request[v].step = "found"
  /\ page' = [page EXCEPT ![v] = IF context THEN request[v].bundle ELSE NoBundle]
  /\ request' = [request EXCEPT ![v] = IdleRequest]
  /\ UNCHANGED <<store, caches, tasks>>

\* GET /m/<id>/static/<bundle_id>/...: an asset of the bundle the page is
\* pinned to, at any worker.
GetAsset(v, w) ==
  /\ page[v] # NoBundle
  /\ ~InCache(template_blob_cache[w], page[v])
  /\ page[v] \in blobs
  /\ template_blob_cache' = [template_blob_cache EXCEPT ![w] = cache_set(@, page[v])]
  /\ UNCHANGED <<store, current_template_cache, tasks, request, page>>

(***************************************************************************)
(* The specification                                                       *)
(***************************************************************************)
TaskSteps(t) ==
  PutCurrent(t) \/ RefreshCaches(t) \/ DeleteHotState(t) \/ EvictMeet(t)

LoadSteps(v) == ReadCurrent(v) \/ FillTemplate(v) \/ ShowPage(v)

Next ==
  \/ OnMeetContext
  \/ \E w \in Workers : (\E b \in Bundles : OnTemplatePush(w, b)) \/ OnMeetClose(w)
  \/ \E t \in tasks : TaskSteps(t)
  \/ \E v \in Viewers, w \in Workers : OpenPage(v, w) \/ GetAsset(v, w)
  \/ \E v \in Viewers : OpenStatusPage(v) \/ LoadSteps(v)
  \/ \E w \in Workers : ExpireCurrent(w)
  \/ LapseCurrent
  \/ \E b \in Lapsing : LapseBundle(b)

Spec == Init /\ [][Next]_vars

\* Tasks that have begun go on, and the two seconds of a cache pass.  Nothing
\* is assumed of the Pi, of the browsers or of the lifetimes in the store.
FairSpec ==
  /\ Spec
  /\ WF_vars(\E t \in tasks : TaskSteps(t))
  /\ \A v \in Viewers : WF_vars(LoadSteps(v))
  /\ \A w \in Workers : WF_vars(ExpireCurrent(w))

(***************************************************************************)
(* Properties                                                              *)
(***************************************************************************)
\* Whatever names a bundle (the current template, each cache, a page load, and
\* every page a browser still shows, whose assets are asked for after newer
\* bundles were pushed, the meet was closed, or the caches were full) names one
\* that was stored, and that nothing has taken away since but its own day.
NamedBundlesAreStored ==
  LET storedOnce == blobs \union lapsed
  IN  /\ current \in storedOnce \union {NoBundle}
      /\ \A w \in Workers :
           /\ current_template_cache[w] \in storedOnce \union {NoBundle}
           /\ \A i \in 1 .. Len(template_blob_cache[w]) :
                template_blob_cache[w][i] \in storedOnce
      /\ \A v \in Viewers :
           /\ request[v] # IdleRequest => request[v].bundle \in storedOnce \union {NoBundle}
           /\ page[v] \in storedOnce \union {NoBundle}

\* A page load that begins when template and context are published shows the
\* meet, not "Connecting to the scoreboard", whatever is pushed or cached
\* while it runs, and on whatever workers; only a close, or the end of the
\* lifetime of what the load has not read yet, may come in between.
PublishedPageIsShown ==
  [][\A v \in Viewers :
       request[v] # IdleRequest /\ request[v].published /\ request'[v] = IdleRequest
         => page'[v] # NoBundle]_vars

\* Every worker is eventually rid of an outdated current template: once no
\* push or close is under way any more, each cache ends up empty or right,
\* in spite of loads that cache what they read before the last push.
CachesConverge ==
  <>[](tasks = {})
    => \A w \in Workers : <>[](current_template_cache[w] \in {current, NoBundle})
=============================================================================
