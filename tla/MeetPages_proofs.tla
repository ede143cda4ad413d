--------------------------- MODULE MeetPages_proofs ---------------------------
(***************************************************************************)
(* Proofs about the pages of a meet for any number of worker processes,    *)
(* bundles, viewers, pushes and closes: their types, that what names a     *)
(* bundle names one that was stored and had its day at most, and that a    *)
(* published meet is shown.                                                *)
(***************************************************************************)
EXTENDS MeetPages, TLAPS

-----------------------------------------------------------------------------
(* The caches *)

\* A cache that an entry is put into stays within its bound, and has only
\* entries it had and the new one.
LEMMA CacheSet ==
  ASSUME NEW S, NEW cache \in Seq(S), Len(cache) <= MaxBlobs, NEW b \in S
  PROVE  /\ cache_set(cache, b) \in Seq(S)
         /\ Len(cache_set(cache, b)) <= MaxBlobs
<1> USE BoundsAssumption
<1> DEFINE kept == IF Len(cache) >= MaxBlobs THEN Tail(cache) ELSE cache
<1>1. kept \in Seq(S) /\ Len(kept) <= MaxBlobs - 1
  <2>1. CASE Len(cache) >= MaxBlobs
    <3>1. cache # <<>>
      BY <2>1
    <3> QED BY <2>1, <3>1
  <2>2. CASE ~(Len(cache) >= MaxBlobs)
    BY <2>2
  <2> QED BY <2>1, <2>2
<1> HIDE DEF kept
<1>2. /\ (IF InCache(kept, b) THEN kept ELSE Append(kept, b)) \in Seq(S)
      /\ Len(IF InCache(kept, b) THEN kept ELSE Append(kept, b)) <= MaxBlobs
  <2>1. CASE InCache(kept, b)
    BY <1>1, <2>1
  <2>2. CASE ~InCache(kept, b)
    BY <1>1, <2>2
  <2> QED BY <2>1, <2>2
<1> QED BY <1>2 DEF cache_set, kept

-----------------------------------------------------------------------------
(* Types *)

\* Whatever loads lose their promise, they are still loads.
LEMMA UnpublishedType ==
  ASSUME TypeOK, NEW S \in SUBSET {v \in Viewers : request[v] # IdleRequest}
  PROVE  unpublished(S) \in [Viewers -> {IdleRequest} \union Loading \union Found]
<1>1. \A v \in S : [request[v] EXCEPT !.published = FALSE] \in Loading \union Found
  <2> SUFFICES ASSUME NEW v \in S
               PROVE  [request[v] EXCEPT !.published = FALSE] \in Loading \union Found
    OBVIOUS
  <2>1. request[v] \in Loading \/ request[v] \in Found
    BY DEF TypeOK
  <2> QED BY <2>1 DEF Loading, Found
<1> QED BY <1>1 DEF unpublished, TypeOK

LEMMA Reading ==
  reading \in SUBSET {v \in Viewers : request[v] # IdleRequest}
  BY DEF reading, IdleRequest

LEMMA Finding ==
  ASSUME NEW b
  PROVE  finding(b) \in SUBSET {v \in Viewers : request[v] # IdleRequest}
  BY DEF finding, IdleRequest

LEMMA TypeStep ==
  ASSUME TypeOK, [Next]_vars
  PROVE  TypeOK'
<1> USE DEF TypeOK
<1>1. ASSUME NEW v \in Viewers, OpenStatusPage(v)
      PROVE  TypeOK'
  BY <1>1 DEF OpenStatusPage, store, caches, OptionalBundle
<1>2. CASE OnMeetContext
  BY <1>2 DEF OnMeetContext, caches
<1>3. ASSUME NEW w \in Workers, NEW b \in Bundles, OnTemplatePush(w, b)
      PROVE  TypeOK'
  <2>1. [step |-> "current", worker |-> w, bundle |-> b] \in Pushing
    BY DEF Pushing
  <2> QED BY <1>3, <2>1 DEF OnTemplatePush, caches
<1>4. ASSUME NEW w \in Workers, OnMeetClose(w)
      PROVE  TypeOK'
  <2>1. [step |-> "delete", worker |-> w] \in Closing
    BY DEF Closing
  <2> QED BY <1>4, <2>1 DEF OnMeetClose, store, caches
<1>5. ASSUME NEW t \in tasks, PutCurrent(t)
      PROVE  TypeOK'
  <2>1. t \in Pushing
    BY <1>5 DEF PutCurrent, Closing
  <2>2. [t EXCEPT !.step = "refresh"] \in Pushing /\ t.bundle \in OptionalBundle
    BY <2>1 DEF Pushing, OptionalBundle
  <2>3. request' \in [Viewers -> {IdleRequest} \union Loading \union Found]
    BY <1>5, Reading, UnpublishedType DEF PutCurrent
  <2> QED BY <1>5, <2>2, <2>3 DEF PutCurrent, caches
<1>6. ASSUME NEW t \in tasks, RefreshCaches(t)
      PROVE  TypeOK'
  <2>1. t.worker \in Workers /\ t.bundle \in Bundles
    BY <1>6 DEF RefreshCaches, Pushing, Closing
  <2>2. /\ cache_set(template_blob_cache[t.worker], t.bundle) \in Seq(Bundles)
        /\ Len(cache_set(template_blob_cache[t.worker], t.bundle)) <= MaxBlobs
    BY <2>1, CacheSet
  <2>3. template_blob_cache' =
          [template_blob_cache EXCEPT ![t.worker] =
             cache_set(template_blob_cache[t.worker], t.bundle)]
    BY <1>6 DEF RefreshCaches
  <2>4. template_blob_cache' \in [Workers -> Seq(Bundles)]
        /\ \A w \in Workers : Len(template_blob_cache'[w]) <= MaxBlobs
    BY <2>1, <2>2, <2>3
  <2>5. current_template_cache' \in [Workers -> OptionalBundle]
    BY <1>6, <2>1 DEF RefreshCaches, OptionalBundle
  <2> QED BY <1>6, <2>4, <2>5 DEF RefreshCaches, store
<1>7. ASSUME NEW t \in tasks, DeleteHotState(t)
      PROVE  TypeOK'
  <2>1. t \in Closing
    BY <1>7 DEF DeleteHotState, Pushing
  <2>2. [t EXCEPT !.step = "evict"] \in Closing
    BY <2>1 DEF Closing
  <2>4. request' \in [Viewers -> {IdleRequest} \union Loading \union Found]
    BY <1>7, Reading, UnpublishedType DEF DeleteHotState
  <2> QED BY <1>7, <2>2, <2>4 DEF DeleteHotState, caches, OptionalBundle
<1>8. ASSUME NEW t \in tasks, EvictMeet(t)
      PROVE  TypeOK'
  <2>1. <<>> \in Seq(Bundles) /\ Len(<<>>) <= MaxBlobs
    BY BoundsAssumption
  <2>2. template_blob_cache' \in [Workers -> Seq(Bundles)]
        /\ \A w \in Workers : Len(template_blob_cache'[w]) <= MaxBlobs
    BY <1>8, <2>1 DEF EvictMeet
  <2>3. current_template_cache' \in [Workers -> OptionalBundle]
    BY <1>8 DEF EvictMeet, OptionalBundle
  <2> QED BY <1>8, <2>2, <2>3 DEF EvictMeet, store
<1>9. ASSUME NEW v \in Viewers, NEW w \in Workers, OpenPage(v, w)
      PROVE  TypeOK'
  <2> DEFINE cached == current_template_cache[w]
             published == current \in blobs /\ context
             load == IF cached # NoBundle THEN found(cached, published)
                     ELSE [step |-> "reading", worker |-> w, bundle |-> NoBundle,
                           published |-> published]
  <2>1. load \in Loading \union Found
    BY DEF Loading, Found, found, OptionalBundle
  <2>2. request' = [request EXCEPT ![v] = load]
    BY <1>9 DEF OpenPage
  <2> HIDE DEF load
  <2>3. request' \in [Viewers -> {IdleRequest} \union Loading \union Found]
    BY <2>1, <2>2
  <2> QED BY <1>9, <2>3 DEF OpenPage, store, caches
<1>10. ASSUME NEW v \in Viewers, ReadCurrent(v)
       PROVE  TypeOK'
  <2>1. request[v] \in Loading
    BY <1>10 DEF ReadCurrent, IdleRequest, Found
  <2> DEFINE read == IF current = NoBundle THEN found(NoBundle, request[v].published)
                     ELSE [request[v] EXCEPT !.bundle = current, !.step = "filling"]
  <2>2. read \in Loading \union Found
    BY <2>1 DEF Loading, Found, found, OptionalBundle
  <2>3. request' = [request EXCEPT ![v] = read]
    BY <1>10 DEF ReadCurrent
  <2> HIDE DEF read
  <2>4. request' \in [Viewers -> {IdleRequest} \union Loading \union Found]
    BY <2>2, <2>3
  <2> QED BY <1>10, <2>4 DEF ReadCurrent, store, caches
<1>11. ASSUME NEW v \in Viewers, FillTemplate(v)
       PROVE  TypeOK'
  <2> DEFINE w == request[v].worker
             b == request[v].bundle
  <2>1. request[v] \in Loading
    BY <1>11 DEF FillTemplate, IdleRequest, Found
  <2>2. w \in Workers /\ b \in OptionalBundle
    BY <2>1 DEF Loading
  <2>3. CASE bundle_found(w, b)
    <3>1. b \in Bundles
      BY <2>2, <2>3 DEF bundle_found, InCache
    <3>2. cache_set(template_blob_cache[w], b) \in Seq(Bundles)
          /\ Len(cache_set(template_blob_cache[w], b)) <= MaxBlobs
      BY <2>2, <3>1, CacheSet
    <3>3. template_blob_cache' = template_blob_cache
          \/ template_blob_cache' =
               [template_blob_cache EXCEPT ![w] = cache_set(template_blob_cache[w], b)]
      BY <1>11, <2>3 DEF FillTemplate
    <3>4. current_template_cache' = [current_template_cache EXCEPT ![w] = b]
          /\ request' = [request EXCEPT ![v] = found(b, request[v].published)]
      BY <1>11, <2>3 DEF FillTemplate
    <3>5. found(b, request[v].published) \in Found
      BY <2>1, <2>2 DEF Loading, Found, found
    <3> HIDE DEF w, b
    <3>6. template_blob_cache' \in [Workers -> Seq(Bundles)]
          /\ \A x \in Workers : Len(template_blob_cache'[x]) <= MaxBlobs
      BY <2>2, <3>2, <3>3
    <3>7. current_template_cache' \in [Workers -> OptionalBundle]
          /\ request' \in [Viewers -> {IdleRequest} \union Loading \union Found]
      BY <2>2, <3>4, <3>5
    <3> QED BY <1>11, <3>6, <3>7 DEF FillTemplate, store
  <2>4. CASE ~bundle_found(w, b)
    <3>1. found(NoBundle, request[v].published) \in Found
      BY <2>1 DEF Loading, Found, found, OptionalBundle
    <3>2. request' = [request EXCEPT ![v] = found(NoBundle, request[v].published)]
          /\ UNCHANGED caches
      BY <1>11, <2>4 DEF FillTemplate
    <3>3. request' \in [Viewers -> {IdleRequest} \union Loading \union Found]
      BY <3>1, <3>2
    <3> QED BY <1>11, <3>2, <3>3 DEF FillTemplate, store, caches
  <2> QED BY <2>3, <2>4
<1>12. ASSUME NEW v \in Viewers, ShowPage(v)
       PROVE  TypeOK'
  <2>1. request[v] \in Found
    BY <1>12 DEF ShowPage, IdleRequest, Loading
  <2>2. (IF context THEN request[v].bundle ELSE NoBundle) \in OptionalBundle
    BY <2>1 DEF Found, OptionalBundle
  <2>3. page' \in [Viewers -> OptionalBundle]
    BY <1>12, <2>2 DEF ShowPage
  <2>4. request' \in [Viewers -> {IdleRequest} \union Loading \union Found]
    BY <1>12 DEF ShowPage
  <2> QED BY <1>12, <2>3, <2>4 DEF ShowPage, store, caches
<1>13. ASSUME NEW v \in Viewers, NEW w \in Workers, GetAsset(v, w)
       PROVE  TypeOK'
  <2>1. page[v] \in Bundles
    BY <1>13 DEF GetAsset, OptionalBundle
  <2>2. cache_set(template_blob_cache[w], page[v]) \in Seq(Bundles)
        /\ Len(cache_set(template_blob_cache[w], page[v])) <= MaxBlobs
    BY <2>1, CacheSet
  <2>3. template_blob_cache' =
          [template_blob_cache EXCEPT ![w] = cache_set(template_blob_cache[w], page[v])]
    BY <1>13 DEF GetAsset
  <2>4. template_blob_cache' \in [Workers -> Seq(Bundles)]
        /\ \A x \in Workers : Len(template_blob_cache'[x]) <= MaxBlobs
    BY <2>2, <2>3
  <2> QED BY <1>13, <2>4 DEF GetAsset, store
<1>14. ASSUME NEW w \in Workers, ExpireCurrent(w)
       PROVE  TypeOK'
  <2>1. current_template_cache' \in [Workers -> OptionalBundle]
    BY <1>14 DEF ExpireCurrent, OptionalBundle
  <2> QED BY <1>14, <2>1 DEF ExpireCurrent, store
<1>15. ASSUME NEW b \in Lapsing, LapseBundle(b)
       PROVE  TypeOK'
  <2>1. finding(b) \in SUBSET {v \in Viewers : request[v] # IdleRequest}
    BY Finding
  <2>2. request' = unpublished(finding(b))
    BY <1>15 DEF LapseBundle
  <2>3. request' \in [Viewers -> {IdleRequest} \union Loading \union Found]
    BY <2>1, <2>2, UnpublishedType
  <2> QED BY <1>15, <2>3, LapsingAssumption DEF LapseBundle, caches
<1>16. CASE LapseCurrent
  <2>1. request' \in [Viewers -> {IdleRequest} \union Loading \union Found]
    BY <1>16, Reading, UnpublishedType DEF LapseCurrent
  <2> QED BY <1>16, <2>1 DEF LapseCurrent, caches, OptionalBundle
<1>17. CASE UNCHANGED vars
  BY <1>17 DEF vars
<1> QED BY <1>1, <1>2, <1>3, <1>4, <1>5, <1>6, <1>7, <1>8, <1>9, <1>10, <1>11, <1>12,
           <1>13, <1>14, <1>15, <1>16, <1>17 DEF Next, TaskSteps, LoadSteps

\* The caches stay within their bound, and everything is of its type.
THEOREM TypeCorrect == Spec => []TypeOK
<1>1. Init => TypeOK
  <2> SUFFICES ASSUME Init PROVE TypeOK
    OBVIOUS
  <2>1. <<>> \in Seq(Bundles) /\ Len(<<>>) <= MaxBlobs
    BY BoundsAssumption
  <2>2. template_blob_cache \in [Workers -> Seq(Bundles)]
        /\ \A w \in Workers : Len(template_blob_cache[w]) <= MaxBlobs
    BY <2>1 DEF Init
  <2>3. /\ current_template_cache \in [Workers -> OptionalBundle]
        /\ request \in [Viewers -> {IdleRequest} \union Loading \union Found]
        /\ page \in [Viewers -> OptionalBundle]
    BY DEF Init, OptionalBundle
  <2> QED BY <2>2, <2>3 DEF Init, TypeOK, OptionalBundle
<1> QED BY <1>1, TypeStep, PTL DEF Spec

-----------------------------------------------------------------------------
(* No name without its bundle *)

\* The bundles that are stored, or were and had their day.
StoredOnce == blobs \union lapsed

\* What a push is about to name, it has stored.
PushesAreStored == \A t \in tasks : t \in Pushing => t.bundle \in StoredOnce

StoredInv == NamedBundlesAreStored /\ PushesAreStored

AllIn(cache, S) == \A i \in 1 .. Len(cache) : cache[i] \in S

LEMMA CacheSetFrom ==
  ASSUME NEW S, NEW cache \in Seq(S), NEW T, AllIn(cache, T), NEW b \in T
  PROVE  AllIn(cache_set(cache, b), T)
<1> USE BoundsAssumption
<1> DEFINE kept == IF Len(cache) >= MaxBlobs THEN Tail(cache) ELSE cache
<1>1. kept \in Seq(S) /\ AllIn(kept, T)
  <2>1. CASE Len(cache) >= MaxBlobs
    <3>1. cache # <<>>
      BY <2>1
    <3>2. Tail(cache) \in Seq(S) /\ Len(Tail(cache)) = Len(cache) - 1
      BY <3>1
    <3>3. \A i \in 1 .. Len(Tail(cache)) : Tail(cache)[i] = cache[i + 1]
      BY <3>1, <3>2
    <3>4. \A i \in 1 .. Len(Tail(cache)) : i + 1 \in 1 .. Len(cache)
      BY <3>1, <3>2
    <3> QED BY <2>1, <3>2, <3>3, <3>4 DEF AllIn
  <2>2. CASE ~(Len(cache) >= MaxBlobs)
    BY <2>2
  <2> QED BY <2>1, <2>2
<1> HIDE DEF kept
<1>2. AllIn(IF InCache(kept, b) THEN kept ELSE Append(kept, b), T)
  <2>1. CASE InCache(kept, b)
    BY <1>1, <2>1
  <2>2. CASE ~InCache(kept, b)
    <3>1. Len(Append(kept, b)) = Len(kept) + 1
      BY <1>1
    <3>2. \A i \in 1 .. Len(kept) : Append(kept, b)[i] = kept[i]
      BY <1>1
    <3>3. Append(kept, b)[Len(kept) + 1] = b
      BY <1>1
    <3>4. Len(kept) \in Nat
      BY <1>1
    <3>5. \A i \in 1 .. Len(kept) + 1 : i \in 1 .. Len(kept) \/ i = Len(kept) + 1
      BY <3>4
    <3>6. AllIn(Append(kept, b), T)
      BY <1>1, <3>1, <3>2, <3>3, <3>5 DEF AllIn
    <3> QED BY <2>2, <3>6
  <2> QED BY <2>1, <2>2
<1> QED BY <1>2 DEF cache_set, kept

LEMMA StoredInit == Init => StoredInv
  BY DEF Init, StoredInv, NamedBundlesAreStored, PushesAreStored

\* What loses its promise names what it named.
LEMMA UnpublishedNames ==
  ASSUME TypeOK, NEW S \in SUBSET {v \in Viewers : request[v] # IdleRequest},
         NEW v \in Viewers, unpublished(S)[v] # IdleRequest
  PROVE  request[v] # IdleRequest /\ unpublished(S)[v].bundle = request[v].bundle
<1>1. CASE v \in S
  <2>1. request[v] \in Loading \/ request[v] \in Found
    BY <1>1 DEF TypeOK
  <2> QED BY <1>1, <2>1 DEF unpublished, Loading, Found
<1>2. CASE v \notin S
  BY <1>2 DEF unpublished
<1> QED BY <1>1, <1>2

\* A bundle leaves the store only when its day has passed.
LEMMA StoredStep ==
  ASSUME TypeOK, StoredInv, [Next]_vars
  PROVE  StoredInv'
<1> USE DEF TypeOK, StoredInv, NamedBundlesAreStored, PushesAreStored, StoredOnce
<1>1. ASSUME NEW v \in Viewers, OpenStatusPage(v)
      PROVE  StoredInv'
  BY <1>1 DEF OpenStatusPage, store, caches
<1>2. CASE OnMeetContext
  BY <1>2 DEF OnMeetContext, caches
<1>3. ASSUME NEW w \in Workers, NEW b \in Bundles, OnTemplatePush(w, b)
      PROVE  StoredInv'
  <2>1. StoredOnce \subseteq StoredOnce' /\ b \in StoredOnce'
    BY <1>3 DEF OnTemplatePush
  <2>2. PushesAreStored'
    BY <1>3, <2>1 DEF OnTemplatePush
  <2> QED BY <1>3, <2>1, <2>2 DEF OnTemplatePush, caches
<1>4. ASSUME NEW w \in Workers, OnMeetClose(w)
      PROVE  StoredInv'
  <2>1. [step |-> "delete", worker |-> w] \notin Pushing
    BY DEF Pushing
  <2> QED BY <1>4, <2>1 DEF OnMeetClose, store, caches
<1>5. ASSUME NEW t \in tasks, PutCurrent(t)
      PROVE  StoredInv'
  <2>1. t \in Pushing
    BY <1>5 DEF PutCurrent, Closing
  <2>2. t.bundle \in StoredOnce /\ [t EXCEPT !.step = "refresh"].bundle = t.bundle
    BY <2>1 DEF Pushing
  <2>3. \A v \in Viewers :
          request'[v] # IdleRequest => request'[v].bundle \in StoredOnce \union {NoBundle}
    BY <1>5, Reading, UnpublishedNames DEF PutCurrent
  <2> QED BY <1>5, <2>2, <2>3 DEF PutCurrent, caches
<1>6. ASSUME NEW t \in tasks, RefreshCaches(t)
      PROVE  StoredInv'
  <2>1. t \in Pushing
    BY <1>6 DEF RefreshCaches, Closing
  <2>2. t.worker \in Workers /\ t.bundle \in StoredOnce
    BY <2>1 DEF Pushing
  <2>3. AllIn(cache_set(template_blob_cache[t.worker], t.bundle), StoredOnce)
    BY <2>2, CacheSetFrom DEF AllIn
  <2>4. \A w \in Workers : AllIn(template_blob_cache'[w], StoredOnce)
    BY <1>6, <2>2, <2>3 DEF RefreshCaches, AllIn
  <2>5. \A w \in Workers : current_template_cache'[w] \in StoredOnce \union {NoBundle}
    BY <1>6, <2>2 DEF RefreshCaches
  <2> QED BY <1>6, <2>4, <2>5 DEF RefreshCaches, store, AllIn
<1>7. ASSUME NEW t \in tasks, DeleteHotState(t)
      PROVE  StoredInv'
  <2>1. t \in Closing
    BY <1>7 DEF DeleteHotState, Pushing
  <2>2. [t EXCEPT !.step = "evict"] \notin Pushing
    BY <2>1 DEF Closing, Pushing
  <2>4. \A v \in Viewers :
          request'[v] # IdleRequest => request'[v].bundle \in StoredOnce \union {NoBundle}
    BY <1>7, Reading, UnpublishedNames DEF DeleteHotState
  <2>5. PushesAreStored'
    BY <1>7, <2>2 DEF DeleteHotState
  <2> QED BY <1>7, <2>4, <2>5 DEF DeleteHotState, caches
<1>8. ASSUME NEW t \in tasks, EvictMeet(t)
      PROVE  StoredInv'
  BY <1>8 DEF EvictMeet, store
<1>9. ASSUME NEW v \in Viewers, NEW w \in Workers, OpenPage(v, w)
      PROVE  StoredInv'
  <2>1. request'[v].bundle = current_template_cache[w]
    BY <1>9 DEF OpenPage, found
  <2>2. \A u \in Viewers \ {v} : request'[u] = request[u]
    BY <1>9 DEF OpenPage
  <2> QED BY <1>9, <2>1, <2>2 DEF OpenPage, store, caches
<1>10. ASSUME NEW v \in Viewers, ReadCurrent(v)
       PROVE  StoredInv'
  <2>1. request[v] \in Loading
    BY <1>10 DEF ReadCurrent, IdleRequest, Found
  <2>2. request'[v].bundle = current
    BY <1>10, <2>1 DEF ReadCurrent, found, Loading
  <2>3. \A u \in Viewers \ {v} : request'[u] = request[u]
    BY <1>10 DEF ReadCurrent
  <2> QED BY <1>10, <2>2, <2>3 DEF ReadCurrent, store, caches
<1>11. ASSUME NEW v \in Viewers, FillTemplate(v)
       PROVE  StoredInv'
  <2> DEFINE w == request[v].worker
             b == request[v].bundle
  <2>1. request[v] \in Loading
    BY <1>11 DEF FillTemplate, IdleRequest, Found
  <2>2. w \in Workers
    BY <2>1 DEF Loading
  <2>3. CASE bundle_found(w, b)
    <3>1. b \in StoredOnce
      BY <2>2, <2>3 DEF bundle_found, InCache
    <3>2. AllIn(cache_set(template_blob_cache[w], b), StoredOnce)
      BY <2>2, <3>1, CacheSetFrom DEF AllIn
    <3>3. template_blob_cache' = template_blob_cache
          \/ template_blob_cache' =
               [template_blob_cache EXCEPT ![w] = cache_set(template_blob_cache[w], b)]
      BY <1>11, <2>3 DEF FillTemplate
    <3>4. current_template_cache' = [current_template_cache EXCEPT ![w] = b]
          /\ request' = [request EXCEPT ![v] = found(b, request[v].published)]
      BY <1>11, <2>3 DEF FillTemplate
    <3>5. found(b, request[v].published).bundle = b
      BY DEF found
    <3> HIDE DEF w, b
    <3>6. \A x \in Workers : AllIn(template_blob_cache'[x], StoredOnce)
      BY <2>2, <3>2, <3>3 DEF AllIn
    <3>7. \A x \in Workers : current_template_cache'[x] \in StoredOnce \union {NoBundle}
      BY <2>2, <3>1, <3>4
    <3>8. \A x \in Viewers :
            request'[x] # IdleRequest => request'[x].bundle \in StoredOnce \union {NoBundle}
      BY <3>1, <3>4, <3>5
    <3> QED BY <1>11, <3>6, <3>7, <3>8 DEF FillTemplate, store, AllIn
  <2>4. CASE ~bundle_found(w, b)
    <3>1. found(NoBundle, request[v].published).bundle = NoBundle
      BY DEF found
    <3>2. request' = [request EXCEPT ![v] = found(NoBundle, request[v].published)]
          /\ UNCHANGED caches
      BY <1>11, <2>4 DEF FillTemplate
    <3> QED BY <1>11, <3>1, <3>2 DEF FillTemplate, store, caches
  <2> QED BY <2>3, <2>4
<1>12. ASSUME NEW v \in Viewers, ShowPage(v)
       PROVE  StoredInv'
  BY <1>12 DEF ShowPage, store, caches, IdleRequest
<1>13. ASSUME NEW v \in Viewers, NEW w \in Workers, GetAsset(v, w)
       PROVE  StoredInv'
  <2>1. AllIn(cache_set(template_blob_cache[w], page[v]), StoredOnce)
    BY <1>13, CacheSetFrom DEF GetAsset, AllIn
  <2>2. \A x \in Workers : AllIn(template_blob_cache'[x], StoredOnce)
    BY <1>13, <2>1 DEF GetAsset, AllIn
  <2> QED BY <1>13, <2>2 DEF GetAsset, store, AllIn
<1>14. ASSUME NEW w \in Workers, ExpireCurrent(w)
       PROVE  StoredInv'
  BY <1>14 DEF ExpireCurrent, store
<1>15. ASSUME NEW b \in Lapsing, LapseBundle(b)
       PROVE  StoredInv'
  <2>1. finding(b) \in SUBSET {v \in Viewers : request[v] # IdleRequest}
    BY Finding
  <2>2. request' = unpublished(finding(b))
    BY <1>15 DEF LapseBundle
  <2>3. \A v \in Viewers :
          request'[v] # IdleRequest => request'[v].bundle \in StoredOnce \union {NoBundle}
    BY <2>1, <2>2, UnpublishedNames
  <2>4. StoredOnce' = StoredOnce
    BY <1>15 DEF LapseBundle
  <2> QED BY <1>15, <2>3, <2>4 DEF LapseBundle, caches
<1>16. CASE LapseCurrent
  <2>1. \A v \in Viewers :
          request'[v] # IdleRequest => request'[v].bundle \in StoredOnce \union {NoBundle}
    BY <1>16, Reading, UnpublishedNames DEF LapseCurrent
  <2> QED BY <1>16, <2>1 DEF LapseCurrent, caches
<1>17. CASE UNCHANGED vars
  BY <1>17 DEF vars
<1> QED BY <1>1, <1>2, <1>3, <1>4, <1>5, <1>6, <1>7, <1>8, <1>9, <1>10, <1>11, <1>12,
           <1>13, <1>14, <1>15, <1>16, <1>17 DEF Next, TaskSteps, LoadSteps

\* Every bundle that is named, by the store, a cache, a page load or a page, was
\* stored, and is there unless its own day has passed: no push, close, load or
\* full cache takes it away.
THEOREM BundlesAreStored == Spec => []NamedBundlesAreStored
<1>1. Spec => []StoredInv
  BY TypeCorrect, StoredInit, StoredStep, PTL DEF Spec
<1>2. StoredInv => NamedBundlesAreStored
  BY DEF StoredInv
<1> QED BY <1>1, <1>2, PTL

-----------------------------------------------------------------------------
(* A published meet is shown *)

\* A load of a published page finds, or has found, what it needs.
PublishedStays ==
  \A v \in Viewers :
    request[v] # IdleRequest /\ request[v].published =>
      /\ context
      /\ request[v].step = "reading" => current \in blobs
      /\ request[v].step = "filling" => request[v].bundle \in blobs
      /\ request[v].step = "found" => request[v].bundle # NoBundle

PublishedPage ==
  \A v \in Viewers :
    request[v] # IdleRequest /\ request[v].published /\ request'[v] = IdleRequest
      => page'[v] # NoBundle

\* A load that loses its promise has none; the others are as they were.
LEMMA UnpublishedLoads ==
  ASSUME TypeOK, NEW S \in SUBSET {v \in Viewers : request[v] # IdleRequest},
         NEW v \in Viewers
  PROVE  /\ v \in S => unpublished(S)[v] # IdleRequest /\ ~unpublished(S)[v].published
         /\ v \notin S => unpublished(S)[v] = request[v]
<1>1. CASE v \in S
  <2>1. request[v] \in Loading \/ request[v] \in Found
    BY <1>1 DEF TypeOK
  <2>2. [request[v] EXCEPT !.published = FALSE].step # "idle"
        /\ ~[request[v] EXCEPT !.published = FALSE].published
    BY <2>1 DEF Loading, Found
  <2> QED BY <1>1, <2>2 DEF unpublished, IdleRequest
<1>2. CASE v \notin S
  BY <1>2 DEF unpublished
<1> QED BY <1>1, <1>2

\* A load whose next read finds nothing has lost its promise.
LEMMA PublishedStep ==
  ASSUME TypeOK, StoredInv, PublishedStays, [Next]_vars
  PROVE  PublishedStays' /\ PublishedPage
<1> USE DEF TypeOK, PublishedStays, PublishedPage
<1>0. NoBundle \notin blobs
  BY NoBundleAssumption
<1>1. ASSUME UNCHANGED <<request, current, context>>, blobs \subseteq blobs'
      PROVE  PublishedStays' /\ PublishedPage
  BY <1>1
<1>2. CASE OnMeetContext
  BY <1>2 DEF OnMeetContext, caches
<1>3. ASSUME NEW t \in tasks, PutCurrent(t)
      PROVE  PublishedStays' /\ PublishedPage
  <2>1. t \in Pushing
    BY <1>3 DEF PutCurrent, Closing
  <2>2. t.bundle \in blobs \union lapsed
    BY <2>1 DEF StoredInv, PushesAreStored, StoredOnce
  <2>3. current' = t.bundle /\ UNCHANGED <<context, blobs>>
    BY <1>3 DEF PutCurrent
  <2>4. CASE t.bundle \in lapsed
    <3>1. request' = unpublished(reading)
      BY <1>3, <2>4 DEF PutCurrent
    <3>2. \A v \in Viewers :
            \/ request'[v] # IdleRequest /\ ~request'[v].published
            \/ request'[v] = request[v] /\ request[v].step # "reading"
      BY <3>1, Reading, UnpublishedLoads DEF reading
    <3> QED BY <2>3, <3>2
  <2>5. CASE t.bundle \notin lapsed
    <3>1. UNCHANGED request
      BY <1>3, <2>5 DEF PutCurrent
    <3> QED BY <2>2, <2>3, <2>5, <3>1
  <2> QED BY <2>4, <2>5
<1>4. ASSUME UNCHANGED <<context, blobs>>, request' = unpublished(reading)
      PROVE  PublishedStays' /\ PublishedPage
  <2>1. \A v \in Viewers :
          \/ request'[v] # IdleRequest /\ ~request'[v].published
          \/ request'[v] = request[v] /\ request[v].step # "reading"
    BY <1>4, Reading, UnpublishedLoads DEF reading
  <2> QED BY <1>4, <2>1
<1>5. ASSUME NEW v \in Viewers, NEW w \in Workers, OpenPage(v, w)
      PROVE  PublishedStays' /\ PublishedPage
  <2>1. UNCHANGED <<current, context, blobs>>
    BY <1>5 DEF OpenPage, store
  <2> DEFINE cached == current_template_cache[w]
             published == current \in blobs /\ context
             load == IF cached # NoBundle THEN found(cached, published)
                     ELSE [step |-> "reading", worker |-> w, bundle |-> NoBundle,
                           published |-> published]
  <2>2. request' = [request EXCEPT ![v] = load]
    BY <1>5 DEF OpenPage
  <2>3. load # IdleRequest
    <3>1. load.step # "idle"
      BY DEF found
    <3> QED BY <3>1 DEF IdleRequest
  <2>4. load.published =>
          /\ context /\ current \in blobs
          /\ load.step = "reading" \/ (load.step = "found" /\ load.bundle # NoBundle)
    BY DEF found
  <2> HIDE DEF load
  <2> QED BY <2>1, <2>2, <2>3, <2>4
<1>6. ASSUME NEW v \in Viewers, ReadCurrent(v)
      PROVE  PublishedStays' /\ PublishedPage
  <2>1. request[v] \in Loading /\ request[v] # IdleRequest /\ request[v].step = "reading"
    BY <1>6 DEF ReadCurrent, IdleRequest, Found
  <2> DEFINE read == IF current = NoBundle THEN found(NoBundle, request[v].published)
                     ELSE [request[v] EXCEPT !.bundle = current, !.step = "filling"]
  <2>2. request' = [request EXCEPT ![v] = read] /\ UNCHANGED <<current, context, blobs>>
    BY <1>6 DEF ReadCurrent, store
  <2>3. /\ read.published = request[v].published
        /\ read.step \in {"filling", "found"}
        /\ current # NoBundle => read.step = "filling" /\ read.bundle = current
    BY <2>1 DEF Loading, found
  <2>4. read # IdleRequest
    <3>1. read.step # "idle"
      BY <2>3
    <3> HIDE DEF read
    <3> QED BY <3>1 DEF IdleRequest
  <2> HIDE DEF read
  <2>5. read.published => read.step = "filling" /\ read.bundle \in blobs
    BY <1>0, <2>1, <2>3
  <2> QED BY <2>1, <2>2, <2>3, <2>4, <2>5
<1>7. ASSUME NEW v \in Viewers, FillTemplate(v)
      PROVE  PublishedStays' /\ PublishedPage
  <2> DEFINE b == IF bundle_found(request[v].worker, request[v].bundle)
                  THEN request[v].bundle ELSE NoBundle
             filled == found(b, request[v].published)
  <2>1. request[v] # IdleRequest /\ request[v].step = "filling"
    BY <1>7 DEF FillTemplate, IdleRequest
  <2>2. request' = [request EXCEPT ![v] = filled] /\ UNCHANGED <<current, context, blobs>>
    BY <1>7 DEF FillTemplate, store
  <2>3. request[v].published => b # NoBundle
    BY <1>0, <2>1 DEF bundle_found
  <2>4. filled.published = request[v].published /\ filled.step = "found" /\ filled.bundle = b
    BY DEF found
  <2>5. filled # IdleRequest
    BY <2>4 DEF IdleRequest
  <2> HIDE DEF filled, b
  <2> QED BY <2>1, <2>2, <2>3, <2>4, <2>5
<1>8. ASSUME NEW v \in Viewers, ShowPage(v)
      PROVE  PublishedStays' /\ PublishedPage
  <2>1. request[v] # IdleRequest /\ request[v].step = "found"
    BY <1>8 DEF ShowPage, IdleRequest
  <2>2. request' = [request EXCEPT ![v] = IdleRequest] /\ UNCHANGED <<current, context, blobs>>
    BY <1>8 DEF ShowPage, store
  <2>3. page' = [page EXCEPT ![v] = IF context THEN request[v].bundle ELSE NoBundle]
    BY <1>8 DEF ShowPage
  <2> QED BY <2>1, <2>2, <2>3
<1>9. ASSUME NEW b \in Lapsing, LapseBundle(b)
      PROVE  PublishedStays' /\ PublishedPage
  <2>1. finding(b) \in SUBSET {v \in Viewers : request[v] # IdleRequest}
    BY Finding
  <2>2. request' = unpublished(finding(b)) /\ blobs' = blobs \ {b} /\ UNCHANGED <<current, context>>
    BY <1>9 DEF LapseBundle
  <2>3. \A v \in Viewers \ finding(b) :
          /\ request[v].step = "reading" => current # b
          /\ request[v].step = "filling" => request[v].bundle # b
    BY DEF finding
  <2>4. \A v \in Viewers :
          \/ request'[v] # IdleRequest /\ ~request'[v].published
          \/ request'[v] = request[v] /\ v \notin finding(b)
    BY <2>1, <2>2, UnpublishedLoads
  <2> QED BY <2>2, <2>3, <2>4
<1>10. ASSUME NEW w \in Workers,
              (\E b \in Bundles : OnTemplatePush(w, b)) \/ OnMeetClose(w)
       PROVE  PublishedStays' /\ PublishedPage
  BY <1>1, <1>10 DEF OnTemplatePush, OnMeetClose, store
<1>11. ASSUME NEW t \in tasks, RefreshCaches(t) \/ EvictMeet(t)
       PROVE  PublishedStays' /\ PublishedPage
  BY <1>1, <1>11 DEF RefreshCaches, EvictMeet, store
<1>12. ASSUME NEW w \in Workers, ExpireCurrent(w) \/ \E v \in Viewers : GetAsset(v, w)
       PROVE  PublishedStays' /\ PublishedPage
  BY <1>1, <1>12 DEF ExpireCurrent, GetAsset, store
<1>13. ASSUME NEW v \in Viewers, OpenStatusPage(v)
       PROVE  PublishedStays' /\ PublishedPage
  BY <1>1, <1>13 DEF OpenStatusPage, store
<1>14. ASSUME NEW t \in tasks, DeleteHotState(t)
       PROVE  PublishedStays' /\ PublishedPage
  BY <1>4, <1>14 DEF DeleteHotState
<1>15. CASE LapseCurrent
  BY <1>4, <1>15 DEF LapseCurrent
<1>16. CASE UNCHANGED vars
  BY <1>1, <1>16 DEF vars
<1> QED BY <1>2, <1>3, <1>5, <1>6, <1>7, <1>8, <1>9, <1>10, <1>11, <1>12, <1>13, <1>14,
           <1>15, <1>16 DEF Next, TaskSteps, LoadSteps

\* A page load that begins when the meet is published, and is not overtaken
\* by a close, shows the meet.
THEOREM PublishedIsShown == Spec => PublishedPageIsShown
<1>1. Spec => []StoredInv
  BY TypeCorrect, StoredInit, StoredStep, PTL DEF Spec
<1>2. Init => PublishedStays
  BY DEF Init, PublishedStays
<1>3. TypeOK /\ StoredInv /\ PublishedStays /\ [Next]_vars
        => PublishedStays' /\ [PublishedPage]_vars
  BY PublishedStep
<1>4. Spec => [][PublishedPage]_vars
  BY TypeCorrect, <1>1, <1>2, <1>3, PTL DEF Spec
<1> QED BY <1>4 DEF PublishedPageIsShown, PublishedPage

-----------------------------------------------------------------------------
(* Outdated templates *)

\* No push or close is under way, and what the caches and the page loads have
\* of the current template is right or nothing.
Settled ==
  /\ tasks = {}
  /\ \A w \in Workers : current_template_cache[w] \in {current, NoBundle}
  /\ \A v \in Viewers :
       request[v] # IdleRequest => request[v].bundle \in {current, NoBundle}

\* Once an outdated template is gone it only comes back with a push or a close,
\* and no page is made of one before, unless the day of its name has passed.
SettledStays ==
  [][Settled /\ tasks' = {} /\ current' = current =>
       /\ Settled'
       /\ \A v \in Viewers : page'[v] # page[v] => page'[v] \in {current, NoBundle}]_vars

\* The tasks of a step that begins and ends without any are those of none.
LEMMA SettledStep ==
  ASSUME TypeOK, Settled, Next, tasks' = {}, current' = current
  PROVE  /\ Settled'
         /\ \A v \in Viewers : page'[v] # page[v] => page'[v] \in {current, NoBundle}
<1> DEFINE Pages == \A v \in Viewers : page'[v] # page[v] => page'[v] \in {current, NoBundle}
<1> USE DEF Settled, TypeOK
<1>1. CASE OnMeetContext
  BY <1>1 DEF OnMeetContext, caches
<1>2. ASSUME NEW w \in Workers, (\E b \in Bundles : OnTemplatePush(w, b)) \/ OnMeetClose(w)
      PROVE  FALSE
  BY <1>2 DEF OnTemplatePush, OnMeetClose
<1>3. ASSUME NEW w \in Workers, ExpireCurrent(w)
      PROVE  Settled' /\ Pages
  BY <1>3 DEF ExpireCurrent, store
<1>4. ASSUME NEW v \in Viewers, NEW w \in Workers, GetAsset(v, w)
      PROVE  Settled' /\ Pages
  BY <1>4 DEF GetAsset, store
<1>5. ASSUME NEW v \in Viewers, NEW w \in Workers, OpenPage(v, w)
      PROVE  Settled' /\ Pages
  <2>1. UNCHANGED <<tasks, current, current_template_cache>>
    BY <1>5 DEF OpenPage, store, caches
  <2>2. request'[v].bundle = current_template_cache[w]
    BY <1>5 DEF OpenPage, found
  <2>3. \A u \in Viewers \ {v} : request'[u] = request[u]
    BY <1>5 DEF OpenPage
  <2>4. UNCHANGED page
    BY <1>5 DEF OpenPage
  <2> QED BY <2>1, <2>2, <2>3, <2>4
<1>6. ASSUME NEW v \in Viewers, ReadCurrent(v)
      PROVE  Settled' /\ Pages
  <2>1. request[v] \in Loading
    BY <1>6 DEF ReadCurrent, IdleRequest, Found
  <2>2. request'[v].bundle = current
    BY <1>6, <2>1 DEF ReadCurrent, Loading, found
  <2>3. \A u \in Viewers \ {v} : request'[u] = request[u]
    BY <1>6 DEF ReadCurrent
  <2> QED BY <1>6, <2>2, <2>3 DEF ReadCurrent, store, caches
<1>7. ASSUME NEW v \in Viewers, FillTemplate(v)
      PROVE  Settled' /\ Pages
  <2> DEFINE w == request[v].worker
             b == request[v].bundle
  <2>1. request[v] \in Loading /\ b \in {current, NoBundle}
    BY <1>7 DEF FillTemplate, IdleRequest, Found
  <2>2. request'[v].bundle \in {b, NoBundle}
    BY <1>7, <2>1 DEF FillTemplate, Loading, found
  <2>3. \A u \in Viewers \ {v} : request'[u] = request[u]
    BY <1>7 DEF FillTemplate
  <2>4. current_template_cache' \in {[current_template_cache EXCEPT ![w] = b], current_template_cache}
    BY <1>7 DEF FillTemplate, caches
  <2>5. \A u \in Workers : current_template_cache'[u] \in {current, NoBundle}
    BY <2>1, <2>4
  <2>6. UNCHANGED <<tasks, current, page>>
    BY <1>7 DEF FillTemplate, store
  <2> QED BY <2>1, <2>2, <2>3, <2>5, <2>6
<1>8. ASSUME NEW v \in Viewers, ShowPage(v)
      PROVE  Settled' /\ Pages
  <2>1. request[v] # IdleRequest
    BY <1>8 DEF ShowPage, IdleRequest
  <2>2. page'[v] \in {request[v].bundle, NoBundle} /\ \A u \in Viewers \ {v} : page'[u] = page[u]
    BY <1>8 DEF ShowPage
  <2>3. request' = [request EXCEPT ![v] = IdleRequest] /\ UNCHANGED <<tasks, current, current_template_cache>>
    BY <1>8 DEF ShowPage, store, caches
  <2> QED BY <2>1, <2>2, <2>3
<1>9. ASSUME NEW v \in Viewers, OpenStatusPage(v)
      PROVE  Settled' /\ Pages
  BY <1>9 DEF OpenStatusPage, store, caches
<1>10. ASSUME NEW b \in Lapsing, LapseBundle(b)
       PROVE  Settled' /\ Pages
  <2>1. finding(b) \in SUBSET {v \in Viewers : request[v] # IdleRequest}
    BY Finding
  <2>2. request' = unpublished(finding(b)) /\ UNCHANGED <<caches, page>>
    BY <1>10 DEF LapseBundle
  <2>3. \A v \in Viewers :
          request'[v] # IdleRequest => request'[v].bundle \in {current, NoBundle}
    BY <2>1, <2>2, UnpublishedNames
  <2> QED BY <2>2, <2>3 DEF caches
<1>11. CASE LapseCurrent
  BY <1>11 DEF LapseCurrent
<1> QED BY <1>1, <1>2, <1>3, <1>4, <1>5, <1>6, <1>7, <1>8, <1>9, <1>10, <1>11
        DEF Next, LoadSteps

\* A settled meet stays so, whatever the browsers do (SettledStays): the safety
\* half of CachesConverge.
THEOREM SettledIsKept == Spec => SettledStays
<1>1. TypeOK /\ [Next]_vars =>
        [Settled /\ tasks' = {} /\ current' = current =>
           /\ Settled'
           /\ \A v \in Viewers : page'[v] # page[v] => page'[v] \in {current, NoBundle}]_vars
  BY SettledStep
<1> QED BY <1>1, TypeCorrect, PTL DEF Spec, SettledStays
=============================================================================
