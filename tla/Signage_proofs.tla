---------------------------- MODULE Signage_proofs ----------------------------
(***************************************************************************)
(* Proofs about the message pages and the advertisements, for every form,  *)
(* every list and any number of edits, ticks, sign-ins and restarts: their *)
(* types, that each of them is a rotation in the sense of module Rotation, *)
(* and that a rotation stays alive.                                        *)
(***************************************************************************)
EXTENDS Signage, WellFoundedInduction, TLAPS

-----------------------------------------------------------------------------
(* The choice of an item *)

\* A set of numbers has a least one: the order is well-founded.
LEMMA LeastNumber ==
  ASSUME NEW S, S \subseteq Nat, S # {}
  PROVE  \E m \in S : \A n \in S : m <= n
<1> DEFINE less == OpToRel(<, Nat)
<1>1. IsWellFoundedOn(less, Nat)
  BY NatLessThanWellFounded
<1>2. \A x, y \in Nat : <<y, x>> \in less <=> y < x
  BY DEF OpToRel
<1> HIDE DEF less
<1>3. PICK m \in S : \A n \in S : <<n, m>> \notin less
  BY <1>1, WFMin
<1>4. \A n \in S : ~(n < m)
  BY <1>2, <1>3
<1> QED BY <1>4

\* The operators of module Rotation have no variable: its two instances agree
\* on them, and First is defined wherever it is asked.
LEMMA FirstIsIn ==
  ASSUME NEW S, S \subseteq Nat, S # {}
  PROVE  Messages!First(S) \in S /\ Advertisements!First(S) \in S
<1>1. PICK m \in S : \A n \in S : m <= n
  BY LeastNumber
<1> QED BY <1>1 DEF Messages!First, Advertisements!First

\* After a change of the list the position is on an enabled item, if any.
LEMMA ClampedIsUp ==
  ASSUME NEW f \in Seq(BOOLEAN), NEW i \in Nat \ {0}
  PROVE  /\ Messages!Clamped(f, i) \in Nat \ {0}
         /\ Messages!EnabledIn(f) # {} => Messages!Clamped(f, i) \in Messages!EnabledIn(f)
         /\ Advertisements!Clamped(f, i) \in Nat \ {0}
         /\ Advertisements!EnabledIn(f) # {} =>
              Advertisements!Clamped(f, i) \in Advertisements!EnabledIn(f)
<1>1. /\ Messages!EnabledIn(f) \subseteq Nat \ {0}
      /\ Advertisements!EnabledIn(f) \subseteq Nat \ {0}
  BY DEF Messages!EnabledIn, Advertisements!EnabledIn
<1>2. /\ Messages!EnabledIn(f) # {} => Messages!First(Messages!EnabledIn(f)) \in Messages!EnabledIn(f)
      /\ Advertisements!EnabledIn(f) # {} =>
           Advertisements!First(Advertisements!EnabledIn(f)) \in Advertisements!EnabledIn(f)
  BY <1>1, FirstIsIn
<1> QED BY <1>1, <1>2 DEF Messages!Clamped, Advertisements!Clamped

\* A tick moves to an enabled item.
LEMMA AfterIsUp ==
  ASSUME NEW S, S \subseteq Nat \ {0}, S # {}, NEW i \in Nat
  PROVE  Messages!After(S, i) \in S /\ Advertisements!After(S, i) \in S
<1> DEFINE later == {j \in S : j > i}
<1>1. Messages!First(S) \in S /\ Advertisements!First(S) \in S
  BY FirstIsIn
<1>2. later # {} => Messages!First(later) \in later /\ Advertisements!First(later) \in later
  BY FirstIsIn
<1> QED BY <1>1, <1>2 DEF Messages!After, Advertisements!After

\* The flags of a list, one per item.
LEMMA FlagsTyped ==
  /\ \A list \in Seq(Page) : Flags(list) \in Seq(BOOLEAN)
  /\ \A list \in Seq(Ads), flag \in [Ads -> BOOLEAN] : AdFlags(list, flag) \in Seq(BOOLEAN)
<1>1. ASSUME NEW list \in Seq(Page)
      PROVE  Flags(list) \in Seq(BOOLEAN)
  <2>1. ASSUME NEW i \in 1 .. Len(list)
        PROVE  list[i].enabled \in BOOLEAN
    <3>1. list[i] \in Page
      BY <1>1
    <3> QED BY <3>1 DEF Page
  <2> QED BY <2>1 DEF Flags
<1>2. ASSUME NEW list \in Seq(Ads), NEW flag \in [Ads -> BOOLEAN]
      PROVE  AdFlags(list, flag) \in Seq(BOOLEAN)
  BY <1>2 DEF AdFlags
<1> QED BY <1>1, <1>2

\* Where two items rotate there is an enabled one.
LEMMA SeveralAreSome ==
  ASSUME NEW f
  PROVE  /\ Messages!Several(f) => Messages!EnabledIn(f) # {}
         /\ Advertisements!Several(f) => Advertisements!EnabledIn(f) # {}
  BY DEF Messages!Several, Advertisements!Several

-----------------------------------------------------------------------------
(* Types *)

\* The types of the message pages' part, of the advertisements' part and of
\* the rest.
PagesTyped ==
  /\ pages \in Seq(Page) /\ Len(pages) <= MaxPages /\ overlay \in BOOLEAN
  /\ page_index \in Nat \ {0} /\ page_running \in BOOLEAN /\ page_tickers \in Nat
AdsTyped ==
  /\ ads \in Seq(Ads) /\ enabled \in [Ads -> BOOLEAN]
  /\ ad_index \in Nat \ {0} /\ ad_running \in BOOLEAN /\ ad_tickers \in Nat
Replay == [pages : Seq(Page) \union {Unset}, overlay : BOOLEAN \union {Unset},
           page : Nat \union {Unset}, ads : Seq(Ads) \union {Unset}, ad : Nat \union {Unset}]
RestTyped == qr_injected \in BOOLEAN /\ replay \in Replay /\ edits \in 0 .. MaxEdits

LEMMA TypeOKParts == TypeOK <=> PagesTyped /\ AdsTyped /\ RestTyped
  BY DEF TypeOK, PagesTyped, AdsTyped, RestTyped, Replay

LEMMA UpdatePagesTyped ==
  ASSUME PagesTyped, NEW list \in Seq(Page), Len(list) <= MaxPages, NEW shown \in BOOLEAN,
         UpdatePages(list, shown)
  PROVE  PagesTyped'
<1>1. Flags(list) \in Seq(BOOLEAN)
  BY FlagsTyped
<1>2. page_index' \in Nat \ {0}
  BY <1>1, ClampedIsUp DEF UpdatePages, PagesTyped
<1>3. page_running' \in BOOLEAN
  BY DEF UpdatePages, Messages!Rotates
<1> QED BY <1>2, <1>3 DEF UpdatePages, PagesTyped

LEMMA UpdateAdsTyped ==
  ASSUME AdsTyped, NEW list \in Seq(Ads), NEW flag \in [Ads -> BOOLEAN],
         UpdateAds(list, flag)
  PROVE  AdsTyped'
<1>1. AdFlags(list, flag) \in Seq(BOOLEAN)
  BY FlagsTyped
<1>2. ad_index' \in Nat \ {0}
  BY <1>1, ClampedIsUp DEF UpdateAds, AdsTyped
<1>3. ad_running' \in BOOLEAN
  BY DEF UpdateAds, Advertisements!Rotates
<1>4. ads' = list /\ enabled' = flag
  BY DEF UpdateAds
<1>5. ad_tickers' \in Nat
  <2>1. ad_tickers' = ad_tickers + 1 \/ ad_tickers' = ad_tickers
    BY Zenon DEF UpdateAds
  <2> QED BY <2>1 DEF AdsTyped
<1> QED BY <1>2, <1>3, <1>4, <1>5 DEF AdsTyped

LEMMA InitTyped == Init => TypeOK
<1> SUFFICES ASSUME Init PROVE TypeOK
  OBVIOUS
<1>1. pages \in Seq(Page) /\ Len(pages) <= MaxPages /\ ads \in Seq(Ads)
  BY FormsAssumption DEF Init
<1>2. enabled \in [Ads -> BOOLEAN]
  BY DEF Init
<1>3. page_index \in Nat \ {0} /\ ad_index \in Nat \ {0}
  BY <1>1, <1>2, FlagsTyped, ClampedIsUp DEF Init
<1>4. page_running \in BOOLEAN /\ ad_running \in BOOLEAN
  BY DEF Init, Messages!Rotates, Advertisements!Rotates
<1>5. PagesTyped /\ AdsTyped
  BY <1>1, <1>2, <1>3, <1>4 DEF Init, PagesTyped, AdsTyped
<1>6. RestTyped
  BY BoundsAssumption DEF Init, RestTyped, Replay, NothingReplayed
<1> QED BY <1>5, <1>6, TypeOKParts

LEMMA TypeStep ==
  ASSUME TypeOK, [Next]_vars
  PROVE  TypeOK'
<1> USE BoundsAssumption
<1>0. PagesTyped /\ AdsTyped /\ RestTyped
  BY TypeOKParts
<1> SUFFICES PagesTyped' /\ AdsTyped' /\ RestTyped'
  BY DEF TypeOK, PagesTyped, AdsTyped, RestTyped, Replay
<1>a. Edit => edits' \in 0 .. MaxEdits
  BY <1>0 DEF Edit, RestTyped
<1>b. UNCHANGED page_vars => PagesTyped'
  BY <1>0 DEF page_vars, PagesTyped
<1>c. UNCHANGED ad_vars => AdsTyped'
  BY <1>0 DEF ad_vars, AdsTyped
<1>1. ASSUME NEW form \in PageForms, NEW shown \in BOOLEAN, SaveMessages(form, shown)
      PROVE  PagesTyped' /\ AdsTyped' /\ RestTyped'
  <2>1. PagesTyped'
    BY <1>0, <1>1, UpdatePagesTyped, FormsAssumption DEF SaveMessages
  <2>2. RestTyped'
    BY <1>0, <1>1, <1>a, <2>1 DEF SaveMessages, SendOverlayState, RestTyped, Replay, PagesTyped
  <2> QED BY <1>1, <1>c, <2>1, <2>2 DEF SaveMessages
<1>d. Inject /\ MayInject => PagesTyped'
  <2> SUFFICES ASSUME Inject, MayInject PROVE PagesTyped'
    OBVIOUS
  <2>1. QrPage \in Page
    BY DEF QrPage, Page, Kinds
  <2>2. Append(pages, QrPage) \in Seq(Page) /\ Len(Append(pages, QrPage)) <= MaxPages
    BY <1>0, <2>1 DEF PagesTyped, MayInject
  <2> QED BY <1>0, <2>2, UpdatePagesTyped DEF Inject, PagesTyped
<1>2. CASE InsertQr
  <2>1. PagesTyped'
    BY <1>2, <1>d DEF InsertQr
  <2>2. RestTyped'
    BY <1>0, <1>2, <1>a, <2>1 DEF InsertQr, SendOverlayState, RestTyped, Replay, PagesTyped
  <2> QED BY <1>2, <1>c, <2>1, <2>2 DEF InsertQr
<1>3. CASE ChangeQr
  <2>1. RestTyped'
    BY <1>0, <1>3, <1>b DEF ChangeQr, SendPages, RestTyped, Replay, PagesTyped
  <2> QED BY <1>3, <1>b, <1>c, <2>1 DEF ChangeQr
<1>4. CASE OnConnected
  <2>1. PagesTyped'
    BY <1>4, <1>b, <1>d DEF OnConnected
  <2>2. RestTyped'
    BY <1>0, <1>4, <1>a, <2>1 DEF OnConnected, SendPages, RestTyped, Replay, PagesTyped
  <2> QED BY <1>4, <1>c, <2>1, <2>2 DEF OnConnected
<1>5. CASE OnSignedOut
  <2>1. RestTyped'
    BY <1>0, <1>5, <1>a DEF OnSignedOut, RestTyped
  <2> QED BY <1>5, <1>b, <1>c, <2>1 DEF OnSignedOut
<1>6. CASE MessageTick
  <2> DEFINE up == Messages!EnabledIn(Flags(pages))
  <2>1. up \subseteq Nat \ {0}
    BY DEF Messages!EnabledIn
  <2>2. Messages!Several(Flags(pages)) => Messages!After(up, page_index) \in Nat \ {0}
    <3>1. Messages!Several(Flags(pages)) => up # {}
      BY SeveralAreSome
    <3> HIDE DEF up
    <3> QED BY <1>0, <2>1, <3>1, AfterIsUp DEF PagesTyped
  <2>3. page_index' \in Nat \ {0} /\ page_running' \in BOOLEAN /\ page_tickers' \in Nat
    <3>1. CASE page_running /\ Messages!Several(Flags(pages))
      BY <1>0, <1>6, <2>2, <3>1 DEF MessageTick, PagesTyped
    <3>2. CASE ~(page_running /\ Messages!Several(Flags(pages)))
      <4>1. page_index' = page_index /\ page_running' = FALSE /\ page_tickers' = page_tickers - 1
        BY <1>6, <3>2, Zenon DEF MessageTick
      <4>2. page_tickers > 0
        BY <1>6 DEF MessageTick
      <4>3. page_running' \in BOOLEAN
        BY <4>1, Zenon
      <4>4. page_tickers' \in Nat
        BY <1>0, <4>1, <4>2 DEF PagesTyped
      <4>5. page_index' \in Nat \ {0}
        BY <1>0, <4>1 DEF PagesTyped
      <4> QED BY <4>3, <4>4, <4>5
    <3> QED BY <3>1, <3>2
  <2>4. PagesTyped'
    BY <1>0, <1>6, <2>3 DEF MessageTick, PagesTyped
  <2>5. RestTyped'
    BY <1>0, <1>6, <2>3 DEF MessageTick, RestTyped, Replay
  <2> QED BY <1>6, <1>c, <2>4, <2>5 DEF MessageTick
<1>7. CASE Connect
  <2>1. RestTyped'
    BY <1>0, <1>7 DEF Connect, RestTyped, Replay, PagesTyped
  <2> QED BY <1>7, <1>b, <1>c, <2>1 DEF Connect
<1>8. ASSUME NEW x \in Ads, UploadAd(x)
      PROVE  PagesTyped' /\ AdsTyped' /\ RestTyped'
  <2>1. AdsTyped'
    <3>1. Append(ads, x) \in Seq(Ads) /\ [enabled EXCEPT ![x] = TRUE] \in [Ads -> BOOLEAN]
      BY <1>0 DEF AdsTyped
    <3> QED BY <1>0, <1>8, <3>1, UpdateAdsTyped DEF UploadAd
  <2>2. RestTyped'
    BY <1>0, <1>8, <1>a DEF UploadAd, RestTyped
  <2> QED BY <1>8, <1>b, <2>1, <2>2 DEF UploadAd
<1>9. ASSUME NEW i \in 1 .. Len(ads), RemoveAd(i)
      PROVE  PagesTyped' /\ AdsTyped' /\ RestTyped'
  <2>1. AdsTyped'
    <3>1. Without(ads, i) \in Seq(Ads)
      BY <1>0 DEF AdsTyped, Without
    <3> QED BY <1>0, <1>9, <3>1, UpdateAdsTyped DEF RemoveAd, AdsTyped
  <2>2. RestTyped'
    BY <1>0, <1>9, <1>a DEF RemoveAd, RestTyped
  <2> QED BY <1>9, <1>b, <2>1, <2>2 DEF RemoveAd
<1>10. ASSUME NEW list \in {ads} \union {Swapped(ads, i) : i \in 1 .. Len(ads) - 1},
              NEW checked \in SUBSET (1 .. Len(list)), SaveAds(list, checked)
       PROVE  PagesTyped' /\ AdsTyped' /\ RestTyped'
  <2>1. AdsTyped'
    <3>1. list \in Seq(Ads)
      <4>1. ASSUME NEW i \in 1 .. Len(ads) - 1
            PROVE  Swapped(ads, i) \in Seq(Ads)
        BY <1>0 DEF AdsTyped, Swapped
      <4> QED BY <1>0, <4>1 DEF AdsTyped
    <3> DEFINE flag == [x \in Ads |-> IF x \in Names(list)
                                      THEN \E i \in checked : list[i] = x ELSE enabled[x]]
    <3>2. flag \in [Ads -> BOOLEAN]
      BY <1>0 DEF AdsTyped
    <3>3. UpdateAds(list, flag)
      BY <1>10 DEF SaveAds
    <3> HIDE DEF flag
    <3> QED BY <1>0, <3>1, <3>2, <3>3, UpdateAdsTyped
  <2>2. RestTyped'
    BY <1>0, <1>10, <1>a DEF SaveAds, RestTyped
  <2> QED BY <1>10, <1>b, <2>1, <2>2 DEF SaveAds
<1>11. CASE AdTick
  <2> DEFINE up == Advertisements!EnabledIn(AdFlags(ads, enabled))
  <2>1. up \subseteq Nat \ {0}
    BY DEF Advertisements!EnabledIn
  <2>2. Advertisements!Several(AdFlags(ads, enabled))
          => Advertisements!After(up, ad_index) \in Nat \ {0}
    <3>1. Advertisements!Several(AdFlags(ads, enabled)) => up # {}
      BY SeveralAreSome
    <3> HIDE DEF up
    <3> QED BY <1>0, <2>1, <3>1, AfterIsUp DEF AdsTyped
  <2>3. ad_index' \in Nat \ {0} /\ ad_running' \in BOOLEAN /\ ad_tickers' \in Nat
    <3>1. CASE ad_running /\ Advertisements!Several(AdFlags(ads, enabled))
      BY <1>0, <1>11, <2>2, <3>1 DEF AdTick, AdsTyped
    <3>2. CASE ~(ad_running /\ Advertisements!Several(AdFlags(ads, enabled)))
      <4>1. ad_index' = ad_index /\ ad_running' = FALSE /\ ad_tickers' = ad_tickers - 1
        BY <1>11, <3>2, Zenon DEF AdTick
      <4>2. ad_tickers > 0
        BY <1>11 DEF AdTick
      <4>3. ad_running' \in BOOLEAN
        BY <4>1, Zenon
      <4>4. ad_tickers' \in Nat
        BY <1>0, <4>1, <4>2 DEF AdsTyped
      <4>5. ad_index' \in Nat \ {0}
        BY <1>0, <4>1 DEF AdsTyped
      <4> QED BY <4>3, <4>4, <4>5
    <3> QED BY <3>1, <3>2
  <2>4. AdsTyped'
    BY <1>0, <1>11, <2>3 DEF AdTick, AdsTyped
  <2>5. RestTyped'
    BY <1>0, <1>11, <2>3 DEF AdTick, RestTyped, Replay, AdsTyped
  <2> QED BY <1>11, <1>b, <2>4, <2>5 DEF AdTick
<1>12. CASE Restart
  <2>1. page_index' \in Nat \ {0} /\ ad_index' \in Nat \ {0}
    <3>1. Flags(pages) \in Seq(BOOLEAN) /\ AdFlags(ads, enabled) \in Seq(BOOLEAN)
      BY <1>0, FlagsTyped DEF PagesTyped, AdsTyped
    <3>2. page_index' = Messages!Clamped(Flags(pages), 1)
      BY <1>12 DEF Restart
    <3>3. ad_index' = Advertisements!Clamped(AdFlags(ads, enabled), 1)
      BY <1>12 DEF Restart
    <3> QED BY <3>1, <3>2, <3>3, ClampedIsUp
  <2>2. page_running' \in BOOLEAN /\ ad_running' \in BOOLEAN
    BY <1>12 DEF Restart, Messages!Rotates, Advertisements!Rotates
  <2>3. PagesTyped' /\ AdsTyped'
    BY <1>0, <1>12, <2>1, <2>2 DEF Restart, PagesTyped, AdsTyped
  <2>4. RestTyped'
    BY <1>0, <1>12, <1>a DEF Restart, RestTyped, Replay, NothingReplayed
  <2> QED BY <2>3, <2>4
<1>13. CASE UNCHANGED vars
  BY <1>0, <1>13 DEF vars, PagesTyped, AdsTyped, RestTyped
<1> QED BY <1>1, <1>2, <1>3, <1>4, <1>5, <1>6, <1>7, <1>8, <1>9, <1>10, <1>11, <1>12, <1>13 DEF Next

\* The positions are positions, no form has too many pages, and the snapshot
\* has only what was sent.
THEOREM TypeCorrect == Spec => []TypeOK
  BY InitTyped, TypeStep, PTL DEF Spec

-----------------------------------------------------------------------------
(* The two rotations *)

\* A change of the pages, and one of the advertisements, re-evaluates its
\* rotation as Rotation says.
LEMMA UpdatesReconfigure ==
  /\ \A list \in Seq(Page), shown \in BOOLEAN :
       UpdatePages(list, shown) => Messages!Reconfigure
  /\ \A list \in Seq(Ads), flag \in [Ads -> BOOLEAN] :
       UpdateAds(list, flag) => Advertisements!Reconfigure
<1>1. ASSUME NEW list \in Seq(Page), NEW shown \in BOOLEAN, UpdatePages(list, shown)
      PROVE  Messages!Reconfigure
  <2>1. Flags(pages)' = Flags(list) /\ overlay' = shown
    BY <1>1 DEF UpdatePages, Flags
  <2>2. Flags(list) \in Seq(BOOLEAN)
    BY FlagsTyped
  <2> QED BY <1>1, <2>1, <2>2, Zenon DEF UpdatePages, Messages!Reconfigure
<1>2. ASSUME NEW list \in Seq(Ads), NEW flag \in [Ads -> BOOLEAN], UpdateAds(list, flag)
      PROVE  Advertisements!Reconfigure
  <2>1. AdFlags(ads, enabled)' = AdFlags(list, flag)
    BY <1>2 DEF UpdateAds, AdFlags
  <2>2. AdFlags(list, flag) \in Seq(BOOLEAN) /\ TRUE \in BOOLEAN
    BY FlagsTyped
  <2> QED BY <1>2, <2>1, <2>2, Zenon DEF UpdateAds, Advertisements!Reconfigure
<1> QED BY <1>1, <1>2

LEMMA InitRotates ==
  ASSUME Init
  PROVE  Messages!Init /\ Advertisements!Init
<1>1. PagesTyped /\ AdsTyped
  BY InitTyped, TypeOKParts
<1>2. Flags(pages) \in Seq(BOOLEAN) /\ AdFlags(ads, enabled) \in Seq(BOOLEAN)
  BY <1>1, FlagsTyped DEF PagesTyped, AdsTyped
<1>3. Messages!Init
  BY <1>1, <1>2, Zenon DEF Init, PagesTyped, Messages!Init
<1>4. Advertisements!Init
  BY <1>1, <1>2, Zenon DEF Init, AdsTyped, Advertisements!Init
<1> QED BY <1>3, <1>4

\* What leaves the pages, or the advertisements, alone leaves their rotation
\* alone.
LEMMA OthersStutter ==
  /\ UNCHANGED page_vars => UNCHANGED Messages!rotation
  /\ UNCHANGED ad_vars => UNCHANGED Advertisements!rotation
<1>1. UNCHANGED page_vars => UNCHANGED Messages!rotation
  BY DEF page_vars, Messages!rotation, Flags
<1>2. UNCHANGED ad_vars => UNCHANGED Advertisements!rotation
  BY DEF ad_vars, Advertisements!rotation, AdFlags
<1> QED BY <1>1, <1>2

LEMMA StepRotates ==
  ASSUME TypeOK, [Next]_vars
  PROVE  /\ [Messages!Next]_(Messages!rotation)
         /\ [Advertisements!Next]_(Advertisements!rotation)
<1> DEFINE Both == /\ [Messages!Next]_(Messages!rotation)
                   /\ [Advertisements!Next]_(Advertisements!rotation)
<1> SUFFICES Both
  OBVIOUS
<1>0. PagesTyped /\ AdsTyped
  BY TypeOKParts
<1>a. UNCHANGED ad_vars /\ (UNCHANGED page_vars \/ Messages!Reconfigure \/ Messages!Tick) => Both
  BY OthersStutter DEF Messages!Next
<1>b. UNCHANGED page_vars /\ (Advertisements!Reconfigure \/ Advertisements!Tick) => Both
  BY OthersStutter DEF Advertisements!Next
<1>c. Inject /\ MayInject => Messages!Reconfigure
  <2>1. QrPage \in Page
    BY DEF QrPage, Page, Kinds
  <2>2. Append(pages, QrPage) \in Seq(Page) /\ overlay \in BOOLEAN
    BY <1>0, <2>1 DEF PagesTyped
  <2> QED BY <2>2, UpdatesReconfigure DEF Inject
<1> HIDE DEF Both
<1>1. ASSUME NEW form \in PageForms, NEW shown \in BOOLEAN, SaveMessages(form, shown)
      PROVE  Both
  BY <1>1, <1>a, UpdatesReconfigure, FormsAssumption DEF SaveMessages
<1>2. CASE InsertQr
  BY <1>2, <1>a, <1>c DEF InsertQr
<1>3. CASE ChangeQr
  BY <1>3, <1>a DEF ChangeQr
<1>4. CASE OnConnected
  BY <1>4, <1>a, <1>c DEF OnConnected
<1>5. CASE OnSignedOut
  BY <1>5, <1>a DEF OnSignedOut
<1>6. CASE MessageTick
  <2>1. Flags(pages)' = Flags(pages)
    BY <1>6 DEF MessageTick, Flags
  <2>2. Messages!Tick
    <3>1. CASE page_running /\ Messages!Several(Flags(pages))
      BY <1>6, <2>1, <3>1, Zenon DEF MessageTick, Messages!Tick
    <3>2. CASE ~(page_running /\ Messages!Several(Flags(pages)))
      BY <1>6, <2>1, <3>2, Zenon DEF MessageTick, Messages!Tick
    <3> QED BY <3>1, <3>2
  <2> QED BY <1>6, <1>a, <2>2 DEF MessageTick
<1>7. CASE Connect
  BY <1>7, <1>a DEF Connect
<1>8. ASSUME NEW x \in Ads, UploadAd(x)
      PROVE  Both
  <2>1. Append(ads, x) \in Seq(Ads) /\ [enabled EXCEPT ![x] = TRUE] \in [Ads -> BOOLEAN]
    BY <1>0 DEF AdsTyped
  <2>2. UpdateAds(Append(ads, x), [enabled EXCEPT ![x] = TRUE])
    BY <1>8 DEF UploadAd
  <2>3. Advertisements!Reconfigure
    BY <2>1, <2>2, UpdatesReconfigure
  <2> QED BY <1>8, <1>b, <2>3 DEF UploadAd
<1>9. ASSUME NEW i \in 1 .. Len(ads), RemoveAd(i)
      PROVE  Both
  <2>1. Without(ads, i) \in Seq(Ads) /\ enabled \in [Ads -> BOOLEAN]
    BY <1>0 DEF AdsTyped, Without
  <2>2. Advertisements!Reconfigure
    BY <1>9, <2>1, UpdatesReconfigure DEF RemoveAd
  <2> QED BY <1>9, <1>b, <2>2 DEF RemoveAd
<1>10. ASSUME NEW list \in {ads} \union {Swapped(ads, i) : i \in 1 .. Len(ads) - 1},
              NEW checked \in SUBSET (1 .. Len(list)), SaveAds(list, checked)
       PROVE  Both
  <2>1. list \in Seq(Ads)
    <3>1. ASSUME NEW i \in 1 .. Len(ads) - 1
          PROVE  Swapped(ads, i) \in Seq(Ads)
      BY <1>0 DEF AdsTyped, Swapped
    <3> QED BY <1>0, <3>1 DEF AdsTyped
  <2> DEFINE flag == [x \in Ads |-> IF x \in Names(list)
                                    THEN \E i \in checked : list[i] = x ELSE enabled[x]]
  <2>2. flag \in [Ads -> BOOLEAN]
    BY <1>0 DEF AdsTyped
  <2>3. UpdateAds(list, flag)
    BY <1>10 DEF SaveAds
  <2> HIDE DEF flag
  <2>4. Advertisements!Reconfigure
    BY <2>1, <2>2, <2>3, UpdatesReconfigure
  <2> QED BY <1>10, <1>b, <2>4 DEF SaveAds
<1>11. CASE AdTick
  <2>1. AdFlags(ads, enabled)' = AdFlags(ads, enabled)
    BY <1>11 DEF AdTick, AdFlags
  <2>2. Advertisements!Tick
    <3>1. CASE ad_running /\ Advertisements!Several(AdFlags(ads, enabled))
      BY <1>11, <2>1, <3>1, Zenon DEF AdTick, Advertisements!Tick
    <3>2. CASE ~(ad_running /\ Advertisements!Several(AdFlags(ads, enabled)))
      BY <1>11, <2>1, <3>2, Zenon DEF AdTick, Advertisements!Tick
    <3> QED BY <3>1, <3>2
  <2> QED BY <1>11, <1>b, <2>2 DEF AdTick
<1>12. CASE Restart
  <2>1. Flags(pages)' = Flags(pages) /\ AdFlags(ads, enabled)' = AdFlags(ads, enabled)
    BY <1>12 DEF Restart, Flags, AdFlags
  <2>2. Messages!Restart /\ Advertisements!Restart
    BY <1>12, <2>1, Zenon DEF Restart, Messages!Restart, Advertisements!Restart
  <2> QED BY <2>2 DEF Both, Messages!Next, Advertisements!Next
<1>13. CASE UNCHANGED vars
  BY <1>13, <1>a DEF vars, page_vars, ad_vars
<1> QED BY <1>1, <1>2, <1>3, <1>4, <1>5, <1>6, <1>7, <1>8, <1>9, <1>10, <1>11, <1>12, <1>13 DEF Next

\* The message pages and the advertisements each behave as a rotation: their
\* positions move only by a re-evaluation of their own list, by a tick or by a
\* restart (RotatesBoth).
THEOREM Refinement == Spec => RotatesBoth
<1>1. Init => Messages!Init /\ Advertisements!Init
  BY InitRotates
<1>2. TypeOK /\ [Next]_vars
        => /\ [Messages!Next]_(Messages!rotation)
           /\ [Advertisements!Next]_(Advertisements!rotation)
  BY StepRotates
<1> QED BY <1>1, <1>2, TypeCorrect, PTL DEF Spec, RotatesBoth, Messages!Spec, Advertisements!Spec

\* Whatever order the changes, the ticks and the restarts come in, each
\* rotation runs exactly while it has two items to show, with a task that will
\* advance it, and is on an enabled item (RotationsAreAlive).
THEOREM Alive == Spec => []RotationsAreAlive
<1>1. ASSUME PagesTyped, Messages!Init
      PROVE  Messages!IsAlive
  <2>1. Flags(pages) \in Seq(BOOLEAN)
    BY <1>1, FlagsTyped DEF PagesTyped
  <2>2. Messages!EnabledIn(Flags(pages)) # {} => page_index \in Messages!EnabledIn(Flags(pages))
    BY <1>1, <2>1, ClampedIsUp DEF Messages!Init
  <2>3. page_running <=> Messages!Rotates(Flags(pages), overlay)
    BY <1>1, Zenon DEF Messages!Init
  <2>4. page_running => page_tickers > 0
    BY <1>1 DEF Messages!Init
  <2> QED BY <2>2, <2>3, <2>4, Zenon DEF Messages!IsAlive
<1>2. ASSUME AdsTyped, Advertisements!Init
      PROVE  Advertisements!IsAlive
  <2>1. AdFlags(ads, enabled) \in Seq(BOOLEAN)
    BY <1>2, FlagsTyped DEF AdsTyped
  <2>2. Advertisements!EnabledIn(AdFlags(ads, enabled)) # {}
          => ad_index \in Advertisements!EnabledIn(AdFlags(ads, enabled))
    BY <1>2, <2>1, ClampedIsUp DEF Advertisements!Init
  <2>3. ad_running <=> Advertisements!Rotates(AdFlags(ads, enabled), TRUE)
    BY <1>2, Zenon DEF Advertisements!Init
  <2>4. ad_running => ad_tickers > 0
    <3>1. ad_tickers = IF ad_running THEN 1 ELSE 0
      BY <1>2, Zenon DEF Advertisements!Init
    <3> QED BY <3>1
  <2> QED BY <2>2, <2>3, <2>4, Zenon DEF Advertisements!IsAlive
<1>3. ASSUME PagesTyped, PagesTyped', Messages!IsAlive, [Messages!Next]_(Messages!rotation)
      PROVE  Messages!IsAlive'
  <2>1. Flags(pages) \in Seq(BOOLEAN) /\ Flags(pages)' \in Seq(BOOLEAN)
    <3>1. Flags(pages) \in Seq(BOOLEAN)
      BY <1>3, FlagsTyped DEF PagesTyped
    <3>2. Flags(pages)' \in Seq(BOOLEAN)
      BY <1>3, FlagsTyped DEF PagesTyped, Flags
    <3> QED BY <3>1, <3>2
  <2>2. CASE Messages!Reconfigure
    <3>1. Messages!EnabledIn(Flags(pages)') # {}
            => page_index' \in Messages!EnabledIn(Flags(pages)')
      BY <1>3, <2>1, <2>2, ClampedIsUp DEF Messages!Reconfigure, PagesTyped
    <3>2. page_running' => page_tickers' > 0
      <4>1. CASE page_running' /\ ~page_running
        BY <1>3, <2>2, <4>1 DEF Messages!Reconfigure, PagesTyped
      <4>2. CASE ~(page_running' /\ ~page_running)
        <5>1. page_tickers' = page_tickers
          BY <2>2, <4>2, Zenon DEF Messages!Reconfigure
        <5> QED BY <1>3, <4>2, <5>1 DEF Messages!IsAlive
      <4> QED BY <4>1, <4>2
    <3>3. page_running' <=> Messages!Rotates(Flags(pages)', overlay')
      BY <2>2, Zenon DEF Messages!Reconfigure
    <3> QED BY <3>1, <3>2, <3>3, Zenon
            DEF Messages!IsAlive, Messages!EnabledIn, Messages!Rotates, Messages!Several
  <2>3. CASE Messages!Tick
    <3> DEFINE up == Messages!EnabledIn(Flags(pages))
    <3>1. Flags(pages)' = Flags(pages) /\ overlay' = overlay
      BY <2>3 DEF Messages!Tick
    <3>2. page_running' <=> page_running
      BY <1>3, <2>3 DEF Messages!Tick, Messages!IsAlive, Messages!Rotates
    <3>3. page_running' => page_tickers' > 0
      BY <1>3, <2>3, <3>2 DEF Messages!Tick, Messages!IsAlive
    <3>4. up # {} => page_index' \in up
      <4>1. up \subseteq Nat \ {0}
        BY DEF Messages!EnabledIn
      <4>2. CASE page_running'
        <5>1. page_index' = Messages!After(up, page_index)
          BY <2>3, <4>2 DEF Messages!Tick
        <5> HIDE DEF up
        <5> QED BY <1>3, <4>1, <5>1, AfterIsUp DEF PagesTyped
      <4>3. CASE ~page_running'
        BY <1>3, <2>3, <4>3 DEF Messages!Tick, Messages!IsAlive
      <4> QED BY <4>2, <4>3
    <3>5. page_running' <=> Messages!Rotates(Flags(pages), overlay)
      BY <1>3, <3>2 DEF Messages!IsAlive
    <3> QED BY <3>1, <3>3, <3>4, <3>5, Zenon
            DEF Messages!IsAlive, Messages!EnabledIn, Messages!Rotates, Messages!Several
  <2>4. CASE Messages!Restart
    <3>1. Flags(pages)' = Flags(pages) /\ overlay' = overlay
      BY <2>4 DEF Messages!Restart
    <3>2. Messages!EnabledIn(Flags(pages)) # {} => page_index' \in Messages!EnabledIn(Flags(pages))
      BY <2>1, <2>4, ClampedIsUp DEF Messages!Restart
    <3>3. page_running' <=> Messages!Rotates(Flags(pages), overlay)
      BY <2>4, Zenon DEF Messages!Restart
    <3>4. page_running' => page_tickers' > 0
      BY <2>4 DEF Messages!Restart
    <3> QED BY <3>1, <3>2, <3>3, <3>4, Zenon
            DEF Messages!IsAlive, Messages!EnabledIn, Messages!Rotates, Messages!Several
  <2>5. CASE UNCHANGED Messages!rotation
    <3>1. /\ Flags(pages)' = Flags(pages) /\ overlay' = overlay
          /\ UNCHANGED <<page_index, page_running, page_tickers>>
      BY <2>5 DEF Messages!rotation
    <3> QED BY <1>3, <3>1, Zenon
            DEF Messages!IsAlive, Messages!EnabledIn, Messages!Rotates, Messages!Several
  <2> QED BY <1>3, <2>2, <2>3, <2>4, <2>5 DEF Messages!Next
<1>4. ASSUME AdsTyped, AdsTyped', Advertisements!IsAlive,
             [Advertisements!Next]_(Advertisements!rotation)
      PROVE  Advertisements!IsAlive'
  <2>1. AdFlags(ads, enabled) \in Seq(BOOLEAN) /\ AdFlags(ads, enabled)' \in Seq(BOOLEAN)
    <3>1. AdFlags(ads, enabled) \in Seq(BOOLEAN)
      BY <1>4, FlagsTyped DEF AdsTyped
    <3>2. AdFlags(ads, enabled)' \in Seq(BOOLEAN)
      BY <1>4, FlagsTyped DEF AdsTyped, AdFlags
    <3> QED BY <3>1, <3>2
  <2>2. CASE Advertisements!Reconfigure
    <3>1. Advertisements!EnabledIn(AdFlags(ads, enabled)') # {}
            => ad_index' \in Advertisements!EnabledIn(AdFlags(ads, enabled)')
      BY <1>4, <2>1, <2>2, ClampedIsUp DEF Advertisements!Reconfigure, AdsTyped
    <3>2. ad_running' => ad_tickers' > 0
      <4>1. CASE ad_running' /\ ~ad_running
        <5>1. ad_tickers' = ad_tickers + 1
          BY <2>2, <4>1, Zenon DEF Advertisements!Reconfigure
        <5> QED BY <1>4, <5>1 DEF AdsTyped
      <4>2. CASE ~(ad_running' /\ ~ad_running)
        <5>1. ad_tickers' = ad_tickers
          BY <2>2, <4>2, Zenon DEF Advertisements!Reconfigure
        <5> QED BY <1>4, <4>2, <5>1 DEF Advertisements!IsAlive
      <4> QED BY <4>1, <4>2
    <3>3. ad_running' <=> Advertisements!Rotates(AdFlags(ads, enabled)', TRUE')
      BY <2>2, Zenon DEF Advertisements!Reconfigure
    <3> QED BY <3>1, <3>2, <3>3, Zenon
            DEF Advertisements!IsAlive, Advertisements!EnabledIn,
                Advertisements!Rotates, Advertisements!Several
  <2>3. CASE Advertisements!Tick
    <3> DEFINE up == Advertisements!EnabledIn(AdFlags(ads, enabled))
    <3>1. AdFlags(ads, enabled)' = AdFlags(ads, enabled) /\ TRUE' = TRUE
      BY <2>3 DEF Advertisements!Tick
    <3>2. ad_running' <=> ad_running
      BY <1>4, <2>3 DEF Advertisements!Tick, Advertisements!IsAlive, Advertisements!Rotates
    <3>3. ad_running' => ad_tickers' > 0
      BY <1>4, <2>3, <3>2 DEF Advertisements!Tick, Advertisements!IsAlive
    <3>4. up # {} => ad_index' \in up
      <4>1. up \subseteq Nat \ {0}
        BY DEF Advertisements!EnabledIn
      <4>2. CASE ad_running'
        <5>1. ad_index' = Advertisements!After(up, ad_index)
          BY <2>3, <4>2 DEF Advertisements!Tick
        <5> HIDE DEF up
        <5> QED BY <1>4, <4>1, <5>1, AfterIsUp DEF AdsTyped
      <4>3. CASE ~ad_running'
        BY <1>4, <2>3, <4>3 DEF Advertisements!Tick, Advertisements!IsAlive
      <4> QED BY <4>2, <4>3
    <3>5. ad_running' <=> Advertisements!Rotates(AdFlags(ads, enabled), TRUE)
      BY <1>4, <3>2 DEF Advertisements!IsAlive
    <3> QED BY <3>1, <3>3, <3>4, <3>5, Zenon
            DEF Advertisements!IsAlive, Advertisements!EnabledIn,
                Advertisements!Rotates, Advertisements!Several
  <2>4. CASE Advertisements!Restart
    <3>1. AdFlags(ads, enabled)' = AdFlags(ads, enabled) /\ TRUE' = TRUE
      BY <2>4 DEF Advertisements!Restart
    <3>2. Advertisements!EnabledIn(AdFlags(ads, enabled)) # {}
            => ad_index' \in Advertisements!EnabledIn(AdFlags(ads, enabled))
      BY <2>1, <2>4, ClampedIsUp DEF Advertisements!Restart
    <3>3. ad_running' <=> Advertisements!Rotates(AdFlags(ads, enabled), TRUE)
      BY <2>4, Zenon DEF Advertisements!Restart
    <3>4. ad_running' => ad_tickers' > 0
      <4>1. ad_tickers' = IF ad_running' THEN 1 ELSE 0
        BY <2>4, Zenon DEF Advertisements!Restart
      <4> QED BY <4>1
    <3> QED BY <3>1, <3>2, <3>3, <3>4, Zenon
            DEF Advertisements!IsAlive, Advertisements!EnabledIn,
                Advertisements!Rotates, Advertisements!Several
  <2>5. CASE UNCHANGED Advertisements!rotation
    <3>1. /\ AdFlags(ads, enabled)' = AdFlags(ads, enabled) /\ TRUE' = TRUE
          /\ UNCHANGED <<ad_index, ad_running, ad_tickers>>
      BY <2>5 DEF Advertisements!rotation
    <3> QED BY <1>4, <3>1, Zenon
            DEF Advertisements!IsAlive, Advertisements!EnabledIn,
                Advertisements!Rotates, Advertisements!Several
  <2> QED BY <1>4, <2>2, <2>3, <2>4, <2>5 DEF Advertisements!Next
<1>5. Init => RotationsAreAlive
  BY <1>1, <1>2, InitTyped, TypeOKParts, InitRotates DEF RotationsAreAlive
<1>6. TypeOK /\ TypeOK' /\ RotationsAreAlive /\ [Next]_vars => RotationsAreAlive'
  <2> SUFFICES ASSUME TypeOK, TypeOK', RotationsAreAlive, [Next]_vars
               PROVE  RotationsAreAlive'
    OBVIOUS
  <2>1. PagesTyped /\ AdsTyped /\ PagesTyped' /\ AdsTyped'
    BY DEF TypeOK, PagesTyped, AdsTyped
  <2>2. Messages!IsAlive' /\ Advertisements!IsAlive'
    BY <1>3, <1>4, <2>1, StepRotates DEF RotationsAreAlive
  <2> QED BY <2>2 DEF RotationsAreAlive
<1> QED BY <1>5, <1>6, TypeCorrect, PTL DEF Spec

-----------------------------------------------------------------------------
(* The page on the screens *)

\* A position that is enabled stays, and re-evaluating it twice changes
\* nothing; the disabled page that is appended changes nothing either.
LEMMA ClampedFacts ==
  ASSUME NEW f, NEW i \in Nat \ {0}
  PROVE  /\ i \in Messages!EnabledIn(f) => Messages!Clamped(f, i) = i
         /\ Messages!EnabledIn(f) = {} => Messages!Clamped(f, i) = 1
         /\ Messages!EnabledIn(f) # {} /\ i \notin Messages!EnabledIn(f)
              => Messages!Clamped(f, i) = Messages!First(Messages!EnabledIn(f))
  BY Zenon DEF Messages!Clamped

LEMMA SameItemsSamePosition ==
  ASSUME NEW f, NEW g, NEW i \in Nat \ {0}, Messages!EnabledIn(f) = Messages!EnabledIn(g)
  PROVE  Messages!Clamped(f, i) = Messages!Clamped(g, i)
  BY Zenon DEF Messages!Clamped

\* What the snapshot has of the pages is their list, and a position that the
\* rotation would re-evaluate to its own.
ReplayIsRecent ==
  /\ Messages!EnabledIn(Flags(pages)) = {} => page_index = 1
  /\ replay.pages # Unset => replay.pages = pages
  /\ replay.page # Unset => /\ replay.page \in Nat \ {0}
                            /\ Messages!Clamped(Flags(pages), replay.page) = page_index

\* After a change of the pages that sends them and the position from before it.
LEMMA SentBefore ==
  ASSUME TypeOK, NEW list \in Seq(Page), NEW shown \in BOOLEAN,
         UpdatePages(list, shown), SendOverlayState
  PROVE  ReplayIsRecent'
<1>1. pages' = list /\ page_index' = Messages!Clamped(Flags(list), page_index)
  BY Zenon DEF UpdatePages
<1>2. Flags(pages)' = Flags(list)
  BY <1>1 DEF Flags
<1>3. replay'.pages = pages' /\ replay'.page = page_index
  BY DEF SendOverlayState, TypeOK
<1>4. page_index \in Nat \ {0}
  BY DEF TypeOK
<1>5. Messages!EnabledIn(Flags(pages))' = {} => page_index' = 1
  BY <1>1, <1>2, <1>4, ClampedFacts DEF Messages!EnabledIn
<1>6. Messages!Clamped(Flags(pages), replay.page)' = page_index'
  BY <1>1, <1>2, <1>3, Zenon DEF Messages!Clamped, Messages!EnabledIn, Messages!First
<1> QED BY <1>3, <1>4, <1>5, <1>6 DEF ReplayIsRecent

\* The appended QR page is disabled: no position changes.
LEMMA InjectKeepsPosition ==
  ASSUME TypeOK, RotationsAreAlive, ReplayIsRecent, Inject
  PROVE  /\ page_index' = page_index
         /\ Messages!EnabledIn(Flags(pages)') = Messages!EnabledIn(Flags(pages))
<1>1. pages' = Append(pages, QrPage)
      /\ page_index' = Messages!Clamped(Flags(Append(pages, QrPage)), page_index)
  BY Zenon DEF Inject, UpdatePages
<1>2. Messages!EnabledIn(Flags(Append(pages, QrPage))) = Messages!EnabledIn(Flags(pages))
  <2>1. pages \in Seq(Page) /\ QrPage.enabled = FALSE
    BY DEF TypeOK, QrPage
  <2>2. Len(Append(pages, QrPage)) = Len(pages) + 1
    BY <2>1
  <2>3. \A i \in 1 .. Len(pages) : Append(pages, QrPage)[i] = pages[i]
    BY <2>1
  <2>4. Append(pages, QrPage)[Len(pages) + 1] = QrPage
    BY <2>1
  <2> DEFINE longer == Append(pages, QrPage)
  <2>5. Len(Flags(longer)) = Len(pages) + 1 /\ Len(Flags(pages)) = Len(pages)
    BY <2>1, <2>2 DEF Flags
  <2>6. /\ \A i \in 1 .. Len(pages) : Flags(longer)[i] = Flags(pages)[i]
        /\ Flags(longer)[Len(pages) + 1] = FALSE
    BY <2>1, <2>2, <2>3, <2>4 DEF Flags
  <2>7. Len(pages) \in Nat
    BY <2>1
  <2>8. Messages!EnabledIn(Flags(longer)) = Messages!EnabledIn(Flags(pages))
    <3> HIDE DEF longer
    <3> QED BY <2>5, <2>6, <2>7 DEF Messages!EnabledIn
  <2> QED BY <2>8
<1>3. Flags(pages)' = Flags(Append(pages, QrPage))
  BY <1>1 DEF Flags
<1>4. page_index \in Nat \ {0}
  BY DEF TypeOK
<1>5. Messages!EnabledIn(Flags(pages)) # {} => page_index \in Messages!EnabledIn(Flags(pages))
  BY DEF RotationsAreAlive, Messages!IsAlive
<1>6. page_index' = Messages!Clamped(Flags(pages), page_index)
  BY <1>1, <1>2, <1>4, SameItemsSamePosition
<1>7. page_index' = page_index
  BY <1>4, <1>5, <1>6, ClampedFacts DEF ReplayIsRecent
<1> QED BY <1>2, <1>3, <1>7

LEMMA ReplayStep ==
  ASSUME TypeOK, TypeOK', RotationsAreAlive, RotationsAreAlive', ReplayIsRecent, [Next]_vars
  PROVE  ReplayIsRecent'
<1>0. /\ pages \in Seq(Page) /\ overlay \in BOOLEAN /\ page_index \in Nat \ {0}
      /\ replay \in Replay
  BY DEF TypeOK, Replay
<1>a. ASSUME UNCHANGED page_vars, UNCHANGED <<replay>>
      PROVE  ReplayIsRecent'
  <2>1. pages' = pages /\ page_index' = page_index /\ replay' = replay
    BY <1>a DEF page_vars
  <2> QED BY <2>1, Zenon DEF ReplayIsRecent, Messages!Clamped, Messages!EnabledIn,
                            Messages!First, Flags
<1>b. ASSUME UNCHANGED page_vars, replay'.pages = replay.pages, replay'.page = replay.page
      PROVE  ReplayIsRecent'
  <2>1. pages' = pages /\ page_index' = page_index
    BY <1>b DEF page_vars
  <2> QED BY <1>b, <2>1, Zenon DEF ReplayIsRecent, Messages!Clamped, Messages!EnabledIn,
                            Messages!First, Flags
<1>c. ASSUME UNCHANGED page_vars, replay'.pages = pages, replay'.page = replay.page
      PROVE  ReplayIsRecent'
  <2>1. pages' = pages /\ page_index' = page_index
    BY <1>c DEF page_vars
  <2> QED BY <1>c, <2>1, Zenon DEF ReplayIsRecent, Messages!Clamped, Messages!EnabledIn,
                            Messages!First, Flags
<1>1. ASSUME NEW form \in PageForms, NEW shown \in BOOLEAN, SaveMessages(form, shown)
      PROVE  ReplayIsRecent'
  BY <1>1, SentBefore, FormsAssumption DEF SaveMessages
<1>2. CASE InsertQr
  <2>1. QrPage \in Page
    BY DEF QrPage, Page, Kinds
  <2>2. Append(pages, QrPage) \in Seq(Page)
    BY <1>0, <2>1
  <2> QED BY <1>0, <1>2, <2>2, SentBefore DEF InsertQr, Inject
<1>3. CASE ChangeQr
  <2>1. replay'.pages = pages /\ replay'.page = replay.page
    BY <1>0, <1>3 DEF ChangeQr, SendPages, page_vars, Replay
  <2> QED BY <1>3, <1>c, <2>1 DEF ChangeQr
<1>4. CASE OnConnected
  <2>1. replay'.pages = pages' /\ replay'.page = replay.page
    BY <1>0, <1>4 DEF OnConnected, SendPages, Replay
  <2>2. CASE UNCHANGED page_vars
    BY <1>c, <2>1, <2>2 DEF page_vars
  <2>3. CASE Inject
    <3>1. page_index' = page_index
          /\ Messages!EnabledIn(Flags(pages)') = Messages!EnabledIn(Flags(pages))
      BY <2>3, InjectKeepsPosition
    <3>2. replay.page # Unset =>
            Messages!Clamped(Flags(pages)', replay.page) = Messages!Clamped(Flags(pages), replay.page)
      BY <3>1, SameItemsSamePosition DEF ReplayIsRecent
    <3>3. Messages!EnabledIn(Flags(pages)') = {} => page_index' = 1
      BY <3>1 DEF ReplayIsRecent
    <3>4. replay'.page # Unset => /\ replay'.page \in Nat \ {0}
                                 /\ Messages!Clamped(Flags(pages)', replay'.page) = page_index'
      BY <2>1, <3>1, <3>2 DEF ReplayIsRecent
    <3> QED BY <2>1, <3>3, <3>4, Zenon DEF ReplayIsRecent, Messages!Clamped,
                                          Messages!EnabledIn, Messages!First
  <2> QED BY <1>4, <2>2, <2>3 DEF OnConnected
<1>5. CASE OnSignedOut
  BY <1>5, <1>a DEF OnSignedOut
<1>6. CASE MessageTick
  <2>1. CASE page_running /\ Messages!Several(Flags(pages))
    <3>1. /\ page_index' = Messages!After(Messages!EnabledIn(Flags(pages)), page_index)
          /\ replay' = [replay EXCEPT !.page = page_index'] /\ pages' = pages
      BY <1>6, <2>1, Zenon DEF MessageTick
    <3>2. Messages!EnabledIn(Flags(pages)) \subseteq Nat \ {0}
      BY DEF Messages!EnabledIn
    <3>3. page_index' \in Messages!EnabledIn(Flags(pages))
      BY <1>0, <2>1, <3>1, <3>2, AfterIsUp, SeveralAreSome
    <3>4. replay'.page = page_index' /\ replay'.pages = replay.pages
      BY <1>0, <3>1 DEF Replay
    <3>5. page_index' \in Nat \ {0} /\ Messages!Clamped(Flags(pages), page_index') = page_index'
      BY <3>2, <3>3, ClampedFacts
    <3>6. Flags(pages)' = Flags(pages)
      BY <3>1 DEF Flags
    <3>7. /\ Messages!EnabledIn(Flags(pages)') # {}
          /\ Messages!Clamped(Flags(pages)', replay'.page) = page_index'
          /\ replay'.page \in Nat \ {0}
      BY <3>3, <3>4, <3>5, <3>6
    <3>8. replay'.pages # Unset => replay'.pages = pages'
      BY <3>1, <3>4 DEF ReplayIsRecent
    <3> QED BY <3>7, <3>8, Zenon DEF ReplayIsRecent, Messages!Clamped, Messages!EnabledIn,
                                     Messages!First
  <2>2. CASE ~(page_running /\ Messages!Several(Flags(pages)))
    <3>1. page_index' = page_index /\ replay' = replay /\ pages' = pages
      BY <1>6, <2>2, Zenon DEF MessageTick
    <3> QED BY <3>1, Zenon DEF ReplayIsRecent, Messages!Clamped, Messages!EnabledIn,
                               Messages!First, Flags
  <2> QED BY <2>1, <2>2
<1>7. CASE Connect
  <2>1. replay'.pages = pages /\ replay'.page = page_index
    BY <1>0, <1>7 DEF Connect, Replay
  <2>2. pages' = pages /\ page_index' = page_index
    BY <1>7 DEF Connect, page_vars
  <2>3. Messages!EnabledIn(Flags(pages)) # {} => page_index \in Messages!EnabledIn(Flags(pages))
    BY DEF RotationsAreAlive, Messages!IsAlive
  <2>4. Messages!Clamped(Flags(pages), page_index) = page_index
    BY <1>0, <2>3, ClampedFacts DEF ReplayIsRecent
  <2>5. Messages!EnabledIn(Flags(pages)) = {} => page_index = 1
    BY DEF ReplayIsRecent
  <2> QED BY <1>0, <2>1, <2>2, <2>4, <2>5, Zenon DEF ReplayIsRecent, Messages!Clamped,
                                   Messages!EnabledIn, Messages!First, Flags
<1>8. ASSUME NEW x \in Ads, UploadAd(x)
      PROVE  ReplayIsRecent'
  BY <1>8, <1>a DEF UploadAd
<1>9. ASSUME NEW i \in 1 .. Len(ads), RemoveAd(i)
      PROVE  ReplayIsRecent'
  BY <1>9, <1>a DEF RemoveAd
<1>10. ASSUME NEW list \in {ads} \union {Swapped(ads, i) : i \in 1 .. Len(ads) - 1},
              NEW checked \in SUBSET (1 .. Len(list)), SaveAds(list, checked)
       PROVE  ReplayIsRecent'
  BY <1>10, <1>a DEF SaveAds
<1>11. CASE AdTick
  <2>1. replay'.pages = replay.pages /\ replay'.page = replay.page
    <3>1. CASE ad_running /\ Advertisements!Several(AdFlags(ads, enabled))
      <4>1. replay' = [replay EXCEPT !.ads = ads, !.ad = ad_index']
        BY <1>11, <3>1, Zenon DEF AdTick
      <4> QED BY <1>0, <4>1 DEF Replay
    <3>2. CASE ~(ad_running /\ Advertisements!Several(AdFlags(ads, enabled)))
      <4>1. replay' = replay
        BY <1>11, <3>2, Zenon DEF AdTick
      <4> QED BY <4>1
    <3> QED BY <3>1, <3>2
  <2> QED BY <1>11, <1>b, <2>1 DEF AdTick
<1>12. CASE Restart
  <2>1. replay'.pages = Unset /\ replay'.page = Unset
    BY <1>12 DEF Restart, NothingReplayed
  <2>2. page_index' = Messages!Clamped(Flags(pages), 1) /\ pages' = pages
    BY <1>12, Zenon DEF Restart
  <2>3. Messages!EnabledIn(Flags(pages)) = {} => page_index' = 1
    BY <2>2, ClampedFacts
  <2> QED BY <2>1, <2>2, <2>3, Zenon DEF ReplayIsRecent, Messages!EnabledIn, Flags
<1>13. CASE UNCHANGED vars
  BY <1>13, <1>a DEF vars, page_vars
<1> QED BY <1>1, <1>2, <1>3, <1>4, <1>5, <1>6, <1>7, <1>8, <1>9, <1>10, <1>11, <1>12, <1>13 DEF Next

\* The screens show the page the rotation is on, if it has a text, although a
\* change of the pages sends an older position and the QR refresh sends none
\* (ScreensShowTheActivePage).
THEOREM ScreensAreRight == Spec => []ScreensShowTheActivePage
<1>1. Init => ReplayIsRecent
  <2> SUFFICES ASSUME Init PROVE ReplayIsRecent
    OBVIOUS
  <2>1. Messages!EnabledIn(Flags(pages)) = {} => page_index = 1
    BY ClampedFacts DEF Init
  <2>2. replay.pages = Unset /\ replay.page = Unset
    BY DEF Init, NothingReplayed
  <2> QED BY <2>1, <2>2 DEF ReplayIsRecent
<1>2. TypeOK /\ TypeOK' /\ RotationsAreAlive /\ RotationsAreAlive' /\ ReplayIsRecent /\ [Next]_vars
        => ReplayIsRecent'
  BY ReplayStep
<1>3. TypeOK /\ ReplayIsRecent => ScreensShowTheActivePage
  <2> SUFFICES ASSUME TypeOK, ReplayIsRecent, replay.pages # Unset, replay.page # Unset,
                      page_index \in Visible(pages)
               PROVE  PageOnScreen(replay.pages, replay.page) = page_index
    BY DEF ScreensShowTheActivePage
  <2> DEFINE up == Messages!EnabledIn(Flags(pages))
  <2>1. /\ replay.pages = pages /\ replay.page \in Nat \ {0}
        /\ Messages!Clamped(Flags(pages), replay.page) = page_index
    BY DEF ReplayIsRecent
  <2>2. Visible(pages) \subseteq up /\ up \subseteq Nat
    BY DEF TypeOK, Visible, Messages!EnabledIn, Flags
  <2>3. CASE replay.page \in up
    <3>1. page_index = replay.page
      BY <2>1, <2>3, ClampedFacts
    <3> QED BY <2>1, <2>3, <3>1, Zenon DEF PageOnScreen
  <2>4. CASE replay.page \notin up
    <3>1. page_index = Messages!First(up)
      BY <2>1, <2>2, <2>4, ClampedFacts
    <3>2. \A j \in up : page_index <= j
      <4>1. PICK m \in up : \A n \in up : m <= n
        BY <2>2, LeastNumber
      <4> HIDE DEF up
      <4> QED BY <3>1, <4>1 DEF Messages!First
    <3>3. \A j \in Visible(pages) : page_index <= j
      BY <2>2, <3>2
    <3>4. Messages!First(Visible(pages)) \in Visible(pages)
          /\ \A j \in Visible(pages) : Messages!First(Visible(pages)) <= j
      BY <3>3, Zenon DEF Messages!First
    <3>5. Messages!First(Visible(pages)) = page_index
      BY <2>2, <3>3, <3>4
    <3> QED BY <2>1, <2>4, <3>5, Zenon DEF PageOnScreen
  <2> QED BY <2>3, <2>4
<1> QED BY <1>1, <1>2, <1>3, TypeCorrect, Alive, PTL DEF Spec

-----------------------------------------------------------------------------
(* No item is skipped *)

\* Whether i lies on the way from p to q, in the order of the list and round
\* its end.
Between(p, i, q) == IF p < q THEN p < i /\ i < q ELSE p < i \/ i < q

\* Where a rotation moves without an edit, it moves on to an enabled item, and
\* past none.
PageMovesOn ==
  /\ page_index' \in Messages!EnabledIn(Flags(pages))
  /\ \A i \in Messages!EnabledIn(Flags(pages)) : ~Between(page_index, i, page_index')
AdMovesOn ==
  /\ ad_index' \in Advertisements!EnabledIn(AdFlags(ads, enabled))
  /\ \A i \in Advertisements!EnabledIn(AdFlags(ads, enabled)) : ~Between(ad_index, i, ad_index')

NoItemIsSkipped ==
  [][edits' = edits => /\ page_index' # page_index => PageMovesOn
                       /\ ad_index' # ad_index => AdMovesOn]_vars

\* First is the least of a set of positions.
LEMMA FirstIsLeast ==
  ASSUME NEW S, S \subseteq Nat, NEW i \in S
  PROVE  Messages!First(S) <= i /\ Advertisements!First(S) <= i
<1>1. PICK m \in S : \A n \in S : m <= n
  BY LeastNumber
<1> QED BY <1>1 DEF Messages!First, Advertisements!First

\* A move skips nothing that lies no nearer ahead, or, round the end of the
\* list, not ahead and no nearer to its begin.
LEMMA NotBetween ==
  ASSUME NEW p \in Nat, NEW i \in Nat, NEW q \in Nat,
         \/ p < q /\ (p < i => q <= i)
         \/ i <= p /\ q <= p /\ q <= i
  PROVE  ~Between(p, i, q)
  BY DEF Between

\* After skips nothing.
LEMMA AfterIsNext ==
  ASSUME NEW S, S \subseteq Nat \ {0}, NEW p \in S, NEW i \in S
  PROVE  ~Between(p, i, Messages!After(S, p)) /\ ~Between(p, i, Advertisements!After(S, p))
<1> DEFINE later == {j \in S : j > p}
<1>0. p \in Nat /\ i \in Nat /\ S \subseteq Nat /\ later \subseteq S
  OBVIOUS
<1>1. CASE later # {}
  <2>1. /\ Messages!After(S, p) = Messages!First(later)
        /\ Advertisements!After(S, p) = Advertisements!First(later)
    BY <1>1 DEF Messages!After, Advertisements!After
  <2>2. Messages!First(later) \in later /\ Advertisements!First(later) \in later
    BY <1>0, <1>1, FirstIsIn
  <2>3. i > p => Messages!First(later) <= i /\ Advertisements!First(later) <= i
    BY <1>0, FirstIsLeast
  <2> QED BY <1>0, <2>1, <2>2, <2>3, NotBetween
<1>2. CASE later = {}
  <2>1. /\ Messages!After(S, p) = Messages!First(S)
        /\ Advertisements!After(S, p) = Advertisements!First(S)
    BY <1>2 DEF Messages!After, Advertisements!After
  <2>2. Messages!First(S) \in S /\ Advertisements!First(S) \in S
    BY <1>0, FirstIsIn
  <2>3. /\ Messages!First(S) <= i /\ Advertisements!First(S) <= i
        /\ Messages!First(S) <= p /\ Advertisements!First(S) <= p
    BY <1>0, FirstIsLeast
  <2>4. i <= p
    BY <1>0, <1>2
  <2> QED BY <1>0, <2>1, <2>2, <2>3, <2>4, NotBetween
<1> QED BY <1>1, <1>2

LEMMA MovesOn ==
  ASSUME TypeOK, RotationsAreAlive, Next, edits' = edits
  PROVE  /\ page_index' # page_index => PageMovesOn
         /\ ad_index' # ad_index => AdMovesOn
<1>0. /\ Messages!EnabledIn(Flags(pages)) \subseteq Nat \ {0}
      /\ Advertisements!EnabledIn(AdFlags(ads, enabled)) \subseteq Nat \ {0}
  BY DEF Messages!EnabledIn, Advertisements!EnabledIn
<1>1. ~Edit
  BY DEF Edit, TypeOK
<1>2. CASE MessageTick
  <2>1. ad_index' = ad_index
    BY <1>2 DEF MessageTick, ad_vars
  <2> SUFFICES ASSUME page_index' # page_index PROVE PageMovesOn
    BY <2>1
  <2>2. /\ Messages!Several(Flags(pages))
        /\ page_index' = Messages!After(Messages!EnabledIn(Flags(pages)), page_index)
    BY <1>2 DEF MessageTick
  <2>3. /\ Messages!EnabledIn(Flags(pages)) # {}
        /\ page_index \in Messages!EnabledIn(Flags(pages))
    BY <2>2, SeveralAreSome DEF RotationsAreAlive, Messages!IsAlive
  <2>4. page_index' \in Messages!EnabledIn(Flags(pages))
    BY <1>0, <2>2, <2>3, AfterIsUp
  <2> QED BY <1>0, <2>2, <2>3, <2>4, AfterIsNext DEF PageMovesOn
<1>3. CASE AdTick
  <2>1. page_index' = page_index
    BY <1>3 DEF AdTick, page_vars
  <2> SUFFICES ASSUME ad_index' # ad_index PROVE AdMovesOn
    BY <2>1
  <2>2. /\ Advertisements!Several(AdFlags(ads, enabled))
        /\ ad_index' = Advertisements!After(Advertisements!EnabledIn(AdFlags(ads, enabled)), ad_index)
    BY <1>3 DEF AdTick
  <2>3. /\ Advertisements!EnabledIn(AdFlags(ads, enabled)) # {}
        /\ ad_index \in Advertisements!EnabledIn(AdFlags(ads, enabled))
    BY <2>2, SeveralAreSome DEF RotationsAreAlive, Advertisements!IsAlive
  <2>4. ad_index' \in Advertisements!EnabledIn(AdFlags(ads, enabled))
    BY <1>0, <2>2, <2>3, AfterIsUp
  <2> QED BY <1>0, <2>2, <2>3, <2>4, AfterIsNext DEF AdMovesOn
<1>4. CASE ChangeQr \/ Connect
  BY <1>4 DEF ChangeQr, Connect, page_vars, ad_vars
<1>5. ASSUME (\/ \E form \in PageForms, shown \in BOOLEAN : SaveMessages(form, shown)
              \/ InsertQr \/ OnConnected \/ OnSignedOut \/ Restart)
      PROVE  FALSE
  BY <1>1, <1>5 DEF SaveMessages, InsertQr, OnConnected, OnSignedOut, Restart
<1>6. ASSUME (\/ \E x \in Ads : UploadAd(x)
              \/ \E i \in 1 .. Len(ads) : RemoveAd(i)
              \/ \E list \in {ads} \union {Swapped(ads, i) : i \in 1 .. Len(ads) - 1} :
                    \E checked \in SUBSET (1 .. Len(list)) : SaveAds(list, checked))
      PROVE  FALSE
  BY <1>1, <1>6 DEF UploadAd, RemoveAd, SaveAds
<1> QED BY <1>2, <1>3, <1>4, <1>5, <1>6 DEF Next

\* A tick brings up the next enabled item: none is passed over between two
\* edits, by however many tasks (NoItemIsSkipped), the safety half of
\* EveryItemComesUp.
THEOREM NoneIsSkipped == Spec => NoItemIsSkipped
<1>1. TypeOK /\ RotationsAreAlive /\ [Next]_vars =>
        [edits' = edits => /\ page_index' # page_index => PageMovesOn
                           /\ ad_index' # ad_index => AdMovesOn]_vars
  BY MovesOn
<1> QED BY <1>1, TypeCorrect, Alive, PTL DEF Spec, NoItemIsSkipped
=============================================================================
