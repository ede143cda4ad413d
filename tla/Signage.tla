------------------------------- MODULE Signage -------------------------------
(***************************************************************************)
(* The message pages and the advertisements of the scoreboard: the forms   *)
(* that edit them (settings_routes.py), the two background rotations, the  *)
(* QR page that is added on a sign-in, and what of them is replayed to a   *)
(* page that loads (CTS_Scoreboard.py).                                    *)
(*                                                                         *)
(* The server runs on greenlets: a request or a tick is not interrupted,   *)
(* and the requests, the ticks and the status callback of the relay come   *)
(* in any order.  The settings file follows every change (the crash while  *)
(* it is written is MeetData's subject).  Texts, alignments and intervals  *)
(* are left out but for what a page shows: nothing, a text, the QR code.   *)
(***************************************************************************)
EXTENDS Naturals, Sequences, FiniteSets

CONSTANTS PageForms,   \* the lists of pages that the form submits
          AdLists,     \* the lists of advertisements of a settings file
          Ads,         \* the names of uploaded files
          NoAd,        \* no advertisement is shown
          Unset,       \* a key that is not in the replay snapshot
          MaxPages,    \* the most pages a form has: 5
          MaxEdits     \* bound: edits, sign-ins and restarts

Kinds == {"blank", "text", "qr"}
Page == [kind : Kinds, enabled : BOOLEAN]

ASSUME FormsAssumption ==
  /\ PageForms \subseteq Seq(Page) /\ AdLists \subseteq Seq(Ads)
  /\ \A form \in PageForms : Len(form) <= MaxPages
ASSUME MarksAssumption == NoAd \notin Ads /\ Unset \notin Nat
ASSUME BoundsAssumption == MaxPages \in Nat /\ MaxEdits \in Nat

VARIABLES
  pages, overlay,                          \* message_pages, message_overlay_enabled
  page_index, page_running, page_tickers,  \* _message_rotation_*
  ads,           \* ad_images: the names, in order
  enabled,       \* the enabled flag in each entry of ad_images; a removed entry,
                 \* which the replay snapshot may still refer to, keeps its flag
  ad_index, ad_running, ad_tickers,        \* _ad_rotation_*
  qr_injected,   \* qr_message_page_injected
  replay,        \* _last_scoreboard_state: what it has of pages and ads
  edits

page_vars == <<pages, overlay, page_index, page_running, page_tickers>>
ad_vars == <<ads, enabled, ad_index, ad_running, ad_tickers>>
vars == <<pages, overlay, page_index, page_running, page_tickers, ads, enabled,
          ad_index, ad_running, ad_tickers, qr_injected, replay, edits>>

Flags(list) == [i \in 1 .. Len(list) |-> list[i].enabled]
AdFlags(list, flag) == [i \in 1 .. Len(list) |-> flag[list[i]]]

Messages == INSTANCE Rotation WITH flags <- Flags(pages), on <- overlay,
              index <- page_index, running <- page_running, tickers <- page_tickers
Advertisements == INSTANCE Rotation WITH flags <- AdFlags(ads, enabled), on <- TRUE,
              index <- ad_index, running <- ad_running, tickers <- ad_tickers

Names(s) == {s[i] : i \in 1 .. Len(s)}

NothingReplayed == [pages |-> Unset, overlay |-> Unset, page |-> Unset,
                    ads |-> Unset, ad |-> Unset]

TypeOK ==
  /\ pages \in Seq(Page) /\ Len(pages) <= MaxPages /\ overlay \in BOOLEAN
  /\ page_index \in Nat \ {0} /\ page_running \in BOOLEAN /\ page_tickers \in Nat
  /\ ads \in Seq(Ads) /\ enabled \in [Ads -> BOOLEAN]
  /\ ad_index \in Nat \ {0} /\ ad_running \in BOOLEAN /\ ad_tickers \in Nat
  /\ qr_injected \in BOOLEAN
  /\ replay \in [pages : Seq(Page) \union {Unset}, overlay : BOOLEAN \union {Unset},
                 page : Nat \union {Unset},
                 ads : Seq(Ads) \union {Unset}, ad : Nat \union {Unset}]
  /\ edits \in 0 .. MaxEdits

Edit == edits < MaxEdits /\ edits' = edits + 1

(***************************************************************************)
(* The message pages                                                       *)
(***************************************************************************)
HasQr(list) == \E i \in 1 .. Len(list) : list[i].kind = "qr"
QrPage == [kind |-> "qr", enabled |-> FALSE]

\* Mutant: the position is not looked at again.
UpdatePages_Unclamped(list, shown) ==
  LET f == Flags(list)
  IN  /\ pages' = list /\ overlay' = shown
      /\ page_index' = page_index
      /\ page_running' = Messages!Rotates(f, shown)
      /\ page_tickers' = IF page_running' /\ ~page_running
                         THEN page_tickers + 1 ELSE page_tickers

\* New pages or a new switch, and _update_message_rotation.
UpdatePages(list, shown) ==
  LET f == Flags(list)
  IN  /\ pages' = list /\ overlay' = shown
      /\ page_index' = Messages!Clamped(f, page_index)
      /\ page_running' = Messages!Rotates(f, shown)
      /\ page_tickers' = IF page_running' /\ ~page_running
                         THEN page_tickers + 1 ELSE page_tickers

\* Mutant: the position is left to the ticks.
SendOverlayState_NoPosition ==
  replay' = [replay EXCEPT !.pages = pages', !.overlay = overlay']

\* send_message_overlay_state, and the part of send_event_info that equals it.
SendOverlayState ==
  replay' = [replay EXCEPT !.pages = pages', !.overlay = overlay', !.page = page_index]

\* broadcast_qr_overlay_refresh: the pages, whose QR code may be another, and
\* no position.
SendPages == replay' = [replay EXCEPT !.pages = pages']

\* The form of the message pages, with any of its fields changed: the state is
\* sent before the rotation is re-evaluated.
SaveMessages(form, shown) ==
  /\ Edit
  /\ UpdatePages(form, shown)
  /\ SendOverlayState
  /\ UNCHANGED <<ad_vars, qr_injected>>

\* Mutant: the number of pages is not checked.
MayInject_Unbounded == ~HasQr(pages)

\* _inject_qr_message_page: unless there is one, or there are too many pages.
MayInject == Len(pages) < MaxPages /\ ~HasQr(pages)
Inject == UpdatePages(Append(pages, QrPage), overlay)

\* POST /azure/insert_qr_page.
InsertQr ==
  /\ Edit
  /\ MayInject
  /\ Inject
  /\ SendOverlayState
  /\ UNCHANGED <<ad_vars, qr_injected>>

\* A change of the meet ID, of the cloud's address or of the QR overlay.
ChangeQr ==
  /\ UNCHANGED <<page_vars, ad_vars, qr_injected, edits>>
  /\ SendPages

\* _on_azure_status(connected): the QR page once per sign-in.
OnConnected ==
  /\ Edit
  /\ IF ~qr_injected /\ MayInject THEN Inject ELSE UNCHANGED page_vars
  /\ qr_injected' = TRUE
  /\ SendPages
  /\ UNCHANGED ad_vars

\* _on_azure_status(needs_auth).
OnSignedOut ==
  /\ qr_injected
  /\ Edit
  /\ qr_injected' = FALSE
  /\ UNCHANGED <<page_vars, ad_vars, replay>>

\* _message_rotation_tick after its sleep; what it brings up is broadcast.
MessageTick ==
  /\ page_tickers > 0
  /\ LET up == Messages!EnabledIn(Flags(pages))
     IN  IF page_running /\ Messages!Several(Flags(pages))
         THEN /\ page_index' = Messages!After(up, page_index)
              /\ replay' = [replay EXCEPT !.page = page_index']
              /\ UNCHANGED <<page_running, page_tickers>>
         ELSE /\ page_running' = FALSE
              /\ page_tickers' = page_tickers - 1
              /\ UNCHANGED <<page_index, replay>>
  /\ UNCHANGED <<pages, overlay, ad_vars, qr_injected, edits>>

\* A page loads: send_event_info is broadcast, and so part of the snapshot
\* that is then replayed to it.
Connect ==
  /\ replay' = [replay EXCEPT !.pages = pages, !.overlay = overlay, !.page = page_index]
  /\ UNCHANGED <<page_vars, ad_vars, qr_injected, edits>>

(***************************************************************************)
(* The advertisements                                                      *)
(***************************************************************************)
\* Mutant: every change goes back to the first advertisement.
UpdateAds_Resets(list, flag) ==
  LET f == AdFlags(list, flag)
  IN  /\ ads' = list /\ enabled' = flag
      /\ ad_index' = Advertisements!Clamped(f, 1)
      /\ ad_running' = Advertisements!Rotates(f, TRUE)
      /\ ad_tickers' = IF ad_running' /\ ~ad_running THEN ad_tickers + 1 ELSE ad_tickers

\* A new list or new flags, and _update_ad_rotation.
UpdateAds(list, flag) ==
  LET f == AdFlags(list, flag)
  IN  /\ ads' = list /\ enabled' = flag
      /\ ad_index' = Advertisements!Clamped(f, ad_index)
      /\ ad_running' = Advertisements!Rotates(f, TRUE)
      /\ ad_tickers' = IF ad_running' /\ ~ad_running THEN ad_tickers + 1 ELSE ad_tickers

\* An upload gets a name that was never used.
UploadAd(x) ==
  /\ Edit
  /\ x \notin Names(ads)
  /\ replay.ads # Unset => x \notin Names(replay.ads)
  /\ UpdateAds(Append(ads, x), [enabled EXCEPT ![x] = TRUE])
  /\ UNCHANGED <<page_vars, qr_injected, replay>>

Without(list, i) == SubSeq(list, 1, i - 1) \o SubSeq(list, i + 1, Len(list))
Swapped(list, i) == [list EXCEPT ![i] = list[i + 1], ![i + 1] = list[i]]

\* The image files there are: an upload writes its file and a removal unlinks it in
\* the request that changes the list.
Images == Names(ads)

\* The form of the advertisements: the button that removes one, and its file ...
RemoveAd(i) ==
  /\ Edit
  /\ UpdateAds(Without(ads, i), enabled)
  /\ UNCHANGED <<page_vars, qr_injected, replay>>

\* ... or the one that moves one, and a box per row.  The boxes were checked
\* for the order before the move and are applied to the one after it.
SaveAds(list, checked) ==
  /\ Edit
  /\ UpdateAds(list, [x \in Ads |-> IF x \in Names(list)
                                    THEN \E i \in checked : list[i] = x ELSE enabled[x]])
  /\ UNCHANGED <<page_vars, qr_injected, replay>>

\* _ad_rotation_tick after its sleep: only here is the list broadcast.
AdTick ==
  /\ ad_tickers > 0
  /\ LET up == Advertisements!EnabledIn(AdFlags(ads, enabled))
     IN  IF ad_running /\ Advertisements!Several(AdFlags(ads, enabled))
         THEN /\ ad_index' = Advertisements!After(up, ad_index)
              /\ replay' = [replay EXCEPT !.ads = ads, !.ad = ad_index']
              /\ UNCHANGED <<ad_running, ad_tickers>>
         ELSE /\ ad_running' = FALSE
              /\ ad_tickers' = ad_tickers - 1
              /\ UNCHANGED <<ad_index, replay>>
  /\ UNCHANGED <<page_vars, ads, enabled, qr_injected, edits>>

(***************************************************************************)
(* The process                                                             *)
(***************************************************************************)
\* The settings are read from the file, whatever it has, and both rotations
\* are evaluated from position 1.
Init ==
  /\ pages \in PageForms /\ overlay \in BOOLEAN
  /\ ads \in AdLists
  /\ enabled \in {flag \in [Ads -> BOOLEAN] : \A x \in Ads \ Names(ads) : ~flag[x]}
  /\ qr_injected \in BOOLEAN
  /\ page_index = Messages!Clamped(Flags(pages), 1)
  /\ page_running = Messages!Rotates(Flags(pages), overlay)
  /\ page_tickers = IF page_running THEN 1 ELSE 0
  /\ ad_index = Advertisements!Clamped(AdFlags(ads, enabled), 1)
  /\ ad_running = Advertisements!Rotates(AdFlags(ads, enabled), TRUE)
  /\ ad_tickers = IF ad_running THEN 1 ELSE 0
  /\ replay = NothingReplayed
  /\ edits = 0

\* The same, with the settings of the process that ended.
Restart ==
  /\ Edit
  /\ page_index' = Messages!Clamped(Flags(pages), 1)
  /\ page_running' = Messages!Rotates(Flags(pages), overlay)
  /\ page_tickers' = IF page_running' THEN 1 ELSE 0
  /\ ad_index' = Advertisements!Clamped(AdFlags(ads, enabled), 1)
  /\ ad_running' = Advertisements!Rotates(AdFlags(ads, enabled), TRUE)
  /\ ad_tickers' = IF ad_running' THEN 1 ELSE 0
  /\ replay' = NothingReplayed
  /\ UNCHANGED <<pages, overlay, ads, enabled, qr_injected>>

Next ==
  \/ \E form \in PageForms, shown \in BOOLEAN : SaveMessages(form, shown)
  \/ InsertQr
  \/ ChangeQr
  \/ OnConnected
  \/ OnSignedOut
  \/ MessageTick
  \/ Connect
  \/ \E x \in Ads : UploadAd(x)
  \/ \E i \in 1 .. Len(ads) : RemoveAd(i)
  \/ \E list \in {ads} \union {Swapped(ads, i) : i \in 1 .. Len(ads) - 1} :
        \E checked \in SUBSET (1 .. Len(list)) : SaveAds(list, checked)
  \/ AdTick
  \/ Restart

Spec == Init /\ [][Next]_vars

\* A task that sleeps wakes.
FairSpec == Spec /\ WF_vars(MessageTick) /\ WF_vars(AdTick)

(***************************************************************************)
(* Properties                                                              *)
(***************************************************************************)
\* Whatever is stopped, started, edited or restarted while the tasks sleep,
\* each rotation runs exactly while it has two enabled items to show, with a
\* task that will advance it, and its position is on an enabled item.
RotationsAreAlive == Messages!IsAlive /\ Advertisements!IsAlive

\* The pages and the advertisements are two rotations in the sense of module
\* Rotation: nothing but a change of its list, a tick or a restart moves one.
RotatesBoth == Messages!Spec /\ Advertisements!Spec

\* Each enabled item comes up again and again, also when several tasks
\* advance the same rotation: none is skipped for good.
EveryItemComesUp ==
  /\ \A i \in 1 .. MaxPages :
       []<>(page_index = i \/ i \notin Messages!EnabledIn(Flags(pages)) \/ ~overlay)
  /\ \A i \in 1 .. Cardinality(Ads) :
       []<>(ad_index = i \/ i \notin Advertisements!EnabledIn(AdFlags(ads, enabled)))

\* The page that a browser shows, of the list and the position it was sent:
\* the one at that position if it is enabled, or else the first enabled one
\* with a text (renderMessageOverlay in templates/web/home.html).
Visible(list) == {i \in 1 .. Len(list) : list[i].enabled /\ list[i].kind # "blank"}
PageOnScreen(list, i) ==
  IF i \in Messages!EnabledIn(Flags(list)) THEN i ELSE Messages!First(Visible(list))

\* The screens show the page that the rotation is on, although a change of the
\* pages sends the position from before the rotation was re-evaluated and the
\* QR refresh sends none: the browser's own choice makes up for it.
ScreensShowTheActivePage ==
  replay.pages # Unset /\ replay.page # Unset /\ page_index \in Visible(pages)
    => PageOnScreen(replay.pages, replay.page) = page_index

\* What a page that loads shows of a list of advertisements and a position in it:
\* no advertisement, if the image has been removed.
AdOnScreen(list, i) ==
  IF /\ i \in Advertisements!EnabledIn(AdFlags(list, enabled))
     /\ list[i] \in Images
  THEN list[i] ELSE NoAd

\* "connected scoreboards need to reload to pick them up" (settings_routes.py,
\* of the ad images among others): a page that loads shows the advertisement
\* that is up, at least when no rotation is left to correct it.  It does not:
\* what the last tick put into the snapshot replaces what the page was
\* rendered with.
ReloadedPagesShowTheAd ==
  ~ad_running =>
    AdOnScreen(IF replay.ads = Unset THEN ads ELSE replay.ads,
               IF replay.ad = Unset THEN ad_index ELSE replay.ad)
      = AdOnScreen(ads, ad_index)
=============================================================================
