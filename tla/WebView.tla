------------------------------- MODULE WebView -------------------------------
(***************************************************************************)
(* The single web view of the app (WebViewControllerImpl) as operations on *)
(* a record.  One completion, one service block and one wanted URL are     *)
(* kept for whoever asked last; the page itself is read asynchronously by  *)
(* a script.  WKWebView is external: a navigation goes from loading to     *)
(* received (the policy question), committed and finished, and messages    *)
(* of a replaced navigation can still be on their way.                     *)
(***************************************************************************)
EXTENDS Naturals, Sequences

CONSTANTS
  Friends,      \* friends, each standing for its own detail page
  Home,         \* home.php
  FriendsPage,  \* /friends/center/friends/
  Login,        \* the page shown without a session
  Blank,        \* nothing loaded yet
  NoDocument,   \* _cachedPageContent is nil
  MaxGrowth,    \* bound: how often the friends page appends friends
  MaxScripts    \* bound: scripts in flight

ASSUME PagesAssumption ==
  /\ Home # FriendsPage /\ Home # Login /\ Home # Blank
  /\ FriendsPage # Login /\ FriendsPage # Blank /\ Login # Blank
  /\ {Home, FriendsPage, Login, Blank} \cap Friends = {}
ASSUME WebBoundAssumption == MaxGrowth \in Nat /\ MaxScripts \in Nat \ {0}

Locations == Friends \cup {Home, FriendsPage, Login, Blank}
Documents == [page : Locations, size : 0..MaxGrowth]
Page(location) == [page |-> location, size |-> 0]
ASSUME NoDocumentAssumption == NoDocument \notin Documents

(* Who gets the next answer: the provider's callback for that page.        *)
Completions == {"none", "home", "friends", "detail"}

WebViews ==
  [completion : Completions,   \* webViewDidLoadCompletion
   service    : BOOLEAN,       \* serviceBlock is set
   force      : BOOLEAN,       \* forceDidFinishNavigation
   working    : Locations,     \* _workingURL
   cached     : Documents \cup {NoDocument},  \* _cachedPageContent
   swiping    : BOOLEAN,       \* swipingActive
   finishing  : BOOLEAN,       \* finishSwiping is scheduled
   dialog     : {"hidden", "refused", "shown"},  \* dialogPresented, and on the screen
   url        : Locations,     \* webView.URL
   doc        : Documents,     \* the document scripts see
   nav        : {"none", "loading", "received", "committed", "stopped"},
   own        : BOOLEAN,       \* nav is _currentNavigationRequest
   late       : BOOLEAN,       \* a replaced navigation may still report
   scripts    : Seq(Documents),  \* what the running scripts have read
   overlap    : BOOLEAN]       \* history: the load began before the last one was over

IdleWebView ==
  [completion |-> "none", service |-> FALSE, force |-> FALSE,
   working |-> Blank, cached |-> NoDocument, swiping |-> FALSE,
   finishing |-> FALSE, dialog |-> "hidden", url |-> Blank,
   doc |-> Page(Blank), nav |-> "none", own |-> FALSE, late |-> FALSE,
   scripts |-> <<>>, overlap |-> FALSE]

-----------------------------------------------------------------------------
(* Calls of the app *)

(* A navigation that has been committed may have sent its last message.    *)
MayReport(w) == w.late \/ w.nav \in {"committed", "stopped"}

(* loadURLWithPath: every slot is overwritten, whatever it held.           *)
Load(w, location, completion, force) ==
  [w EXCEPT !.completion = completion, !.service = TRUE, !.force = force,
            !.working = location, !.url = location, !.cached = NoDocument,
            !.nav = "loading", !.own = TRUE, !.late = MayReport(w),
            !.overlap = w.scripts # <<>> \/ MayReport(w)]

(* triggerSwipeToBottomWithCompletion.                                     *)
Swipe(w, completion) == [w EXCEPT !.completion = completion, !.swiping = TRUE]

(* Fault planted in Stop: swipingActive stays.                             *)
Stop_KeepsSwiping(w) ==
  [w EXCEPT !.nav = IF w.nav = "committed" THEN "stopped" ELSE "none"]

(* cancel: no more swiping, stopLoading; the completion stays.  Stopping a *)
(* committed navigation makes it fail, stopping an earlier one is silent.  *)
Stop(w) ==
  [w EXCEPT !.swiping = FALSE,
            !.nav = IF w.nav \in {"committed", "stopped"} THEN "stopped" ELSE "none"]

-----------------------------------------------------------------------------
(* Answers *)

(* performSuccessCallback: if the view is on the wanted page, a script is  *)
(* sent to read it.  A page that has been received can be committed before *)
(* the script runs.                                                        *)
ReadPage(w) ==
  IF w.url # w.working THEN {w}
  ELSE {[w EXCEPT !.scripts = Append(w.scripts, d)] :
          d \in {w.doc} \cup (IF w.nav = "received" THEN {Page(w.url)} ELSE {})}

(* A success or a failure takes the completion out of its slot, with the   *)
(* service block and the force flag.                                       *)
Taken(w) == [w EXCEPT !.completion = "none", !.service = FALSE, !.force = FALSE]

(* The script's answer is dropped when nobody waits or the page is the one *)
(* seen last.                                                              *)
Unwanted(w, d) == w.completion = "none" \/ w.cached = d

(* Fault planted in Answered: the end of the swiping is not scheduled.     *)
Answered_NotScheduled(w, d) == [Taken(w) EXCEPT !.cached = d]

(* Otherwise the end of the swiping is put off and the completion taken.   *)
Answered(w, d) == [Taken(w) EXCEPT !.cached = d, !.finishing = TRUE]

(* finishSwiping.                                                          *)
SwipingFinished(w) == [w EXCEPT !.swiping = FALSE, !.finishing = FALSE]

(* The login dialog is shown over the screen or hidden; UIKit refuses it   *)
(* under an alert.                                                         *)
WithDialog(w, state) == [w EXCEPT !.dialog = state]

=============================================================================
