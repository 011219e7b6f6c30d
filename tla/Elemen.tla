------------------------------- MODULE Elemen -------------------------------
(***************************************************************************)
(* The desktop client (src/client/elemen): tabs, one address bar and one   *)
(* pane over them (ui/app.js), and the file of past fetches behind them    *)
(* (bridge.py).  The page has one thread: a handler runs until it awaits a *)
(* call of the bridge, and goes on when the call returns, whatever the     *)
(* user has done meanwhile.  The bridge runs each call on a thread of its  *)
(* own, without a lock.                                                    *)
(***************************************************************************)
EXTENDS Naturals, Sequences, FiniteSets, SequencesExt

CONSTANTS
  Profiles, Overviews,  \* URIs of agents, and of servers
  Elsewhere,            \* those of them on a second host
  Blank,                \* no URI, no result
  BridgeCalls,          \* handlers that may be waiting at a time
  TabLimit, MaxClicks,  \* bounds: tabs opened, things the user does
  UriHistoryLimit

ASSUME ElemenAssumption ==
  TabLimit \in Nat \ {0} /\ UriHistoryLimit \in Nat \ {0} /\ Blank \notin Profiles \cup Overviews

Uris == Profiles \cup Overviews
HostOf(u) == u \in Elsewhere

VARIABLES
  tabs, opened,   \* the tab strip, and the number of tabs opened so far
  active,         \* state.activeId
  form,           \* what the address bar holds
  page,           \* tab -> [uri, result, match]: result [uri, kind] or Blank,
                  \* match Blank or [tab, doc, host], the handshake's outcome
  pane, badge,    \* what renderResponse and renderMatchBadge last showed
  strayed,        \* the pane was painted for a tab the user had left
  go,             \* the Go button is enabled
  waiting,        \* call -> [at, tab, uri, silent, kind, list]
  manifests,      \* hosts in manifestCacheByEndpoint
  visited,        \* [entries, at]: the URI history in localStorage
  file,           \* history.json, most recent first, or Blank while it is cut short
  listed,         \* state.history, the panel
  noted,          \* every URI whose fetch was written down since the last clear
  clicks

screen == <<form, pane, badge, strayed>>
disk == <<file, noted>>
elvars == <<tabs, opened, active, page, screen, go, waiting, manifests, visited, disk, listed, clicks>>

NoCall == [at |-> "none", tab |-> 0, uri |-> Blank, silent |-> FALSE, kind |-> Blank, list |-> <<>>]
Result(u, kind) == [uri |-> u, kind |-> kind]
NewPage == [uri |-> Blank, result |-> Blank, match |-> Blank]

\* init: the kept files are read, one empty tab is opened.
ElemenInit ==
  /\ tabs = <<1>> /\ opened = 1 /\ active = 1 /\ form = Blank
  /\ page = [t \in 1..TabLimit |-> NewPage] /\ pane = Blank /\ badge = Blank /\ strayed = FALSE
  /\ go = TRUE /\ waiting = [c \in BridgeCalls |-> NoCall] /\ manifests = {}
  /\ visited = [entries |-> <<>>, at |-> 0] /\ file = <<>> /\ noted = {} /\ listed = <<>> /\ clicks = 0

-----------------------------------------------------------------------------
Click == clicks < MaxClicks /\ clicks' = clicks + 1
Snapshot == [page EXCEPT ![active].uri = form]
Paint(result) == pane' = result /\ badge' = Blank
LoadIntoForm(p, t) == form' = p[t].uri /\ Paint(p[t].result) /\ strayed' = FALSE

TypeUri(u) ==
  /\ Click /\ form # u /\ form' = u
  /\ UNCHANGED <<tabs, opened, active, page, pane, badge, strayed, go, waiting, manifests, visited, disk, listed>>

SwitchTab(t) ==
  /\ Click /\ t \in ToSet(tabs) /\ t # active
  /\ page' = Snapshot /\ active' = t /\ LoadIntoForm(Snapshot, t)
  /\ UNCHANGED <<tabs, opened, go, waiting, manifests, visited, disk, listed>>

\* A new tab takes the place of the active one without a snapshot of its form.
Open(strip) ==
  /\ opened < TabLimit /\ opened' = opened + 1
  /\ tabs' = Append(strip, opened + 1) /\ active' = opened + 1 /\ LoadIntoForm(page, opened + 1)

NewTab == Click /\ Open(tabs) /\ UNCHANGED <<page, go, waiting, manifests, visited, disk, listed>>

CloseTab(i) ==
  LET strip == RemoveAt(tabs, i) IN
  /\ Click /\ i \in DOMAIN tabs
  /\ \/ strip = <<>> /\ Open(strip)
     \/ /\ strip # <<>> /\ tabs' = strip /\ UNCHANGED opened
        /\ IF tabs[i] = active
             THEN LET next == strip[IF i <= Len(strip) THEN i ELSE Len(strip)] IN
                  active' = next /\ LoadIntoForm(page, next)
             ELSE UNCHANGED <<active, screen>>
  /\ UNCHANGED <<page, go, waiting, manifests, visited, disk, listed>>

-----------------------------------------------------------------------------
(* A fetch: doFetch up to its first await, for whatever the form holds. *)
Await(c, call) == waiting[c].at = "none" /\ waiting' = [waiting EXCEPT ![c] = call]
Resume(c, at) == waiting' = [waiting EXCEPT ![c].at = at]
Leave(c) == waiting' = [waiting EXCEPT ![c] = NoCall]

Load(c, u, silent) ==
  /\ page' = [page EXCEPT ![active].uri = u, ![active].match = Blank]
  /\ go' = FALSE
  /\ Await(c, [NoCall EXCEPT !.at = "fetch", !.tab = active, !.uri = u, !.silent = silent])

PressGo(c) ==
  /\ Click /\ go /\ form # Blank /\ Load(c, form, FALSE)
  /\ UNCHANGED <<tabs, opened, active, screen, manifests, visited, disk, listed>>

\* An entry of the history panel is loaded into the active tab, and fetched.
Revisit(c, u) ==
  /\ Click /\ u \in ToSet(listed) /\ Load(c, u, FALSE)
  /\ form' = u /\ Paint(page[active].result) /\ strayed' = FALSE
  /\ UNCHANGED <<tabs, opened, active, manifests, visited, disk, listed>>

\* Back and forward move the position at once, and fetch silently.
Navigate(c, to) ==
  /\ Click /\ to \in DOMAIN visited.entries /\ (to = visited.at - 1 \/ to = visited.at + 1)
  /\ visited' = [visited EXCEPT !.at = to] /\ Load(c, visited.entries[to], TRUE)
  /\ form' = visited.entries[to] /\ Paint(page[active].result) /\ strayed' = FALSE
  /\ UNCHANGED <<tabs, opened, active, manifests, disk, listed>>

\* pushUriHistory: what lay ahead is dropped, the same URI is not repeated.
Push(u) ==
  LET past == SubSeq(visited.entries, 1, visited.at)
      long == IF past # <<>> /\ Last(past) = u THEN past ELSE Append(past, u)
      kept == IF Len(long) > UriHistoryLimit THEN Tail(long) ELSE long IN
  visited' = [entries |-> kept, at |-> Len(kept)]

\* Mutant of OnScreen: the user is taken to have waited for the answer.
OnScreenStill(t) == TRUE
OnScreen(t) == active = t

\* The bridge answers with a document, with a refusal of the server, or with
\* the failure of a stage; the answer goes to the tab that asked, and on the
\* screen if that tab is still the active one.
Answered(c, kind) ==
  LET t == waiting[c].tab
      u == waiting[c].uri
      result == Result(u, kind) IN
  /\ waiting[c].at = "fetch"
  /\ page' = [page EXCEPT ![t].uri = u, ![t].result = result] /\ go' = TRUE
  /\ manifests' = manifests \cup (IF kind = "document" /\ u \in Overviews THEN {HostOf(u)} ELSE {})
  /\ IF OnScreen(t) THEN Paint(result) /\ strayed' = FALSE ELSE UNCHANGED <<pane, badge, strayed>>
  /\ IF kind # "error" /\ ~waiting[c].silent THEN Push(u) ELSE UNCHANGED visited
  /\ waiting' = [waiting EXCEPT ![c].at = "read", ![c].kind = kind]
  /\ UNCHANGED <<tabs, opened, active, form, disk, listed, clicks>>

\* An exception of the bridge rejects the promise: the status line says so.
Rejected(c) ==
  /\ waiting[c].at = "fetch" /\ go' = TRUE /\ Leave(c)
  /\ UNCHANGED <<tabs, opened, active, page, screen, manifests, visited, disk, listed, clicks>>

-----------------------------------------------------------------------------
(* history_add and history_clear, on threads of the bridge. *)
\* What a reader makes of the file: of one that is cut short, an empty list.
Past == IF file = Blank THEN <<>> ELSE file

ReadHistory(c) ==
  LET u == waiting[c].uri IN
  /\ waiting[c].at = "read"
  /\ waiting' = [waiting EXCEPT ![c].at = "open", ![c].list = <<u>> \o SelectSeq(Past, LAMBDA v : v # u)]
  /\ UNCHANGED <<tabs, opened, active, page, screen, go, manifests, visited, disk, listed, clicks>>

ClearHistory(c) ==
  /\ Click /\ Await(c, [NoCall EXCEPT !.at = "open"])
  /\ UNCHANGED <<tabs, opened, active, page, screen, go, manifests, visited, disk, listed>>

OpenHistory(c) ==
  /\ waiting[c].at = "open" /\ Resume(c, "write") /\ file' = Blank
  /\ UNCHANGED <<tabs, opened, active, page, screen, go, manifests, visited, noted, listed, clicks>>

\* A shorter list written over a longer one leaves the end of the longer one.
WriteHistory(c) ==
  /\ waiting[c].at = "write" /\ Resume(c, "written")
  /\ file' = IF file # Blank /\ Len(file) > Len(waiting[c].list) THEN Blank ELSE waiting[c].list
  /\ noted' = IF waiting[c].list = <<>> THEN {} ELSE noted \cup {waiting[c].uri}
  /\ UNCHANGED <<tabs, opened, active, page, screen, go, manifests, visited, listed, clicks>>

\* Back on the page.  After the document of an agent comes the handshake: the
\* manifest of the host that the tab's result, by now, came from.
Outcome(t, doc, host) == [tab |-> t, doc |-> doc, host |-> host]
Match(t, doc, host) ==
  /\ page' = [page EXCEPT ![t].match = Outcome(t, doc, host)]
  /\ badge' = IF OnScreen(t) THEN Outcome(t, doc, host) ELSE badge
Shakes(c) == waiting[c].kind = "document" /\ waiting[c].uri \in Profiles
             /\ page[waiting[c].tab].result.kind # "error"

Written(c) ==
  LET t == waiting[c].tab
      host == HostOf(page[t].result.uri) IN
  /\ waiting[c].at = "written" /\ listed' = waiting[c].list
  /\ \/ t # 0 /\ Shakes(c) /\ host \in manifests /\ Match(t, waiting[c].uri, host) /\ Leave(c)
     \/ /\ t # 0 /\ Shakes(c) /\ host \notin manifests /\ UNCHANGED <<page, badge>>
        /\ waiting' = [waiting EXCEPT ![c].at = "manifest", ![c].list = <<host>>]
     \/ (t = 0 \/ ~Shakes(c)) /\ Leave(c) /\ UNCHANGED <<page, badge>>
  /\ UNCHANGED <<tabs, opened, active, form, pane, strayed, go, manifests, visited, disk, clicks>>

\* The link on the badge fetches the manifest again for the tab's result.
RefreshMatch(c) ==
  /\ Click /\ badge # Blank /\ page[badge.tab].result.kind # "error"
  /\ Await(c, [NoCall EXCEPT !.at = "refresh", !.tab = badge.tab, !.list = <<HostOf(page[badge.tab].result.uri)>>])
  /\ UNCHANGED <<tabs, opened, active, page, screen, go, manifests, visited, disk, listed>>

\* doFetch matches the document it fetched, the link whatever the tab has now.
ManifestArrives(c, ok) ==
  LET t == waiting[c].tab
      host == waiting[c].list[1]
      doc == IF waiting[c].at = "manifest" THEN waiting[c].uri ELSE page[t].result.uri IN
  /\ waiting[c].at \in {"manifest", "refresh"} /\ Leave(c)
  /\ manifests' = IF ok THEN manifests \cup {host} ELSE manifests
  /\ IF ok /\ (waiting[c].at = "manifest" \/ page[t].result.kind # "error")
       THEN Match(t, doc, host) ELSE UNCHANGED <<page, badge>>
  /\ UNCHANGED <<tabs, opened, active, form, pane, strayed, go, visited, disk, listed, clicks>>

-----------------------------------------------------------------------------
(* A permission the server lacks is clicked: a PROPOSE for it, whose answer
   becomes the tab's result and is painted whichever tab is active. *)
Negotiate(c) ==
  /\ Click /\ (page[active].match # Blank \/ badge # Blank)
  /\ pane # Blank /\ pane.uri \in Profiles /\ pane.kind = "document"
  /\ Await(c, [NoCall EXCEPT !.at = "propose", !.tab = active, !.uri = page[active].uri])
  /\ UNCHANGED <<tabs, opened, active, page, screen, go, manifests, visited, disk, listed>>

Negotiated(c) ==
  LET t == waiting[c].tab
      result == Result(waiting[c].uri, "reply") IN
  /\ waiting[c].at = "propose" /\ Leave(c)
  /\ \/ /\ page' = [page EXCEPT ![t].result = result] /\ Paint(result) /\ strayed' = (active # t)
     \/ UNCHANGED <<page, pane, badge, strayed>>
  /\ UNCHANGED <<tabs, opened, active, form, go, manifests, visited, disk, listed, clicks>>

-----------------------------------------------------------------------------
UserActs(c) == PressGo(c) \/ ClearHistory(c) \/ RefreshMatch(c) \/ Negotiate(c)
               \/ (\E u \in Uris : Revisit(c, u)) \/ \E i \in 1..UriHistoryLimit : Navigate(c, i)
CallReturns(c) == Rejected(c) \/ ReadHistory(c) \/ OpenHistory(c) \/ WriteHistory(c) \/ Written(c) \/ Negotiated(c)
                  \/ (\E k \in {"document", "refusal", "error"} : Answered(c, k))
                  \/ \E ok \in BOOLEAN : ManifestArrives(c, ok)
ElemenNext ==
  \/ \E u \in Uris : TypeUri(u)
  \/ NewTab \/ \E t \in 1..TabLimit : SwitchTab(t) \/ CloseTab(t)
  \/ \E c \in BridgeCalls : UserActs(c) \/ CallReturns(c)
ElemenSpec == ElemenInit /\ [][ElemenNext]_elvars

\* What the user sees is of the tab the user is in, whichever tabs were
\* switched, closed and fetched while calls were under way, except where the
\* answer to a PROPOSE was painted over another tab (doFetch, switchTab,
\* refreshManifestAndMatch, promptNegotiationForMissing).
ScreenIsOfActiveTab ==
  /\ active \in ToSet(tabs)
  /\ strayed \/ pane = page[active].result
  /\ badge # Blank => badge.tab = active

\* Every fetch is in the history file once nothing is being written there
\* (history_add in bridge.py; client/elemen/README.md).
HistoryIsKept ==
  (\A c \in BridgeCalls : waiting[c].at \notin {"read", "open", "write"})
    => noted \subseteq ToSet(Past)
=============================================================================
