----------------------------- MODULE BacklogBoard -----------------------------
(***************************************************************************)
(* The backlog board: a canvas with a local server per instance, which the *)
(* host opens and closes, and a page that fetches the issues through it.   *)
(* open() awaits the server's start between its look into the map and its  *)
(* entry; the answers of fetches that overlap arrive in any order.         *)
(***************************************************************************)
EXTENDS Integers, FiniteSets

CONSTANTS
  Instance,    \* the canvas instances
  Server,      \* the servers that may be started, each once
  MaxIssues,   \* bound on the versions of the list of issues
  MaxFetches,  \* bound on the fetches of a page
  None

ASSUME NoneAssumption  == None \notin Instance \union Server
ASSUME BoundAssumption == MaxFetches \in Nat

VARIABLES
  servers,   \* the map: per instance its entry, or None
  owner,     \* per server: the instance it was started for, or None
  listening, \* the servers that listen
  opening,   \* the servers whose open() still awaits listen
  handed,    \* per instance: the servers whose URL it was given since it was last closed
  raced      \* the instances whose calls of open() overlapped, or that were closed during one

boardVars == <<servers, owner, listening, opening, handed, raced>>

VARIABLES
  issues,    \* the version of the list at GitHub
  fetches,   \* per fetch: its phase, and the list that answers it (0 for no issues)
  allIssues, \* the list the page holds
  content,   \* what it shows: "loading", "error" or the "list" it holds
  newest,    \* the newest list it has shown
  crossed    \* whether a fetch was begun while another was in flight

pageVars == <<issues, fetches, allIssues, content, newest, crossed>>

-----------------------------------------------------------------------------
(* The host's calls.                                                        *)

Pending(i) == {s \in opening : owner[s] = i}

BoardInit ==
  /\ servers = [i \in Instance |-> None]
  /\ owner = [s \in Server |-> None]
  /\ listening = {} /\ opening = {} /\ raced = {}
  /\ handed = [i \in Instance |-> {}]

OpenAgain(i) ==
  /\ servers[i] # None
  /\ handed' = [handed EXCEPT ![i] = @ \union {servers[i]}]
  /\ UNCHANGED <<servers, owner, listening, opening, raced>>

\* open() up to its await: the new server is in no map yet.
OpenStarts(i, s) ==
  /\ servers[i] = None /\ owner[s] = None
  /\ owner' = [owner EXCEPT ![s] = i]
  /\ listening' = listening \union {s}
  /\ opening' = opening \union {s}
  /\ raced' = IF Pending(i) = {} THEN raced ELSE raced \union {i}
  /\ UNCHANGED <<servers, handed>>

\* The map is set whatever it holds by now.
OpenResolves(s) ==
  /\ s \in opening
  /\ opening' = opening \ {s}
  /\ servers' = [servers EXCEPT ![owner[s]] = s]
  /\ handed' = [handed EXCEPT ![owner[s]] = @ \union {s}]
  /\ UNCHANGED <<owner, listening, raced>>

\* Mutant of OnClose: the entry stays in the map.
OnCloseKeepsEntry(i) ==
  /\ listening' = listening \ {servers[i]}
  /\ handed' = [handed EXCEPT ![i] = {}]
  /\ raced' = IF Pending(i) = {} THEN raced ELSE raced \union {i}
  /\ UNCHANGED <<servers, owner, opening>>

\* Nothing more happens after the await of the server's close.
OnClose(i) ==
  /\ servers' = [servers EXCEPT ![i] = None]
  /\ listening' = listening \ {servers[i]}
  /\ handed' = [handed EXCEPT ![i] = {}]
  /\ raced' = IF Pending(i) = {} THEN raced ELSE raced \union {i}
  /\ UNCHANGED <<owner, opening>>

HostStep ==
  \/ \E i \in Instance : OpenAgain(i) \/ OnClose(i) \/ \E s \in Server : OpenStarts(i, s)
  \/ \E s \in Server : OpenResolves(s)

-----------------------------------------------------------------------------
(* The page.                                                                *)

InFlight == {f \in DOMAIN fetches : fetches[f].phase \in {"sent", "answered"}}

\* The page begins its first fetch when it is loaded.
PageInit ==
  /\ issues = 1 /\ allIssues = 0 /\ content = "loading" /\ newest = 0 /\ crossed = FALSE
  /\ fetches = [f \in 1..MaxFetches |-> [phase |-> IF f = 1 THEN "sent" ELSE "new", list |-> 0]]

IssuesChange ==
  /\ issues < MaxIssues /\ issues' = issues + 1
  /\ UNCHANGED <<fetches, allIssues, content, newest, crossed>>

ClickRefresh(f) ==
  /\ fetches[f].phase = "new"
  /\ fetches' = [fetches EXCEPT ![f].phase = "sent"]
  /\ crossed' = (crossed \/ InFlight # {})
  /\ UNCHANGED <<issues, allIssues, content, newest>>

\* The server asks GitHub and answers with the list; with an empty one if the
\* repository is private, and with an object without issues if the call fails,
\* which the page takes for an empty list as well.
ServeIssues(f) ==
  /\ fetches[f].phase = "sent"
  /\ \E list \in {0, issues} : fetches' = [fetches EXCEPT ![f] = [phase |-> "answered", list |-> list]]
  /\ UNCHANGED <<issues, allIssues, content, newest, crossed>>

FetchResolves(f) ==
  /\ fetches[f].phase = "answered"
  /\ fetches' = [fetches EXCEPT ![f].phase = "done"]
  /\ allIssues' = fetches[f].list
  /\ content' = "list"
  /\ newest' = IF fetches[f].list > newest THEN fetches[f].list ELSE newest
  /\ UNCHANGED <<issues, crossed>>

FetchRejects(f) ==
  /\ f \in InFlight
  /\ fetches' = [fetches EXCEPT ![f].phase = "done"]
  /\ content' = "error"
  /\ UNCHANGED <<issues, allIssues, newest, crossed>>

\* A change of a filter shows the list the page holds, over an error too.
RenderIssues ==
  /\ content' = "list"
  /\ UNCHANGED <<issues, fetches, allIssues, newest, crossed>>

PageStep ==
  \/ IssuesChange \/ RenderIssues
  \/ \E f \in DOMAIN fetches : ClickRefresh(f) \/ ServeIssues(f) \/ FetchResolves(f) \/ FetchRejects(f)

BoardNext ==
  \/ HostStep /\ UNCHANGED pageVars
  \/ PageStep /\ UNCHANGED boardVars

BoardSpec == BoardInit /\ PageInit /\ [][BoardNext]_<<boardVars, pageVars>>

-----------------------------------------------------------------------------

\* Every URL the host holds is served: whatever calls overlapped, an instance
\* that was not closed since is never left with the address of a dead server.
\* (open, onClose)
UrlsAreServed == \A i \in Instance : handed[i] \subseteq listening

\* A server that no call of onClose can reach any more, or that listens for an
\* instance which is closed, comes from a race of the host's calls and from
\* nothing else.  (open, startServer, onClose)
NoOrphanServer ==
  \A s \in listening : owner[s] \notin raced =>
    \/ s \in opening
    \/ servers[owner[s]] = s /\ s \in handed[owner[s]]

\* A page never goes back to a list older than one it has shown, unless fetches
\* overlapped: an error leaves the list it holds, and a filter does not bring
\* back one that was replaced.  (fetchIssues, renderIssues)
PageKeepsUp == ~ crossed /\ content = "list" => allIssues \in {0, newest}

\* The board's URLs are served, no server is left without an owner but by a race
\* of the host's calls, and the page does not go back.
BoardServes == UrlsAreServed /\ NoOrphanServer /\ PageKeepsUp
=============================================================================
