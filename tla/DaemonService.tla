---------------------------- MODULE DaemonService ----------------------------
(***************************************************************************)
(* The requests to a daemon (src/src/daemon.c, src/src/main.c): clients    *)
(* connect, send a request and read the answer, or fall back to a build of *)
(* their own; the server serves one connection at a time from a graph that *)
(* it keeps in memory and reloads when the watcher, or the fingerprints,   *)
(* say that an authoring file has changed.                                 *)
(*                                                                         *)
(* The files of a workspace are an edition and whether they evaluate.      *)
(* Edits come at any time; the server and the clients die at any time.     *)
(***************************************************************************)
EXTENDS Naturals, Sequences, FiniteSets

CONSTANTS
    Client,
    Requests,   \* Requests[c]: what client c may ask for
    Workspace,
    Label,
    MaxEdits,   \* bound on the edits
    MaxAsks,    \* bound on the requests made
    None

\* A query names no label, and has nothing to fall back to.
ASSUME RequestAssumption ==
    \A c \in Client : \A r \in Requests[c] :
        /\ r \in [build : BOOLEAN, auto : BOOLEAN, ws : Workspace, label : Label \cup {None}]
        /\ r.build \/ (~r.auto /\ r.label = None)
ASSUME BoundAssumption ==
    /\ MaxEdits \in Nat /\ MaxAsks \in Nat /\ None \notin Client \cup Workspace

VARIABLES
    tree,      \* tree[w]: edition of the authoring files, and do they evaluate
    server,    \* the process: up, where it is, whom it serves, with what verdict
    loaded,    \* server->graph_loaded
    graph,     \* server->graph and the identity kept with it
    fps,       \* the edition that the fingerprints were taken of
    watch,     \* server->watcher, and the events in its queue
    backlog,   \* connections not yet accepted
    client,    \* client[c]: where it is, what it asks, what has been sent to it
    asks,      \* requests made so far
    edits,     \* edits made so far
    lost       \* history: an edit came during a "load", or its "event" was dropped

memory == <<loaded, graph, fps, watch>>
vars == <<tree, server, memory, backlog, client, asks, edits, lost>>

NoGraph == [ws |-> None, label |-> None, edition |-> 0]
NoWatch == [active |-> FALSE, incomplete |-> FALSE, missing |-> FALSE, events |-> {}]
\* Two fields are history: the edition when the request was made, and how the
\* daemon's build for it ended.
Idle == [at |-> "idle", ask |-> None, sent |-> <<>>, since |-> 0, built |-> None]
Down == [up |-> FALSE, at |-> "accept", client |-> None, verdict |-> "ok"]

Init ==
    /\ tree = [w \in Workspace |-> [edition |-> 0, sound |-> TRUE]]
    /\ server = [Down EXCEPT !.up = TRUE]
    /\ loaded = FALSE /\ graph = NoGraph /\ fps = 0 /\ watch = NoWatch
    /\ backlog = <<>>
    /\ client = [c \in Client |-> Idle]
    /\ asks = 0 /\ edits = 0
    /\ lost = {}

-----------------------------------------------------------------------------
\* A client, in main.c and qstar_daemon_build_client.

\* The client's end of the connection is open.
Attends(c) == client[c].at \in {"connected", "waiting", "reading"}

Moves(c, to) == client' = [client EXCEPT ![c].at = to]

\* The daemon has let go of the connection.
Closed(c) == ~(server.up /\ (server.client = c \/ \E i \in 1..Len(backlog) : backlog[i] = c))

\* What a client has sent can still be read when it has gone.
Ends(c) ==
    client' = [client EXCEPT ![c] =
        IF Closed(c) \/ client[c].at = "connected" THEN Idle
        ELSE [Idle EXCEPT !.at = "gone", !.ask = client[c].ask]]

\* qstar_daemon_build_client returns -1: main.c goes on by itself, or gives up.
Unavailable(c) ==
    IF client[c].ask.auto THEN Moves(c, "local") ELSE Ends(c)

Ask(c) ==
    /\ client[c].at \in {"idle", "gone"} /\ Closed(c)
    /\ asks < MaxAsks
    /\ asks' = asks + 1
    /\ \E r \in Requests[c] :
          /\ server.up \/ r.auto
          /\ client' = [client EXCEPT ![c] =
                [Idle EXCEPT !.at = IF server.up THEN "connected" ELSE "local",
                             !.ask = r, !.since = tree[r.ws].edition]]
    /\ backlog' = IF server.up THEN Append(backlog, c) ELSE backlog
    /\ UNCHANGED <<tree, server, memory, edits, lost>>

\* Writing to a closed connection kills the client: SIGPIPE is not handled.
Send(c) ==
    /\ client[c].at = "connected"
    /\ IF Closed(c) THEN Ends(c) ELSE Moves(c, "waiting")
    /\ UNCHANGED <<tree, server, memory, backlog, asks, edits, lost>>

\* read_response: the first line of the answer.
ReadMagic(c) ==
    /\ client[c].at = "waiting"
    /\ IF client[c].sent # <<>> THEN Moves(c, "reading")
       ELSE Closed(c) /\ Unavailable(c)
    /\ UNCHANGED <<tree, server, memory, backlog, asks, edits, lost>>

\* Mutation: a broken stream counts as an unavailable daemon.
InterruptedFallsBack(c) == Unavailable(c)

Interrupted(c) == Ends(c)

\* read_stream_response, read_buffered_response.
ReadFinal(c) ==
    /\ client[c].at = "reading"
    /\ IF Len(client[c].sent) = 2 THEN Ends(c)
       ELSE Closed(c) /\ Interrupted(c)
    /\ UNCHANGED <<tree, server, memory, backlog, asks, edits, lost>>

\* The client cannot write what it has read: -1, although the daemon builds.
OutputFails(c) ==
    /\ client[c].at = "reading"
    /\ IF client[c].ask.auto THEN Moves(c, "again") ELSE Ends(c)
    /\ UNCHANGED <<tree, server, memory, backlog, asks, edits, lost>>

LocalBuild(c) ==
    /\ client[c].at \in {"local", "again"}
    /\ Ends(c)
    /\ UNCHANGED <<tree, server, memory, backlog, asks, edits, lost>>

ClientKilled(c) ==
    /\ Attends(c)
    /\ Ends(c)
    /\ UNCHANGED <<tree, server, memory, backlog, asks, edits, lost>>

-----------------------------------------------------------------------------
\* The server.

Serves(to) == server' = [server EXCEPT !.at = to]
Gives(v, to) == server' = [server EXCEPT !.at = to, !.verdict = v]
Asked == client[server.client].ask

\* Everything the process keeps goes with it; connections break.
Dies ==
    /\ server' = Down
    /\ loaded' = FALSE /\ graph' = NoGraph /\ fps' = 0 /\ watch' = NoWatch
    /\ backlog' = <<>>

\* A line to the client; if it has gone, SIGPIPE takes the server.
Writes(line, step) ==
    IF Attends(server.client)
    THEN /\ step
         /\ client' = [client EXCEPT ![server.client].sent = Append(@, line)]
         /\ UNCHANGED <<memory, backlog>>
    ELSE Dies /\ UNCHANGED client

Waiting == Tail(backlog)

Accept ==
    /\ server.at = "accept" /\ backlog # <<>>
    /\ server' = [server EXCEPT !.at = "read", !.client = Head(backlog), !.verdict = "ok"]
    /\ backlog' = Waiting
    /\ UNCHANGED <<tree, memory, client, asks, edits, lost>>

LetGo == server' = [Down EXCEPT !.up = TRUE]

\* Mutation: the end of the connection is not noticed.
HangupMissed == FALSE

\* read_line fails.
Hangup == client[server.client].at = "idle"

\* The first line decides on the handler; a build opens its stream at once.
ReadRequest ==
    /\ server.at = "read"
    /\ CASE Hangup -> LetGo /\ UNCHANGED <<memory, backlog, client>>
         [] client[server.client].at \in {"waiting", "gone"} ->
              IF Asked.build THEN Writes("magic", Serves("ensure"))
              ELSE Serves("ensure") /\ UNCHANGED <<memory, backlog, client>>
         [] OTHER -> FALSE
    /\ UNCHANGED <<tree, asks, edits, lost>>

-----------------------------------------------------------------------------
\* ensure_graph, ensure_graph_for_query, load_graph.

\* same_identity for a build, same_graph_identity for a query.
SameIdentity(r) == graph.ws = r.ws /\ (r.build => graph.label = r.label)

Changed == fps # tree[graph.ws].edition

\* Mutation: fingerprints are for hosts that have no watcher.
UnwatchedOnly(w) == w.events # {} \/ (~w.active /\ Changed)

\* An event, or an overflow of the queue; else the fingerprints, where needed.
Outdated(w) == w.events # {} \/ ((~w.active \/ w.incomplete) /\ Changed)

\* watcher_poll.
Polled == [watch EXCEPT !.events = {},
                        !.incomplete = @ \/ "overflow" \in watch.events]

Refused(r) == Gives("fail", "final")

\* With a graph at hand.
Use(r) == Serves(IF r.build THEN "building" ELSE "final")

EnsureGraph ==
    /\ server.at = "ensure"
    /\ LET r == Asked
       IN  CASE loaded /\ graph.ws # r.ws -> Refused(r) /\ UNCHANGED watch
             [] loaded /\ SameIdentity(r) ->
                  /\ watch' = Polled
                  /\ IF Outdated(watch) THEN Serves("load") ELSE Use(r)
             [] OTHER -> Serves("load") /\ UNCHANGED watch
    /\ UNCHANGED <<tree, loaded, graph, fps, backlog, client, asks, edits, lost>>

\* load_graph up to the end of the evaluation.
LoadGraph ==
    /\ server.at = "load"
    /\ loaded' = FALSE
    /\ watch' = NoWatch
    /\ lost' = {}
    /\ IF tree[Asked.ws].sound
       THEN /\ graph' = [ws |-> Asked.ws, label |-> Asked.label, edition |-> tree[Asked.ws].edition]
            /\ Serves("fingerprint")
       ELSE graph' = NoGraph /\ Gives("fail", "final")
    /\ UNCHANGED <<tree, fps, backlog, client, asks, edits>>

\* capture_authoring_fps.
Fingerprint ==
    /\ server.at = "fingerprint"
    /\ fps' = tree[Asked.ws].edition
    /\ Serves("watch")
    /\ UNCHANGED <<tree, loaded, graph, watch, backlog, client, asks, edits, lost>>

\* watcher_refresh: a new queue; it may miss an authoring file, or all.
Refreshed ==
    {w \in [active : BOOLEAN, incomplete : BOOLEAN, missing : BOOLEAN, events : {{}}] :
        w.active \/ ~(w.incomplete \/ w.missing)}

WatchGraph ==
    /\ server.at = "watch"
    /\ watch' \in Refreshed
    /\ lost' = IF graph.edition # tree[graph.ws].edition THEN {"load"} ELSE {}
    /\ loaded' = TRUE
    /\ Use(Asked)
    /\ UNCHANGED <<tree, graph, fps, backlog, client, asks, edits>>

-----------------------------------------------------------------------------
\* The build, and the end of a request.

\* A line of output for a client that has gone.
BuildLosesClient ==
    /\ server.at = "building"
    /\ ~Attends(server.client)
    /\ Dies
    /\ UNCHANGED <<tree, client, asks, edits, lost>>

BuildEnds ==
    /\ server.at = "building"
    /\ \E v \in {"ok", "fail"} :
          /\ Gives(v, IF v = "ok" /\ watch.active /\ watch.missing THEN "refresh" ELSE "final")
          /\ client' = IF Attends(server.client)
                       THEN [client EXCEPT ![server.client].built = v] ELSE client
    /\ UNCHANGED <<tree, memory, backlog, asks, edits, lost>>

\* Outputs that were missing can be watched now; the old queue is closed.
Rewatch ==
    /\ server.at = "refresh"
    /\ watch' \in Refreshed
    /\ lost' = lost \cup IF graph.edition # tree[graph.ws].edition THEN {"event"} ELSE {}
    /\ Serves("final")
    /\ UNCHANGED <<tree, loaded, graph, fps, backlog, client, asks, edits>>

\* The final line; the answer to a query begins only here.
Answer ==
    /\ server.at = "final"
    /\ IF client[server.client].sent = <<>>
       THEN Writes("magic", UNCHANGED server)
       ELSE Writes(server.verdict, LetGo)
    /\ UNCHANGED <<tree, asks, edits, lost>>

ServerDies ==
    /\ server.up
    /\ Dies
    /\ UNCHANGED <<tree, client, asks, edits, lost>>

ServerStarts ==
    /\ ~server.up
    /\ server' = [Down EXCEPT !.up = TRUE]
    /\ UNCHANGED <<tree, memory, backlog, client, asks, edits, lost>>

-----------------------------------------------------------------------------
\* An edit of authoring files, and the event of it: queued, or lost in an
\* overflow, or not seen by a watcher that is incomplete.
Watched(w) == watch.active /\ graph.ws = w

Edit(w) ==
    /\ edits < MaxEdits
    /\ edits' = edits + 1
    /\ \E sound \in BOOLEAN :
          tree' = [tree EXCEPT ![w] = [edition |-> @.edition + 1, sound |-> sound]]
    /\ \E e \in {{"authoring"}, {"overflow"}, {}} :
          /\ IF Watched(w) THEN e # {} \/ watch.incomplete ELSE e = {}
          /\ watch' = [watch EXCEPT !.events = @ \cup e]
    /\ UNCHANGED <<server, loaded, graph, fps, backlog, client, asks, lost>>

ClientStep(c) ==
    Send(c) \/ ReadMagic(c) \/ ReadFinal(c) \/ LocalBuild(c)

ServerStep ==
    \/ Accept \/ ReadRequest
    \/ EnsureGraph \/ LoadGraph \/ Fingerprint \/ WatchGraph
    \/ BuildEnds \/ Rewatch \/ Answer

Next ==
    \/ \E c \in Client : Ask(c) \/ OutputFails(c) \/ ClientKilled(c) \/ ClientStep(c)
    \/ ServerStep \/ BuildLosesClient \/ ServerDies \/ ServerStarts
    \/ \E w \in Workspace : Edit(w)

\* Clients and server go on, and builds end (Scheduler!Terminates).
Spec == Init /\ [][Next]_vars /\ WF_vars(ServerStep)
             /\ \A c \in Client : WF_vars(ClientStep(c))

-----------------------------------------------------------------------------
TypeOK ==
    /\ tree \in [Workspace -> [edition : 0..MaxEdits, sound : BOOLEAN]]
    /\ server.client \in Client \cup {None} /\ server.verdict \in {"ok", "fail"}
    /\ server.client = None <=> server.at = "accept"
    /\ graph.ws \in Workspace \cup {None} /\ graph.edition \in 0..MaxEdits
    /\ loaded => graph.ws # None
    /\ watch.events \subseteq {"authoring", "overflow"} /\ fps \in 0..MaxEdits
    /\ \A i \in 1..Len(backlog) : \A j \in 1..Len(backlog) \cup {0} :
          i # j => backlog[i] # (IF j = 0 THEN server.client ELSE backlog[j])
    /\ \A c \in Client : client[c].sent \in {<<>>} \cup {<<"magic">>} \cup {<<"magic", v>> : v \in {"ok", "fail"}}
    /\ lost \subseteq {"load", "event"}

\* A request has its graph.
Using == server.at \in {"building", "refresh"} \/ (server.at = "final" /\ loaded)

Current == graph.ws = Asked.ws => graph.edition >= client[server.client].since

(***************************************************************************)
(* A request is served from authoring files no older than the request,     *)
(* whatever the watcher missed, overflowed or reported to a request of     *)
(* another kind -- unless an edit fell into a load or its event was        *)
(* discarded by the refresh after a build.                                 *)
(***************************************************************************)
GraphIsCurrent == Using /\ lost = {} => Current

(***************************************************************************)
(* What is built is what was asked for: the workspace and the label of the *)
(* request that is being served, although both kinds of request load and   *)
(* replace the one graph.                                                  *)
(***************************************************************************)
BuildsWhatIsAsked ==
    server.at = "building" =>
      loaded /\ graph.ws = Asked.ws /\ graph.label = Asked.label

\* The daemon has done nothing for the request of c, and does nothing for it.
NotBuilt(c) == client[c].built = None /\ server.client # c

(***************************************************************************)
(* A client that takes the daemon for unavailable is right: when it falls  *)
(* back to a build of its own, the daemon has no build of the request      *)
(* under way or done, wherever it died.  A client that falls back because  *)
(* it cannot write what it has read ("again") is left to BuiltOnce.        *)
(***************************************************************************)
UnavailableMeansUnbuilt == \A c \in Client : client[c].at = "local" => NotBuilt(c)

(***************************************************************************)
(* No request is built twice: whatever makes a client fall back, the       *)
(* daemon builds nothing for it.  "Fallback은 연결 실패나 request 전송     *)
(* 실패처럼 build stream이 시작되기 전의 unavailable 상태에만 적용한다"    *)
(* (docs/daemon/stella-daemon.md:241-242).                                 *)
(***************************************************************************)
BuiltOnce == \A c \in Client : client[c].at \in {"local", "again"} => NotBuilt(c)

(***************************************************************************)
(* A client that is told of success has had a successful build of its      *)
(* request; one that was refused, or whose graph did not load, is not.     *)
(***************************************************************************)
SuccessWasBuilt ==
    \A c \in Client :
      client[c].sent = <<"magic", "ok">> /\ client[c].ask.build => client[c].built = "ok"

(***************************************************************************)
(* The answer to a request is that of a build of this request, from        *)
(* authoring files that are no older than it.                              *)
(***************************************************************************)
RightAnswer == TypeOK /\ GraphIsCurrent /\ BuildsWhatIsAsked /\ SuccessWasBuilt

(***************************************************************************)
(* Every client gets an end, whoever else is killed, waits, or takes the   *)
(* daemon along.                                                           *)
(***************************************************************************)
AllAnswered ==
    \A c \in Client :
      client[c].at \in {"connected", "waiting", "reading", "local", "again"} ~>
        client[c].at \in {"idle", "gone"}

(***************************************************************************)
(* "Event loss, overflow, or backend errors are conservative graph         *)
(* invalidation events" (docs/daemon/stella-daemon.md:322): once a graph   *)
(* is loaded and watched, it is not used for requests made after an edit.  *)
(***************************************************************************)
NoEventIsLost == Using /\ "load" \notin lost => Current
=============================================================================
