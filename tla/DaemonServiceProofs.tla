------------------------- MODULE DaemonServiceProofs -------------------------
(***************************************************************************)
(* Theorems about DaemonService, for every set of clients, requests and    *)
(* workspaces, and every bound on the edits and requests.                  *)
(***************************************************************************)
EXTENDS DaemonService, TLAPS

Verdict == {"ok", "fail"}
Lines == {<<>>, <<"magic">>, <<"magic", "ok">>, <<"magic", "fail">>}
Asking == [build : BOOLEAN, auto : BOOLEAN, ws : Workspace, label : Label \cup {None}]

Tree == [edition : 0..MaxEdits, sound : BOOLEAN]
Process == [up : BOOLEAN,
            at : {"accept", "read", "ensure", "load", "fingerprint", "watch",
                  "building", "refresh", "final"},
            client : Client \cup {None}, verdict : Verdict]
Graph == [ws : Workspace \cup {None}, label : Label \cup {None}, edition : 0..MaxEdits]
Watch == [active : BOOLEAN, incomplete : BOOLEAN, missing : BOOLEAN,
          events : SUBSET {"authoring", "overflow"}]
Caller == [at : {"idle", "connected", "waiting", "reading", "local", "again", "gone"},
           ask : Asking \cup {None}, sent : Lines, since : 0..MaxEdits,
           built : Verdict \cup {None}]

Queued(c) == \E i \in 1..Len(backlog) : backlog[i] = c

TypeInv ==
    /\ tree \in [Workspace -> Tree] /\ edits \in 0..MaxEdits
    /\ \A w \in Workspace : tree[w].edition <= edits
    /\ server \in Process
    /\ server.client = None <=> server.at = "accept"
    /\ loaded \in BOOLEAN /\ graph \in Graph /\ fps \in 0..MaxEdits /\ watch \in Watch
    /\ lost \subseteq {"load", "event"}
    /\ client \in [Client -> Caller]

\* Each connection is in one place; a process that is not there has none.
ConnectionsInv ==
    /\ backlog \in Seq(Client)
    /\ \A i, j \in 1..Len(backlog) : i # j => backlog[i] # backlog[j]
    /\ \A i \in 1..Len(backlog) : backlog[i] # server.client
    /\ ~server.up => server.at = "accept" /\ backlog = <<>>

\* A client by itself, and what the daemon has told it.
ClientInv(c) ==
    /\ client[c].at # "idle"
         => /\ client[c].ask \in Requests[c]
            /\ client[c].since <= tree[client[c].ask.ws].edition
    /\ client[c].sent # <<>> => client[c].at \in {"waiting", "reading", "again"}
    /\ client[c].built # None => client[c].sent # <<>>
    /\ client[c].at = "local" => client[c].sent = <<>> /\ server.client # c /\ ~Queued(c)
    /\ client[c].sent = <<"magic", "ok">> /\ client[c].ask.build => client[c].built = "ok"

\* A client whose request has not been read.
Unread(c) ==
    client[c].at \in {"idle", "connected", "waiting", "gone"} /\ client[c].sent = <<>>

\* A client whose request is being served.
Served(c) ==
    /\ client[c].at \in {"waiting", "reading", "again", "gone"}
    /\ client[c].sent \in {<<>>, <<"magic">>}
    /\ client[c].ask.build /\ Attends(c) => client[c].sent = <<"magic">>

TalkInv ==
    /\ \A c \in Client : ClientInv(c)
    /\ \A c \in Client : Queued(c) => Unread(c)
    /\ server.at = "read" => Unread(server.client)
    /\ server.at \notin {"accept", "read"} => Served(server.client)
    /\ server.at \in {"refresh", "final"} /\ server.verdict = "ok"
         /\ Asked.build /\ Attends(server.client) => client[server.client].built = "ok"

\* The graph is as old as its fingerprints, and what has changed since shows.
MemoryInv ==
    loaded =>
      /\ graph.ws # None /\ graph.edition <= tree[graph.ws].edition
      /\ lost = {} =>
           /\ fps = graph.edition
           /\ server.at # "load" =>
                graph.edition = tree[graph.ws].edition \/ Outdated(watch)

\* What the request that is served makes of the graph.
RequestInv ==
    /\ server.at \in {"fingerprint", "watch"} =>
         /\ graph.ws = Asked.ws /\ graph.label = Asked.label
         /\ graph.edition <= tree[graph.ws].edition /\ ~loaded
    /\ server.at = "watch" =>
         graph.edition <= fps /\ fps <= tree[graph.ws].edition
    /\ server.at = "building" =>
         Asked.build /\ loaded /\ graph.ws = Asked.ws /\ graph.label = Asked.label
    /\ server.at = "refresh" => loaded
    /\ Using /\ lost = {} => Current

IInv == TypeInv /\ ConnectionsInv /\ TalkInv /\ MemoryInv /\ RequestInv

-----------------------------------------------------------------------------
\* Records and queues.

LEMMA NoneIsNobody == \A c \in Client : c # None
BY BoundAssumption

LEMMA LinesDiffer ==
  /\ <<>> # <<"magic">> /\ <<>> # <<"magic", "ok">> /\ <<>> # <<"magic", "fail">>
  /\ <<"magic">> # <<"magic", "ok">> /\ <<"magic">> # <<"magic", "fail">>
  /\ <<"magic", "fail">> # <<"magic", "ok">>
OBVIOUS

LEMMA IdleCaller ==
  /\ Idle \in Caller
  /\ Idle.at = "idle" /\ Idle.sent = <<>> /\ Idle.since = 0 /\ Idle.built = None
BY BoundAssumption DEF Idle, Caller, Lines

LEMMA DownProcess ==
  /\ Down \in Process
  /\ Down.up = FALSE /\ Down.at = "accept" /\ Down.client = None /\ Down.verdict = "ok"
BY DEF Down, Process, Verdict

LEMMA UpProcess ==
  /\ [Down EXCEPT !.up = TRUE] \in Process
  /\ [Down EXCEPT !.up = TRUE].up /\ [Down EXCEPT !.up = TRUE].at = "accept"
  /\ [Down EXCEPT !.up = TRUE].client = None /\ [Down EXCEPT !.up = TRUE].verdict = "ok"
BY DownProcess DEF Process

LEMMA EmptyMemory ==
  /\ NoGraph \in Graph /\ NoWatch \in Watch /\ 0 \in 0..MaxEdits
  /\ NoWatch.events = {} /\ ~NoWatch.active
BY BoundAssumption DEF NoGraph, NoWatch, Graph, Watch

LEMMA Asked0 ==
  ASSUME NEW c \in Client, NEW r \in Requests[c]
  PROVE  /\ r \in Asking /\ r.ws \in Workspace /\ r.label \in Label \cup {None}
         /\ r.build \in BOOLEAN /\ r.auto \in BOOLEAN
         /\ r.build \/ (~r.auto /\ r.label = None)
BY RequestAssumption DEF Asking

\* Taking the first connection, and adding one.
LEMMA TailQueue ==
  ASSUME ConnectionsInv, backlog # <<>>
  PROVE  /\ Head(backlog) \in Client /\ Tail(backlog) \in Seq(Client)
         /\ Len(Tail(backlog)) = Len(backlog) - 1 /\ Len(backlog) \in Nat \ {0}
         /\ \A i \in 1..Len(Tail(backlog)) : Tail(backlog)[i] = backlog[i + 1]
         /\ Head(backlog) = backlog[1]
BY DEF ConnectionsInv

LEMMA AppendQueue ==
  ASSUME ConnectionsInv, NEW c \in Client
  PROVE  /\ Append(backlog, c) \in Seq(Client)
         /\ Len(Append(backlog, c)) = Len(backlog) + 1 /\ Len(backlog) \in Nat
         /\ \A i \in 1..Len(backlog) : Append(backlog, c)[i] = backlog[i]
         /\ Append(backlog, c)[Len(backlog) + 1] = c
BY DEF ConnectionsInv

LEMMA ClosedMeans ==
  ASSUME ConnectionsInv, TypeInv, NEW c \in Client
  PROVE  Closed(c) <=> server.client # c /\ ~Queued(c)
<1>1. CASE server.up
  BY <1>1 DEF Closed, Queued
<1>2. CASE ~server.up
  <2>1. server.client = None /\ Len(backlog) = 0
    BY <1>2 DEF ConnectionsInv, TypeInv
  <2> QED
    BY <1>2, <2>1, NoneIsNobody DEF Closed, Queued
<1> QED
  BY <1>1, <1>2

-----------------------------------------------------------------------------
\* A client that moves by itself.

Ended(c) ==
    /\ client'[c].at = "idle" /\ client'[c].sent = <<>> /\ client'[c].built = None
    /\ client'[c].since = 0
    /\ Closed(c) \/ client[c].at = "connected"

Left(c) ==
    /\ client'[c].at = "gone" /\ client'[c].ask = client[c].ask
    /\ client'[c].sent = <<>> /\ client'[c].built = None /\ client'[c].since = 0
    /\ client[c].at \notin {"idle", "connected"}

Went(c) ==
    /\ client'[c].ask = client[c].ask /\ client'[c].sent = client[c].sent
    /\ client'[c].since = client[c].since /\ client'[c].built = client[c].built
    /\ \/ client[c].at = "connected" /\ client'[c].at = "waiting"
       \/ client[c].at = "waiting" /\ client'[c].at = "reading" /\ client[c].sent # <<>>
       \/ client[c].at = "waiting" /\ client'[c].at = "local" /\ client[c].sent = <<>> /\ Closed(c)
       \/ client[c].at = "reading" /\ client'[c].at = "again"

LEMMA EndsEffect ==
  ASSUME TypeInv, NEW c \in Client, Ends(c), client[c].at # "idle"
  PROVE  /\ client' \in [Client -> Caller]
         /\ \A d \in Client \ {c} : client'[d] = client[d]
         /\ Ended(c) \/ Left(c)
<1> DEFINE gone == [Idle EXCEPT !.at = "gone", !.ask = client[c].ask]
           r == IF Closed(c) \/ client[c].at = "connected" THEN Idle ELSE gone
<1>1. client \in [Client -> Caller] /\ client[c] \in Caller
  BY DEF TypeInv
<1>2. gone \in Caller /\ gone.at = "gone" /\ gone.ask = client[c].ask /\ gone.sent = <<>>
      /\ gone.built = None /\ gone.since = 0
  BY <1>1, IdleCaller DEF Caller
<1>3. client' = [client EXCEPT ![c] = r]
  BY DEF Ends
<1> HIDE DEF gone
<1>4. r \in Caller
  BY <1>2, IdleCaller
<1>5. client' \in [Client -> Caller] /\ client'[c] = r
      /\ \A d \in Client \ {c} : client'[d] = client[d]
  BY <1>1, <1>3, <1>4
<1> QED
  BY <1>2, <1>5, IdleCaller DEF Ended, Left

LEMMA MovesEffect ==
  ASSUME TypeInv, NEW c \in Client, NEW to \in {"waiting", "reading", "local", "again"},
         Moves(c, to)
  PROVE  /\ client' \in [Client -> Caller]
         /\ \A d \in Client \ {c} : client'[d] = client[d]
         /\ client'[c].at = to
         /\ client'[c].ask = client[c].ask /\ client'[c].sent = client[c].sent
         /\ client'[c].since = client[c].since /\ client'[c].built = client[c].built
BY DEF TypeInv, Moves, Caller

ClientMoves(c) ==
    Send(c) \/ ReadMagic(c) \/ ReadFinal(c) \/ OutputFails(c) \/ LocalBuild(c) \/ ClientKilled(c)

LEMMA ClientEffect ==
  ASSUME TypeInv, NEW c \in Client, ClientMoves(c)
  PROVE  /\ UNCHANGED <<tree, server, loaded, graph, fps, watch, backlog, edits, lost>>
         /\ client' \in [Client -> Caller]
         /\ \A d \in Client \ {c} : client'[d] = client[d]
         /\ Ended(c) \/ Left(c) \/ Went(c)
<1>1. UNCHANGED <<tree, server, loaded, graph, fps, watch, backlog, edits, lost>>
  BY DEF ClientMoves, Send, ReadMagic, ReadFinal, OutputFails, LocalBuild, ClientKilled, memory
<1>2. CASE Ends(c) /\ client[c].at # "idle"
  BY <1>1, <1>2, EndsEffect
<1>3. CASE Moves(c, "waiting") /\ client[c].at = "connected"
  BY <1>1, <1>3, MovesEffect DEF Went
<1>4. CASE Moves(c, "reading") /\ client[c].at = "waiting" /\ client[c].sent # <<>>
  BY <1>1, <1>4, MovesEffect DEF Went
<1>5. CASE Moves(c, "local") /\ client[c].at = "waiting" /\ client[c].sent = <<>> /\ Closed(c)
  BY <1>1, <1>5, MovesEffect DEF Went
<1>6. CASE Moves(c, "again") /\ client[c].at = "reading"
  BY <1>1, <1>6, MovesEffect DEF Went
<1> QED
  BY <1>2, <1>3, <1>4, <1>5, <1>6
     DEF ClientMoves, Send, ReadMagic, ReadFinal, OutputFails, LocalBuild, ClientKilled,
         Unavailable, Interrupted, Attends

-----------------------------------------------------------------------------
\* The invariant, one kind of step after the other.

LEMMA InitInv == Init => IInv
<1> SUFFICES ASSUME Init PROVE IInv
  OBVIOUS
<1>1. TypeInv
  <2>1. tree \in [Workspace -> Tree] /\ \A w \in Workspace : tree[w].edition <= 0
    BY BoundAssumption DEF Init, Tree
  <2>2. server \in Process /\ server.client = None /\ server.at = "accept"
    BY UpProcess DEF Init
  <2> QED
    BY <2>1, <2>2, BoundAssumption, EmptyMemory, IdleCaller DEF Init, TypeInv
<1>2. backlog = <<>> /\ Len(backlog) = 0 /\ server.at = "accept" /\ server.up
  BY UpProcess DEF Init
<1>3. ConnectionsInv
  BY <1>2 DEF ConnectionsInv
<1>4. TalkInv
  <2>1. ASSUME NEW c \in Client PROVE client[c] = Idle /\ ~Queued(c)
    BY <1>2 DEF Init, Queued
  <2>2. \A c \in Client : ClientInv(c)
    BY <2>1, IdleCaller, LinesDiffer DEF ClientInv
  <2> QED
    BY <1>2, <2>1, <2>2 DEF TalkInv
<1>5. MemoryInv /\ RequestInv
  BY <1>2 DEF Init, MemoryInv, RequestInv, Using
<1> QED
  BY <1>1, <1>3, <1>4, <1>5 DEF IInv

LEMMA ClientMovesStep ==
  ASSUME IInv, NEW c \in Client, ClientMoves(c)
  PROVE  IInv'
<1>0. TypeInv /\ ConnectionsInv /\ TalkInv /\ MemoryInv /\ RequestInv
  BY DEF IInv
<1>1. /\ UNCHANGED <<tree, server, loaded, graph, fps, watch, backlog, edits, lost>>
      /\ client' \in [Client -> Caller]
      /\ \A d \in Client \ {c} : client'[d] = client[d]
      /\ Ended(c) \/ Left(c) \/ Went(c)
  BY <1>0, ClientEffect
<1>2. Closed(c) <=> server.client # c /\ ~Queued(c)
  BY <1>0, ClosedMeans
<1>3. TypeInv' /\ ConnectionsInv' /\ MemoryInv'
  BY <1>0, <1>1 DEF TypeInv, ConnectionsInv, MemoryInv, Outdated, Changed
<1>4. ClientInv(c) /\ (Queued(c) => Unread(c))
  BY <1>0 DEF TalkInv
<1>5. server.at \notin {"accept", "read"} => server.client \in Client /\ Served(server.client)
  BY <1>0 DEF TypeInv, Process, TalkInv
<1>6. client[c].at # "idle" =>
        /\ client[c].ask.ws \in Workspace /\ tree[client[c].ask.ws].edition \in Nat
        /\ client[c].ask.build \in BOOLEAN
  BY <1>0, <1>4, Asked0, BoundAssumption DEF ClientInv, TypeInv, Tree
<1>7. ClientInv(c)'
  BY <1>1, <1>2, <1>4, <1>6 DEF ClientInv, Ended, Left, Went, Queued
<1>8. Queued(c)' => Unread(c)'
  BY <1>1, <1>2, <1>4 DEF Unread, Ended, Left, Went, Queued
<1>9. ASSUME NEW d \in Client \ {c} PROVE ClientInv(d)' /\ (Queued(d)' => Unread(d)')
  BY <1>0, <1>1 DEF TalkInv, ClientInv, Queued, Unread
<1>10. server'.at = "read" => Unread(server.client)'
  <2>1. server.at = "read" => Unread(server.client)
    BY <1>0 DEF TalkInv
  <2>2. server.at = "read" => server.client \in Client
    BY <1>0 DEF TypeInv, Process
  <2> QED
    BY <1>1, <1>2, <2>1, <2>2 DEF Unread, Ended, Left, Went
<1>11. server.at \notin {"accept", "read"} /\ server.client = c => Left(c) \/ Went(c)
  BY <1>1, <1>2, <1>5 DEF Ended, Served
<1>12. server'.at \notin {"accept", "read"} => Served(server.client)'
  BY <1>1, <1>2, <1>5, <1>11 DEF Served, Left, Went, Attends
<1>13. server.at \in {"refresh", "final"} /\ server.verdict = "ok"
         /\ Asked' = Asked /\ Asked.build /\ Attends(server.client)'
         => client'[server.client].built = "ok"
  BY <1>0, <1>1, <1>2, <1>5, <1>11 DEF TalkInv, Asked, Attends, Left, Went
<1>14. server.at \notin {"accept", "read"} => Asked' = Asked
  BY <1>1, <1>5, <1>11 DEF Asked, Left, Went
<1>15. TalkInv'
  BY <1>1, <1>7, <1>8, <1>9, <1>10, <1>12, <1>13, <1>14 DEF TalkInv
<1>16. server.at \notin {"accept", "read"} /\ Current => Current'
  <2>1. graph.edition \in Nat
    BY <1>0 DEF TypeInv, Graph
  <2>2. server.at \notin {"accept", "read"}
          => client'[server.client].since \in {client[server.client].since, 0}
    BY <1>1, <1>5, <1>11 DEF Left, Went
  <2> QED
    BY <1>1, <1>14, <2>1, <2>2 DEF Current
<1>17. RequestInv'
  BY <1>0, <1>1, <1>14, <1>16 DEF RequestInv, Using
<1> QED
  BY <1>3, <1>15, <1>17 DEF IInv

LEMMA AskStep ==
  ASSUME IInv, NEW c \in Client, Ask(c)
  PROVE  IInv'
<1>0. TypeInv /\ ConnectionsInv /\ TalkInv /\ MemoryInv /\ RequestInv
  BY DEF IInv
<1>1. PICK r \in Requests[c] :
         /\ server.up \/ r.auto
         /\ client' = [client EXCEPT ![c] =
                [Idle EXCEPT !.at = IF server.up THEN "connected" ELSE "local",
                             !.ask = r, !.since = tree[r.ws].edition]]
  BY DEF Ask
<1>2. /\ UNCHANGED <<tree, server, loaded, graph, fps, watch, edits, lost>>
      /\ backlog' = IF server.up THEN Append(backlog, c) ELSE backlog
      /\ server.client # c /\ ~Queued(c)
  BY <1>0, ClosedMeans DEF Ask, memory
<1>3. r \in Asking /\ r.ws \in Workspace /\ tree[r.ws].edition \in 0..MaxEdits
  BY <1>0, Asked0 DEF TypeInv, Tree
<1> DEFINE new == [Idle EXCEPT !.at = IF server.up THEN "connected" ELSE "local",
                               !.ask = r, !.since = tree[r.ws].edition]
<1>4. /\ new \in Caller /\ new.at = (IF server.up THEN "connected" ELSE "local")
      /\ new.ask = r /\ new.since = tree[r.ws].edition
      /\ new.sent = <<>> /\ new.built = None
  BY <1>3, IdleCaller DEF Caller
<1> HIDE DEF new
<1>5. /\ client' \in [Client -> Caller] /\ client'[c] = new
      /\ \A d \in Client \ {c} : client'[d] = client[d]
  BY <1>0, <1>1, <1>4 DEF TypeInv, new
<1>6. TypeInv' /\ MemoryInv'
  BY <1>0, <1>2, <1>5 DEF TypeInv, MemoryInv, Outdated, Changed
<1>7. /\ ConnectionsInv'
      /\ \A d \in Client \ {c} : Queued(d)' => Queued(d)
      /\ ~server.up => ~Queued(c)'
  <2>1. CASE ~server.up
    BY <1>0, <1>2, <2>1 DEF ConnectionsInv, Queued
  <2>2. CASE server.up
    <3>1. /\ backlog' \in Seq(Client) /\ Len(backlog') = Len(backlog) + 1 /\ Len(backlog) \in Nat
          /\ \A i \in 1..Len(backlog) : backlog'[i] = backlog[i] /\ backlog'[i] # c
          /\ backlog'[Len(backlog) + 1] = c
      BY <1>0, <1>2, <2>2, AppendQueue DEF Queued
    <3>2. \A i \in 1..Len(backlog') : i \in 1..Len(backlog) \/ i = Len(backlog) + 1
      BY <3>1
    <3> QED
      BY <1>0, <1>2, <2>2, <3>1, <3>2 DEF ConnectionsInv, Queued
  <2> QED
    BY <2>1, <2>2
<1>8. ClientInv(c)'
  <2>1. /\ client'[c].at \in {"connected", "local"} /\ client'[c].ask = r
        /\ client'[c].sent = <<>> /\ client'[c].built = None
        /\ client'[c].since = tree'[r.ws].edition
        /\ client'[c].at = "local" => ~server.up
    BY <1>2, <1>4, <1>5
  <2>2. client'[c].since <= tree'[client'[c].ask.ws].edition
    BY <1>2, <1>3, <2>1, BoundAssumption
  <2> QED
    BY <1>2, <1>7, <2>1, <2>2, LinesDiffer DEF ClientInv
<1>9. Queued(c)' => Unread(c)'
  BY <1>4, <1>5, <1>7 DEF Unread
<1>10. ASSUME NEW d \in Client \ {c} PROVE ClientInv(d)' /\ (Queued(d)' => Unread(d)')
  BY <1>0, <1>2, <1>5, <1>7 DEF TalkInv, ClientInv, Unread
<1>11. server.at # "accept" => server.client \in Client \ {c}
  BY <1>0, <1>2 DEF TypeInv, Process
<1>12. server.at # "accept" =>
         client'[server.client] = client[server.client] /\ Asked' = Asked
  BY <1>2, <1>5, <1>11 DEF Asked
<1>13. TalkInv'
  BY <1>0, <1>2, <1>8, <1>9, <1>10, <1>12 DEF TalkInv, Unread, Served, Attends
<1>14. RequestInv'
  BY <1>0, <1>2, <1>12 DEF RequestInv, Using, Current
<1> QED
  BY <1>6, <1>7, <1>13, <1>14 DEF IInv

-----------------------------------------------------------------------------
\* The process: it goes on with a request, lets go of it, or dies.

LEMMA ServesEffect ==
  ASSUME TypeInv, NEW to \in {"ensure", "load", "fingerprint", "watch", "building", "refresh", "final"}
  PROVE  /\ Serves(to) => /\ server' \in Process /\ server'.client = server.client
                          /\ server'.up = server.up /\ server'.at = to
                          /\ server'.verdict = server.verdict
         /\ \A v \in Verdict : Gives(v, to) =>
              /\ server' \in Process /\ server'.client = server.client
              /\ server'.up = server.up /\ server'.at = to /\ server'.verdict = v
BY DEF TypeInv, Serves, Gives, Process

LEMMA ServingFacts ==
  ASSUME TypeInv, TalkInv, server.at \notin {"accept", "read"}
  PROVE  /\ server.client \in Client /\ Served(server.client) /\ ClientInv(server.client)
         /\ Asked \in Requests[server.client] /\ Asked \in Asking
         /\ Asked.ws \in Workspace /\ Asked.ws # None
         /\ Asked.label \in Label \cup {None} /\ Asked.build \in BOOLEAN
         /\ tree[Asked.ws].edition \in 0..MaxEdits
         /\ tree[Asked.ws].edition \in Nat
         /\ client[server.client].since \in Nat
         /\ client[server.client].since <= tree[Asked.ws].edition
<1>1. server.client \in Client /\ Served(server.client) /\ ClientInv(server.client)
  BY DEF TypeInv, Process, TalkInv
<1>2. Asked \in Requests[server.client] /\ client[server.client].since <= tree[Asked.ws].edition
  BY <1>1 DEF Served, ClientInv, Asked
<1>3. Asked \in Asking /\ Asked.ws \in Workspace /\ Asked.label \in Label \cup {None}
      /\ Asked.build \in BOOLEAN
  BY <1>1, <1>2, Asked0
<1>4. tree[Asked.ws].edition \in 0..MaxEdits /\ client[server.client].since \in 0..MaxEdits
  BY <1>1, <1>3 DEF TypeInv, Tree, Caller
<1> QED
  BY <1>1, <1>2, <1>3, <1>4, BoundAssumption

\* A step of the process that concerns no client's state.
LEMMA GoesOn ==
  ASSUME TypeInv, ConnectionsInv, TalkInv, server.at \notin {"accept", "read"},
         UNCHANGED <<tree, backlog, client, edits>>,
         server' \in Process, server'.client = server.client, server'.up = server.up,
         server'.at \notin {"accept", "read"},
         loaded' \in BOOLEAN, graph' \in Graph, fps' \in 0..MaxEdits, watch' \in Watch,
         lost' \subseteq {"load", "event"},
         server'.at \in {"refresh", "final"} /\ server'.verdict = "ok" /\ Asked.build
           /\ Attends(server.client) => client[server.client].built = "ok"
  PROVE  TypeInv' /\ ConnectionsInv' /\ TalkInv' /\ Asked' = Asked
<1>1. server.client \in Client /\ Served(server.client)
  BY ServingFacts
<1>2. TypeInv'
  BY <1>1, NoneIsNobody DEF TypeInv
<1>3. ConnectionsInv'
  BY DEF ConnectionsInv
<1>4. Asked' = Asked
  BY DEF Asked
<1>5. \A c \in Client : ClientInv(c)' /\ (Queued(c)' => Unread(c)')
  BY DEF TalkInv, ClientInv, Queued, Unread
<1>6. Served(server.client)'
  BY <1>1 DEF Served, Attends
<1>7. TalkInv'
  BY <1>4, <1>5, <1>6 DEF TalkInv, Attends
<1> QED
  BY <1>2, <1>3, <1>4, <1>7

LEMMA DiesStep ==
  ASSUME IInv, Dies, UNCHANGED <<tree, client, edits, lost>>
  PROVE  IInv'
<1>0. TypeInv /\ ConnectionsInv /\ TalkInv /\ MemoryInv /\ RequestInv
  BY DEF IInv
<1>1. /\ server' \in Process /\ server'.at = "accept" /\ server'.client = None /\ ~server'.up
      /\ loaded' = FALSE /\ graph' = NoGraph /\ fps' = 0 /\ watch' = NoWatch
      /\ backlog' = <<>> /\ Len(backlog') = 0
  BY DownProcess DEF Dies
<1>2. TypeInv' /\ ConnectionsInv'
  <2>1. TypeInv'
    BY <1>0, <1>1, EmptyMemory DEF TypeInv
  <2>2. backlog' \in Seq(Client) /\ 1..Len(backlog') = {}
    BY <1>1
  <2> QED
    BY <1>1, <2>1, <2>2 DEF ConnectionsInv
<1>3. \A c \in Client : ClientInv(c)' /\ ~Queued(c)'
  BY <1>0, <1>1, NoneIsNobody DEF TalkInv, ClientInv, Queued
<1>4. TalkInv' /\ MemoryInv' /\ RequestInv'
  BY <1>1, <1>3 DEF TalkInv, MemoryInv, RequestInv, Using
<1> QED
  BY <1>2, <1>4 DEF IInv

\* The process is at its accept loop: it has let go of a connection, or begins.
LEMMA FreeStep ==
  ASSUME IInv, LetGo, UNCHANGED <<tree, memory, backlog, client, edits, lost>>,
         server.at # "load"
  PROVE  IInv'
<1>0. TypeInv /\ ConnectionsInv /\ TalkInv /\ MemoryInv /\ RequestInv
  BY DEF IInv
<1>1. /\ server' \in Process /\ server'.at = "accept" /\ server'.client = None /\ server'.up
      /\ UNCHANGED <<loaded, graph, fps, watch>>
  BY UpProcess DEF LetGo, memory
<1>2. \A i \in 1..Len(backlog) : backlog[i] # None
  BY <1>0, NoneIsNobody DEF ConnectionsInv
<1>3. TypeInv' /\ ConnectionsInv'
  BY <1>0, <1>1, <1>2 DEF TypeInv, ConnectionsInv
<1>4. \A c \in Client : ClientInv(c)' /\ (Queued(c)' => Unread(c)')
  BY <1>0, <1>1, NoneIsNobody DEF TalkInv, ClientInv, Queued, Unread
<1>5. TalkInv' /\ MemoryInv' /\ RequestInv'
  BY <1>0, <1>1, <1>4 DEF TalkInv, MemoryInv, RequestInv, Using, Outdated, Changed
<1> QED
  BY <1>3, <1>5 DEF IInv

LEMMA AcceptStep ==
  ASSUME IInv, Accept
  PROVE  IInv'
<1>0. TypeInv /\ ConnectionsInv /\ TalkInv /\ MemoryInv /\ RequestInv
  BY DEF IInv
<1> DEFINE c == Head(backlog)
<1>1. /\ server.at = "accept" /\ backlog # <<>> /\ backlog' = Tail(backlog)
      /\ UNCHANGED <<tree, loaded, graph, fps, watch, client, asks, edits, lost>>
      /\ server' = [server EXCEPT !.at = "read", !.client = c, !.verdict = "ok"]
  BY DEF Accept, Waiting, memory
<1>2. /\ c \in Client /\ backlog' \in Seq(Client)
      /\ Len(backlog') = Len(backlog) - 1 /\ Len(backlog) \in Nat \ {0}
      /\ \A i \in 1..Len(backlog') : backlog'[i] = backlog[i + 1]
      /\ c = backlog[1]
  BY <1>0, <1>1, TailQueue
<1> HIDE DEF c
<1>3. /\ server' \in Process /\ server'.at = "read" /\ server'.client = c
      /\ server'.up = server.up
  BY <1>0, <1>1, <1>2 DEF TypeInv, Process, Verdict
<1>4. TypeInv'
  BY <1>0, <1>1, <1>2, <1>3, NoneIsNobody DEF TypeInv
<1>5. server.up
  BY <1>0, <1>1 DEF ConnectionsInv
<1>6. \A i \in 1..Len(backlog') : i + 1 \in 1..Len(backlog) /\ i + 1 # 1
  BY <1>2
<1>7. 1 \in 1..Len(backlog)
  BY <1>2
<1>8. ConnectionsInv'
  <2>1. ASSUME NEW i \in 1..Len(backlog'), NEW j \in 1..Len(backlog'), i # j
        PROVE  backlog'[i] # backlog'[j]
    <3>1. i + 1 # j + 1 /\ i + 1 \in 1..Len(backlog) /\ j + 1 \in 1..Len(backlog)
      BY <1>2, <2>1
    <3> QED
      BY <1>0, <1>2, <3>1 DEF ConnectionsInv
  <2>2. \A i \in 1..Len(backlog') : backlog'[i] # c
    BY <1>0, <1>2, <1>6, <1>7 DEF ConnectionsInv
  <2> QED
    BY <1>2, <1>3, <1>5, <2>1, <2>2 DEF ConnectionsInv
<1>9. Queued(c) /\ \A d \in Client : Queued(d)' => Queued(d)
  BY <1>2, <1>6, <1>7 DEF Queued
<1>10. \A d \in Client : ClientInv(d)' /\ (Queued(d)' => Unread(d)')
  BY <1>0, <1>1, <1>3, <1>9 DEF TalkInv, ClientInv, Unread
<1>11. TalkInv'
  BY <1>0, <1>1, <1>2, <1>3, <1>9, <1>10 DEF TalkInv, Unread
<1>12. MemoryInv' /\ RequestInv'
  BY <1>0, <1>1, <1>3 DEF MemoryInv, RequestInv, Using, Outdated, Changed
<1> QED
  BY <1>4, <1>8, <1>11, <1>12 DEF IInv

-----------------------------------------------------------------------------
\* A line to the client that is served.

\* The client has the line; nobody else notices.
LEMMA LineSent ==
  ASSUME TypeInv, NEW c \in Client, NEW line,
         Append(client[c].sent, line) \in Lines,
         client' = [client EXCEPT ![c].sent = Append(@, line)]
  PROVE  /\ client' \in [Client -> Caller]
         /\ \A d \in Client \ {c} : client'[d] = client[d]
         /\ client'[c].sent = Append(client[c].sent, line)
         /\ client'[c].at = client[c].at /\ client'[c].ask = client[c].ask
         /\ client'[c].since = client[c].since /\ client'[c].built = client[c].built
<1> DEFINE more == Append(client[c].sent, line)
<1>1. client' = [client EXCEPT ![c].sent = more]
  OBVIOUS
<1>2. more \in Lines
  OBVIOUS
<1> HIDE DEF more
<1>3. client \in [Client -> Caller]
  BY DEF TypeInv
<1>4. client'[c].sent = more
  BY <1>1, <1>2, <1>3 DEF Caller
<1>5. client'[c].sent = Append(client[c].sent, line)
  BY <1>4 DEF more
<1>6. client' \in [Client -> Caller]
  BY ONLY <1>1, <1>2, <1>3 DEF Caller
<1>7. \A d \in Client \ {c} : client'[d] = client[d]
  BY ONLY <1>1, <1>3
<1>8. /\ client'[c].at = client[c].at /\ client'[c].ask = client[c].ask
      /\ client'[c].since = client[c].since /\ client'[c].built = client[c].built
  BY ONLY <1>1, <1>3 DEF Caller
<1> QED
  BY ONLY <1>5, <1>6, <1>7, <1>8

LEMMA AppendedLines ==
  /\ Append(<<>>, "magic") = <<"magic">>
  /\ Append(<<"magic">>, "ok") = <<"magic", "ok">>
  /\ Append(<<"magic">>, "fail") = <<"magic", "fail">>
  /\ <<"magic">> \in Lines /\ <<"magic", "ok">> \in Lines /\ <<"magic", "fail">> \in Lines
<1>1. /\ Append(<<>>, "magic") = <<"magic">>
      /\ Append(<<"magic">>, "ok") = <<"magic", "ok">>
      /\ Append(<<"magic">>, "fail") = <<"magic", "fail">>
  <2>1. ASSUME NEW a, NEW b PROVE Append(<<a>>, b) = <<a, b>>
    <3> DEFINE s == Append(<<a>>, b)
               t == <<a, b>>
    <3>1. <<a>> \in Seq({a, b}) /\ t \in Seq({a, b}) /\ Len(<<a>>) = 1 /\ Len(t) = 2
      OBVIOUS
    <3>2. s \in Seq({a, b}) /\ Len(s) = 2 /\ s[1] = a /\ s[2] = b
      BY <3>1
    <3>3. \A i \in 1..Len(s) : s[i] = t[i]
      BY <3>2
    <3> HIDE DEF s, t
    <3>4. s = t
      BY <3>1, <3>2, <3>3
    <3> QED
      BY <3>4 DEF s, t
  <2>2. ASSUME NEW a PROVE Append(<<>>, a) = <<a>>
    OBVIOUS
  <2> QED
    BY <2>1, <2>2
<1>2. /\ <<"magic">> \in Lines /\ <<"magic", "ok">> \in Lines /\ <<"magic", "fail">> \in Lines
  BY DEF Lines
<1> QED
  BY <1>1, <1>2

LEMMA ReadRequestStep ==
  ASSUME IInv, ReadRequest
  PROVE  IInv'
<1>0. TypeInv /\ ConnectionsInv /\ TalkInv /\ MemoryInv /\ RequestInv
  BY DEF IInv
<1>c. PICK c \in Client : c = server.client
  BY <1>0 DEF ReadRequest, TypeInv, Process
<1>1. /\ server.at = "read" /\ UNCHANGED <<tree, asks, edits, lost>>
      /\ Unread(c) /\ ClientInv(c)
  BY <1>0, <1>c DEF ReadRequest, TypeInv, Process, TalkInv
<1>2. CASE Hangup
  <2>1. LetGo /\ UNCHANGED <<memory, backlog, client>>
    BY <1>2 DEF ReadRequest, Hangup
  <2> QED
    BY <1>1, <1>c, <2>1, FreeStep
<1>3. CASE client[c].at \in {"waiting", "gone"} /\ Asked.build /\ ~Attends(c)
  BY <1>1, <1>c, <1>3, DiesStep DEF ReadRequest, Hangup, Writes
<1>4. ASSUME client[c].at \in {"waiting", "gone"}, Attends(c) \/ ~Asked.build
      PROVE  IInv'
  <2>1. /\ Serves("ensure") /\ UNCHANGED <<memory, backlog>>
        /\ Asked.build => client' = [client EXCEPT ![c].sent = Append(@, "magic")]
        /\ ~Asked.build => client' = client
    BY <1>1, <1>c, <1>4 DEF ReadRequest, Hangup, Writes
  <2>2. /\ server' \in Process /\ server'.at = "ensure" /\ server'.client = c
        /\ server'.up = server.up /\ UNCHANGED <<loaded, graph, fps, watch>>
    BY <1>0, <1>c, <2>1, ServesEffect DEF memory
  <2>3. client[c].sent = <<>> /\ Append(client[c].sent, "magic") = <<"magic">>
    BY <1>1, <1>c, AppendedLines DEF Unread
  <2>4. /\ client' \in [Client -> Caller]
        /\ \A d \in Client \ {c} : client'[d] = client[d]
        /\ client'[c].sent = IF Asked.build THEN <<"magic">> ELSE <<>>
        /\ client'[c].at = client[c].at /\ client'[c].ask = client[c].ask
        /\ client'[c].since = client[c].since /\ client'[c].built = client[c].built
    <3>1. CASE Asked.build
      <4> DEFINE line == "magic"
      <4>1. Append(client[c].sent, line) \in Lines
        BY <2>3, AppendedLines
      <4>2. client' = [client EXCEPT ![c].sent = Append(@, line)]
        BY <2>1, <3>1
      <4>3. client'[c].sent = Append(client[c].sent, line) => client'[c].sent = <<"magic">>
        BY <2>3
      <4> HIDE DEF line
      <4>4. /\ client' \in [Client -> Caller]
            /\ \A d \in Client \ {c} : client'[d] = client[d]
            /\ client'[c].sent = Append(client[c].sent, line)
            /\ client'[c].at = client[c].at /\ client'[c].ask = client[c].ask
            /\ client'[c].since = client[c].since /\ client'[c].built = client[c].built
        BY ONLY <1>0, <1>c, <4>1, <4>2, LineSent
      <4> QED
        BY ONLY <3>1, <4>3, <4>4
    <3>2. CASE ~Asked.build
      BY <1>0, <2>1, <2>3, <3>2 DEF TypeInv
    <3> QED
      BY <3>1, <3>2
  <2>5. TypeInv'
    BY <1>0, <1>1, <1>c, <2>2, <2>4, NoneIsNobody DEF TypeInv
  <2>6. ConnectionsInv' /\ ~Queued(c)
    BY <1>0, <1>1, <1>c, <2>1, <2>2 DEF ConnectionsInv, Queued
  <2>7. Asked.build => client[c].at = "waiting"
    BY <1>4 DEF Attends
  <2>8. ClientInv(c)'
    BY <1>1, <1>c, <1>4, <2>2, <2>3, <2>4, <2>7, LinesDiffer DEF ClientInv
  <2>9. ~Queued(c)'
    BY <2>1, <2>6 DEF Queued
  <2>10. \A d \in Client \ {c} : ClientInv(d)' /\ (Queued(d)' => Unread(d)')
    BY <1>0, <1>1, <1>c, <2>1, <2>2, <2>4 DEF TalkInv, ClientInv, Queued, Unread
  <2>11. Served(c)'
    BY <1>c, <1>4, <2>2, <2>4, <2>7 DEF Served, Asked
  <2>12. TalkInv'
    BY <1>0, <1>c, <2>2, <2>8, <2>9, <2>10, <2>11 DEF TalkInv
  <2>13. MemoryInv' /\ RequestInv'
    BY <1>0, <1>1, <1>c, <2>2 DEF MemoryInv, RequestInv, Using, Outdated, Changed
  <2> QED
    BY <2>5, <2>6, <2>12, <2>13 DEF IInv
<1>5. Hangup \/ client[c].at \in {"waiting", "gone"}
  BY <1>1, <1>c DEF ReadRequest
<1>6. Asked.build \in BOOLEAN \/ client[c].at = "idle"
  BY <1>1, <1>c, Asked0 DEF ClientInv, Asked
<1> QED
  BY <1>2, <1>3, <1>4, <1>5, <1>6 DEF Hangup

LEMMA AnswerStep ==
  ASSUME IInv, Answer
  PROVE  IInv'
<1>0. TypeInv /\ ConnectionsInv /\ TalkInv /\ MemoryInv /\ RequestInv
  BY DEF IInv
<1>c. PICK c \in Client : c = server.client
  BY <1>0 DEF Answer, TypeInv, Process
<1>1. /\ server.at = "final" /\ UNCHANGED <<tree, asks, edits, lost>>
      /\ Served(c) /\ ClientInv(c) /\ Asked.build \in BOOLEAN
      /\ server.verdict \in Verdict
      /\ Asked.build /\ server.verdict = "ok" /\ Attends(c) => client[c].built = "ok"
  BY <1>0, <1>c, ServingFacts DEF Answer, TypeInv, Process, TalkInv
<1>2. CASE ~Attends(c)
  BY <1>1, <1>c, <1>2, DiesStep DEF Answer, Writes
<1>3. CASE Attends(c)
  <2> DEFINE line == IF client[c].sent = <<>> THEN "magic" ELSE server.verdict
  <2>1. /\ UNCHANGED <<loaded, graph, fps, watch, backlog>>
        /\ client' = [client EXCEPT ![c].sent = Append(@, line)]
        /\ client[c].sent = <<>> => server' = server
        /\ client[c].sent # <<>> => LetGo
    BY <1>c, <1>3 DEF Answer, Writes, memory
  <2>2. \/ client[c].sent = <<>> /\ Append(client[c].sent, line) = <<"magic">> /\ ~Asked.build
        \/ client[c].sent = <<"magic">> /\ Append(client[c].sent, line) = <<"magic", server.verdict>>
    <3>1. CASE client[c].sent = <<>>
      BY <1>1, <1>c, <1>3, <3>1, AppendedLines, LinesDiffer DEF Served, Asked
    <3>2. CASE client[c].sent # <<>>
      BY <1>1, <1>c, <3>2, AppendedLines DEF Served, Verdict
    <3> QED
      BY <3>1, <3>2
  <2>3. Append(client[c].sent, line) \in Lines
    BY <1>1, <1>c, <2>2, AppendedLines DEF Verdict
  <2> HIDE DEF line
  <2>4. /\ client' \in [Client -> Caller]
        /\ \A d \in Client \ {c} : client'[d] = client[d]
        /\ client'[c].sent = Append(client[c].sent, line)
        /\ client'[c].at = client[c].at /\ client'[c].ask = client[c].ask
        /\ client'[c].since = client[c].since /\ client'[c].built = client[c].built
    BY <1>0, <1>1, <1>c, <2>1, <2>3, LineSent
  <2>5. /\ server' \in Process /\ server'.up = server.up
        /\ client[c].sent = <<>> => server' = server
        /\ client[c].sent # <<>> => server'.at = "accept" /\ server'.client = None
    <3>1. server.up /\ server.up \in BOOLEAN
      BY <1>0, <1>1, <1>c DEF ConnectionsInv, TypeInv, Process
    <3>2. LetGo => server' \in Process /\ server'.up = TRUE
                     /\ server'.at = "accept" /\ server'.client = None
      BY UpProcess DEF LetGo
    <3> QED
      BY <1>0, <2>1, <3>1, <3>2 DEF TypeInv
  <2>6. TypeInv'
    BY <1>0, <1>1, <1>c, <2>1, <2>4, <2>5 DEF TypeInv
  <2>7. ConnectionsInv' /\ ~Queued(c) /\ ~Queued(c)'
    BY <1>0, <1>1, <1>c, <2>1, <2>5, NoneIsNobody DEF ConnectionsInv, Queued
  <2>8. ClientInv(c)'
    <3>1. client[c].at \in {"waiting", "reading"}
      BY <1>1, <1>c, <1>3 DEF Served, Attends
    <3>2. client[c].ask \in Requests[c] /\ client[c].since <= tree[client[c].ask.ws].edition
      BY <1>1, <1>c, <3>1 DEF ClientInv
    <3>3. client'[c].sent = <<"magic", "ok">> /\ client[c].ask.build => client[c].built = "ok"
      BY <1>1, <1>c, <1>3, <2>2, <2>4, LinesDiffer DEF Verdict, Asked
    <3>4. client'[c].sent # <<>>
      BY <1>1, <1>c, <2>2, <2>4, LinesDiffer DEF Verdict
    <3> QED
      BY <1>1, <1>c, <2>4, <3>1, <3>2, <3>3, <3>4 DEF ClientInv
  <2>9. \A d \in Client \ {c} : ClientInv(d)' /\ (Queued(d)' => Unread(d)')
    <3> SUFFICES ASSUME NEW d \in Client \ {c}
                 PROVE  ClientInv(d)' /\ (Queued(d)' => Unread(d)')
      OBVIOUS
    <3>1. client'[d] = client[d] /\ tree' = tree /\ backlog' = backlog
      BY <1>1, <2>1, <2>4
    <3>2. ClientInv(d) /\ (Queued(d) => Unread(d))
      BY <1>0 DEF TalkInv
    <3>6. server'.client # d
      BY <1>c, <2>5, NoneIsNobody
    <3>4. Queued(d)' <=> Queued(d)
      BY ONLY <3>1 DEF Queued
    <3>3. ClientInv(d)'
      BY ONLY <3>1, <3>2, <3>4, <3>6 DEF ClientInv
    <3>5. Unread(d)' <=> Unread(d)
      BY ONLY <3>1 DEF Unread
    <3> QED
      BY <3>2, <3>3, <3>4, <3>5
  <2>10. TalkInv'
    <3>1. CASE client[c].sent = <<>>
      <4>1. server' = server /\ client'[c].sent = <<"magic">>
        BY <1>c, <2>2, <2>4, <2>5, <3>1, LinesDiffer
      <4>2. Served(c)'
        BY <1>1, <1>c, <2>4, <4>1 DEF Served
      <4>3. Asked' = Asked /\ (Attends(c)' <=> Attends(c))
        BY <1>c, <2>4, <4>1 DEF Asked, Attends
      <4> QED
        BY <1>1, <1>c, <2>4, <2>7, <2>8, <2>9, <4>1, <4>2, <4>3 DEF TalkInv
    <3>2. CASE client[c].sent # <<>>
      BY <1>c, <2>5, <2>7, <2>8, <2>9, <3>2 DEF TalkInv
    <3> QED
      BY <3>1, <3>2
  <2>11. MemoryInv'
    BY <1>0, <1>1, <1>c, <2>1, <2>5 DEF MemoryInv, Outdated, Changed
  <2>12. RequestInv'
    BY <1>0, <1>1, <1>c, <2>1, <2>4, <2>5 DEF RequestInv, Using, Current, Asked
  <2> QED
    BY <2>6, <2>7, <2>10, <2>11, <2>12 DEF IInv
<1> QED
  BY <1>2, <1>3

-----------------------------------------------------------------------------
\* The graph is made fit for the request.

LEMMA PolledEffect ==
  ASSUME TypeInv
  PROVE  /\ Polled \in Watch
         /\ ~Outdated(watch) => (Outdated(Polled) <=> Outdated(watch))
<1>1. /\ watch \in Watch /\ Polled.events = {} /\ Polled.active = watch.active
      /\ Polled.incomplete = (watch.incomplete \/ "overflow" \in watch.events)
      /\ Polled \in Watch
  BY DEF TypeInv, Watch, Polled
<1> QED
  BY <1>1 DEF Outdated

LEMMA EnsureGraphStep ==
  ASSUME IInv, EnsureGraph
  PROVE  IInv'
<1>0. TypeInv /\ ConnectionsInv /\ TalkInv /\ MemoryInv /\ RequestInv
  BY DEF IInv
<1>1. /\ server.at = "ensure"
      /\ UNCHANGED <<tree, loaded, graph, fps, backlog, client, asks, edits, lost>>
  BY DEF EnsureGraph
<1>2. /\ server.client \in Client /\ Asked.build \in BOOLEAN
      /\ client[server.client].since \in Nat /\ tree[Asked.ws].edition \in Nat
      /\ client[server.client].since <= tree[Asked.ws].edition
      /\ loaded \in BOOLEAN
  BY <1>0, <1>1, ServingFacts DEF TypeInv
<1>3. watch \in Watch /\ Polled \in Watch
  BY <1>0, PolledEffect DEF TypeInv
\* The graph is of another package: the request fails.
<1>4. CASE loaded /\ graph.ws # Asked.ws
  <2>1. Gives("fail", "final") /\ watch' = watch
    BY <1>4 DEF EnsureGraph, SameIdentity, Refused
  <2>2. /\ server' \in Process /\ server'.client = server.client /\ server'.up = server.up
        /\ server'.at = "final" /\ server'.verdict = "fail"
    BY <1>0, <2>1, ServesEffect DEF Verdict
  <2>3. TypeInv' /\ ConnectionsInv' /\ TalkInv' /\ Asked' = Asked
    BY <1>0, <1>1, <1>3, <2>1, <2>2, GoesOn DEF TypeInv
  <2>4. MemoryInv'
    BY <1>0, <1>1, <2>1, <2>2 DEF MemoryInv, Outdated, Changed
  <2>5. RequestInv'
    BY <1>1, <1>4, <2>2, <2>3 DEF RequestInv, Current
  <2> QED
    BY <2>3, <2>4, <2>5 DEF IInv
\* It is used as it is.
<1>5. CASE loaded /\ SameIdentity(Asked) /\ ~Outdated(watch)
  <2>1. Use(Asked) /\ watch' = Polled /\ graph.ws = Asked.ws
    BY <1>5 DEF EnsureGraph, SameIdentity
  <2>2. /\ server' \in Process /\ server'.client = server.client /\ server'.up = server.up
        /\ server'.at = (IF Asked.build THEN "building" ELSE "final")
    BY <1>0, <1>2, <2>1, ServesEffect DEF Use
  <2>3. TypeInv' /\ ConnectionsInv' /\ TalkInv' /\ Asked' = Asked
    BY <1>0, <1>1, <1>3, <2>1, <2>2, GoesOn DEF TypeInv
  <2>4. lost = {} => graph.edition = tree[graph.ws].edition
    BY <1>0, <1>1, <1>5 DEF MemoryInv
  <2>5. MemoryInv'
    BY <1>0, <1>1, <2>2, <2>4 DEF MemoryInv
  <2>6. lost = {} => Current'
    BY <1>1, <1>2, <2>1, <2>2, <2>3, <2>4 DEF Current
  <2>7. server'.at = "building" => Asked.build /\ graph.label = Asked.label
    BY <1>2, <1>5, <2>2 DEF SameIdentity
  <2> QED
    BY <1>1, <1>5, <2>1, <2>2, <2>3, <2>5, <2>6, <2>7 DEF IInv, RequestInv
\* It is loaded again.
<1>6. CASE ~(loaded /\ graph.ws # Asked.ws) /\ ~(loaded /\ SameIdentity(Asked) /\ ~Outdated(watch))
  <2>1. Serves("load") /\ watch' \in {watch, Polled}
    BY <1>6 DEF EnsureGraph
  <2>2. /\ server' \in Process /\ server'.client = server.client /\ server'.up = server.up
        /\ server'.at = "load"
    BY <1>0, <2>1, ServesEffect
  <2>3. TypeInv' /\ ConnectionsInv' /\ TalkInv' /\ Asked' = Asked
    BY <1>0, <1>1, <1>3, <2>1, <2>2, GoesOn DEF TypeInv
  <2>4. MemoryInv' /\ RequestInv'
    BY <1>0, <1>1, <2>2 DEF MemoryInv, RequestInv, Using
  <2> QED
    BY <2>3, <2>4 DEF IInv
<1> QED
  BY <1>4, <1>5, <1>6

LEMMA LoadGraphStep ==
  ASSUME IInv, LoadGraph
  PROVE  IInv'
<1>0. TypeInv /\ ConnectionsInv /\ TalkInv /\ MemoryInv /\ RequestInv
  BY DEF IInv
<1> DEFINE new == [ws |-> Asked.ws, label |-> Asked.label, edition |-> tree[Asked.ws].edition]
<1>1. /\ server.at = "load" /\ loaded' = FALSE /\ watch' = NoWatch /\ lost' = {}
      /\ UNCHANGED <<tree, fps, backlog, client, asks, edits>>
      /\ \/ graph' = new /\ Serves("fingerprint")
         \/ graph' = NoGraph /\ Gives("fail", "final")
  BY DEF LoadGraph
<1>2. /\ Asked.ws \in Workspace /\ tree[Asked.ws].edition \in 0..MaxEdits
      /\ tree[Asked.ws].edition \in Nat /\ Asked.label \in Label \cup {None}
  BY <1>0, <1>1, ServingFacts
<1>3. new \in Graph /\ new.ws = Asked.ws /\ new.label = Asked.label
      /\ new.edition = tree[Asked.ws].edition
  BY <1>2 DEF Graph
<1> HIDE DEF new
<1>4. /\ server' \in Process /\ server'.client = server.client /\ server'.up = server.up
      /\ \/ server'.at = "fingerprint" /\ graph' = new
         \/ server'.at = "final" /\ server'.verdict = "fail" /\ graph' = NoGraph
  BY <1>0, <1>1, ServesEffect DEF Verdict
<1>5. TypeInv' /\ ConnectionsInv' /\ TalkInv' /\ Asked' = Asked
  BY <1>0, <1>1, <1>3, <1>4, EmptyMemory, GoesOn DEF TypeInv
<1>6. MemoryInv'
  BY <1>1 DEF MemoryInv
<1>7. RequestInv'
  <2>1. server'.at = "fingerprint" => graph'.edition <= tree'[graph'.ws].edition
    BY <1>1, <1>2, <1>3, <1>4
  <2> QED
    BY <1>1, <1>3, <1>4, <1>5, <2>1 DEF RequestInv, Using
<1> QED
  BY <1>5, <1>6, <1>7 DEF IInv

LEMMA FingerprintStep ==
  ASSUME IInv, Fingerprint
  PROVE  IInv'
<1>0. TypeInv /\ ConnectionsInv /\ TalkInv /\ MemoryInv /\ RequestInv
  BY DEF IInv
<1>1. /\ server.at = "fingerprint" /\ fps' = tree[Asked.ws].edition /\ Serves("watch")
      /\ UNCHANGED <<tree, loaded, graph, watch, backlog, client, asks, edits, lost>>
  BY DEF Fingerprint
<1>2. /\ graph.ws = Asked.ws /\ graph.label = Asked.label
      /\ graph.edition <= tree[graph.ws].edition /\ ~loaded
      /\ tree[Asked.ws].edition \in 0..MaxEdits /\ tree[Asked.ws].edition \in Nat
  BY <1>0, <1>1, ServingFacts DEF RequestInv
<1>3. /\ server' \in Process /\ server'.client = server.client /\ server'.up = server.up
      /\ server'.at = "watch"
  BY <1>0, <1>1, ServesEffect
<1>4. TypeInv' /\ ConnectionsInv' /\ TalkInv' /\ Asked' = Asked
  BY <1>0, <1>1, <1>2, <1>3, GoesOn DEF TypeInv
<1>5. fps' <= tree'[graph'.ws].edition /\ graph'.edition <= fps'
  BY <1>1, <1>2
<1>6. MemoryInv' /\ RequestInv'
  BY <1>1, <1>2, <1>3, <1>4, <1>5 DEF MemoryInv, RequestInv, Using
<1> QED
  BY <1>4, <1>6 DEF IInv

LEMMA RefreshedWatch ==
  ASSUME NEW w \in Refreshed
  PROVE  w \in Watch
BY DEF Refreshed, Watch

LEMMA WatchGraphStep ==
  ASSUME IInv, WatchGraph
  PROVE  IInv'
<1>0. TypeInv /\ ConnectionsInv /\ TalkInv /\ MemoryInv /\ RequestInv
  BY DEF IInv
<1>1. /\ server.at = "watch" /\ watch' \in Refreshed /\ loaded' = TRUE /\ Use(Asked)
      /\ lost' = IF graph.edition # tree[graph.ws].edition THEN {"load"} ELSE {}
      /\ UNCHANGED <<tree, graph, fps, backlog, client, asks, edits>>
  BY DEF WatchGraph
<1>2. /\ graph.ws = Asked.ws /\ graph.label = Asked.label
      /\ graph.edition <= tree[graph.ws].edition
      /\ graph.edition <= fps /\ fps <= tree[graph.ws].edition
  BY <1>0, <1>1 DEF RequestInv
<1>3. /\ Asked.ws # None /\ Asked.build \in BOOLEAN
      /\ tree[Asked.ws].edition \in Nat /\ client[server.client].since \in Nat
      /\ client[server.client].since <= tree[Asked.ws].edition
      /\ graph.edition \in Nat /\ fps \in Nat /\ watch' \in Watch
  BY <1>0, <1>1, ServingFacts, RefreshedWatch DEF TypeInv, Graph
<1>4. /\ server' \in Process /\ server'.client = server.client /\ server'.up = server.up
      /\ server'.at = (IF Asked.build THEN "building" ELSE "final")
  BY <1>0, <1>1, <1>3, ServesEffect DEF Use
<1>5. TypeInv' /\ ConnectionsInv' /\ TalkInv' /\ Asked' = Asked
  BY <1>0, <1>1, <1>3, <1>4, GoesOn DEF TypeInv
<1>6. lost' = {} => graph.edition = tree[graph.ws].edition /\ fps = graph.edition
  BY <1>1, <1>2, <1>3
<1>7. MemoryInv'
  BY <1>1, <1>2, <1>3, <1>6 DEF MemoryInv
<1>8. lost' = {} => Current'
  BY <1>1, <1>2, <1>3, <1>4, <1>5, <1>6 DEF Current
<1>9. RequestInv'
  BY <1>1, <1>2, <1>3, <1>4, <1>5, <1>8 DEF RequestInv
<1> QED
  BY <1>5, <1>7, <1>9 DEF IInv

-----------------------------------------------------------------------------
\* The build, and what comes from outside.

LEMMA BuildEndsStep ==
  ASSUME IInv, BuildEnds
  PROVE  IInv'
<1>0. TypeInv /\ ConnectionsInv /\ TalkInv /\ MemoryInv /\ RequestInv
  BY DEF IInv
<1>1. /\ server.at = "building"
      /\ UNCHANGED <<tree, loaded, graph, fps, watch, backlog, asks, edits, lost>>
  BY DEF BuildEnds, memory
<1>2. PICK v \in Verdict :
         /\ Gives(v, IF v = "ok" /\ watch.active /\ watch.missing THEN "refresh" ELSE "final")
         /\ client' = IF Attends(server.client)
                      THEN [client EXCEPT ![server.client].built = v] ELSE client
  BY DEF BuildEnds, Verdict
<1>3. PICK c \in Client : c = server.client
  BY <1>0, <1>1, ServingFacts
<1>4. /\ Served(c) /\ ClientInv(c) /\ Asked.build /\ loaded
      /\ Asked = client[c].ask
  BY <1>0, <1>1, <1>3, ServingFacts DEF RequestInv, Asked
<1>5. /\ server' \in Process /\ server'.client = c /\ server'.up = server.up
      /\ server'.at \in {"refresh", "final"} /\ server'.verdict = v
  <2>1. (IF v = "ok" /\ watch.active /\ watch.missing THEN "refresh" ELSE "final")
           \in {"refresh", "final"}
    OBVIOUS
  <2> QED
    BY <1>0, <1>2, <1>3, <2>1, ServesEffect
<1>6. /\ client' \in [Client -> Caller]
      /\ \A d \in Client \ {c} : client'[d] = client[d]
      /\ client'[c].at = client[c].at /\ client'[c].ask = client[c].ask
      /\ client'[c].sent = client[c].sent /\ client'[c].since = client[c].since
      /\ Attends(c) => client'[c].built = v
      /\ ~Attends(c) => client'[c].built = client[c].built
  BY <1>0, <1>2, <1>3 DEF TypeInv, Caller
<1>7. TypeInv'
  BY <1>0, <1>1, <1>5, <1>6, NoneIsNobody DEF TypeInv
<1>8. ConnectionsInv' /\ ~Queued(c)'
  BY <1>0, <1>1, <1>3, <1>5 DEF ConnectionsInv, Queued
<1>9. Attends(c) => client[c].sent = <<"magic">>
  BY <1>4 DEF Served
<1>10. ClientInv(c)'
  BY <1>1, <1>3, <1>4, <1>5, <1>6, <1>9, LinesDiffer DEF ClientInv, Served
<1>11. \A d \in Client \ {c} : ClientInv(d)' /\ (Queued(d)' => Unread(d)')
  BY <1>0, <1>1, <1>3, <1>5, <1>6 DEF TalkInv, ClientInv, Queued, Unread
<1>12. Served(c)' /\ (Attends(c)' <=> Attends(c))
  BY <1>4, <1>6 DEF Served, Attends
<1>13. TalkInv'
  BY <1>5, <1>6, <1>8, <1>10, <1>11, <1>12 DEF TalkInv
<1>14. MemoryInv'
  BY <1>0, <1>1 DEF MemoryInv, Outdated, Changed
<1>15. RequestInv'
  BY <1>0, <1>1, <1>3, <1>4, <1>5, <1>6 DEF RequestInv, Using, Current, Asked
<1> QED
  BY <1>7, <1>8, <1>13, <1>14, <1>15 DEF IInv

LEMMA RewatchStep ==
  ASSUME IInv, Rewatch
  PROVE  IInv'
<1>0. TypeInv /\ ConnectionsInv /\ TalkInv /\ MemoryInv /\ RequestInv
  BY DEF IInv
<1>1. /\ server.at = "refresh" /\ watch' \in Refreshed /\ Serves("final")
      /\ lost' = lost \cup IF graph.edition # tree[graph.ws].edition THEN {"event"} ELSE {}
      /\ UNCHANGED <<tree, loaded, graph, fps, backlog, client, asks, edits>>
  BY DEF Rewatch
<1>2. watch' \in Watch /\ lost' \subseteq {"load", "event"}
  BY <1>0, <1>1, RefreshedWatch DEF TypeInv
<1>3. /\ server' \in Process /\ server'.client = server.client /\ server'.up = server.up
      /\ server'.at = "final" /\ server'.verdict = server.verdict
  BY <1>0, <1>1, ServesEffect
<1>4. TypeInv' /\ ConnectionsInv' /\ TalkInv' /\ Asked' = Asked
  <2>1. server.verdict = "ok" /\ Asked.build /\ Attends(server.client)
          => client[server.client].built = "ok"
    BY <1>0, <1>1 DEF TalkInv
  <2> QED
    BY <1>0, <1>1, <1>2, <1>3, <2>1, GoesOn DEF TypeInv
<1>5. lost' = {} => lost = {} /\ graph.edition = tree[graph.ws].edition
  BY <1>1
<1>6. MemoryInv'
  BY <1>0, <1>1, <1>3, <1>5 DEF MemoryInv
<1>7. RequestInv'
  BY <1>0, <1>1, <1>3, <1>4, <1>5 DEF RequestInv, Using, Current
<1> QED
  BY <1>4, <1>6, <1>7 DEF IInv

LEMMA EditStep ==
  ASSUME IInv, NEW w \in Workspace, Edit(w)
  PROVE  IInv'
<1>0. TypeInv /\ ConnectionsInv /\ TalkInv /\ MemoryInv /\ RequestInv
  BY DEF IInv
<1>1. PICK sound \in BOOLEAN :
         tree' = [tree EXCEPT ![w] = [edition |-> @.edition + 1, sound |-> sound]]
  BY DEF Edit
<1>2. PICK e \in {{"authoring"}, {"overflow"}, {}} :
         /\ IF Watched(w) THEN e # {} \/ watch.incomplete ELSE e = {}
         /\ watch' = [watch EXCEPT !.events = @ \cup e]
  BY DEF Edit
<1>3. /\ edits < MaxEdits /\ edits' = edits + 1
      /\ UNCHANGED <<server, loaded, graph, fps, backlog, client, asks, lost>>
  BY DEF Edit
<1>4. /\ MaxEdits \in Nat /\ edits \in Nat
      /\ \A x \in Workspace : tree[x].edition \in Nat /\ tree[x].edition <= edits
  BY <1>0, BoundAssumption DEF TypeInv, Tree
<1> DEFINE ed == tree[w].edition + 1
           new == [edition |-> ed, sound |-> sound]
<1>5. ed \in 0..MaxEdits /\ ed <= edits' /\ ed > tree[w].edition
  BY <1>3, <1>4
<1>6. tree' = [tree EXCEPT ![w] = new]
  BY <1>1
<1> HIDE DEF ed
<1>7. new \in Tree /\ new.edition = ed
  BY <1>5 DEF Tree
<1> HIDE DEF new
<1>8. /\ tree' \in [Workspace -> Tree] /\ tree'[w].edition = ed
      /\ \A x \in Workspace \ {w} : tree'[x] = tree[x]
      /\ \A x \in Workspace : tree'[x].edition \in Nat /\ tree[x].edition <= tree'[x].edition
  <2>1. tree \in [Workspace -> Tree]
    BY <1>0 DEF TypeInv
  <2>2. tree' \in [Workspace -> Tree] /\ tree'[w] = new /\ \A x \in Workspace \ {w} : tree'[x] = tree[x]
    BY <1>6, <1>7, <2>1
  <2> QED
    BY <1>4, <1>5, <1>7, <2>2
<1>9. /\ watch' \in Watch /\ watch'.active = watch.active
      /\ watch'.incomplete = watch.incomplete /\ watch'.events = watch.events \cup e
  BY <1>0, <1>2 DEF TypeInv, Watch
<1>10. TypeInv'
  <2>1. \A x \in Workspace : tree'[x].edition <= edits'
    BY <1>3, <1>4, <1>5, <1>8
  <2>2. edits' \in 0..MaxEdits
    BY <1>3, <1>4
  <2> QED
    BY <1>0, <1>3, <1>8, <1>9, <2>1, <2>2 DEF TypeInv
<1>11. ConnectionsInv'
  BY <1>0, <1>3 DEF ConnectionsInv
<1>12. ASSUME NEW c \in Client
       PROVE  ClientInv(c)' /\ (Queued(c)' => Unread(c)')
  <2>1. ClientInv(c) /\ (Queued(c) => Unread(c))
    BY <1>0 DEF TalkInv
  <2>2. client[c].at # "idle"
          => client[c].since \in Nat /\ client[c].ask.ws \in Workspace
    BY <1>0, <2>1, Asked0, BoundAssumption DEF ClientInv, TypeInv, Caller
  <2>3. client[c].at # "idle" => client[c].since <= tree'[client[c].ask.ws].edition
    BY <1>4, <1>8, <2>1, <2>2 DEF ClientInv
  <2> QED
    BY <1>3, <2>1, <2>3 DEF ClientInv, Queued, Unread
<1>13. TalkInv'
  BY <1>0, <1>3, <1>12 DEF TalkInv, Unread, Served, Attends, Asked
<1>14. graph.edition \in Nat /\ fps \in Nat
  BY <1>0, BoundAssumption DEF TypeInv, Graph
<1>15. MemoryInv'
  <2> SUFFICES ASSUME loaded PROVE MemoryInv'
    BY <1>3 DEF MemoryInv
  <2>1. graph.ws \in Workspace /\ graph.edition <= tree[graph.ws].edition
    BY <1>0 DEF MemoryInv, TypeInv, Graph
  <2>2. graph.edition <= tree'[graph.ws].edition
    BY <1>4, <1>8, <1>14, <2>1
  \* The edit shows in the queue, or in the fingerprints of what is not watched.
  <2>3. ASSUME lost = {}, graph.ws = w PROVE Outdated(watch)'
    <3>1. fps = graph.edition /\ fps # tree'[graph.ws].edition
      BY <1>0, <1>4, <1>5, <1>8, <1>14, <2>1, <2>3 DEF MemoryInv
    <3>2. Changed'
      BY <1>3, <3>1 DEF Changed
    <3> QED
      BY <1>2, <1>9, <2>3, <3>2 DEF Outdated, Watched
  <2>4. ASSUME lost = {}, graph.ws # w, server.at # "load"
        PROVE  graph.edition = tree'[graph.ws].edition \/ Outdated(watch)'
    BY <1>0, <1>2, <1>3, <1>8, <1>9, <2>1, <2>4 DEF MemoryInv, Outdated, Changed, Watched
  <2> QED
    BY <1>0, <1>3, <2>1, <2>2, <2>3, <2>4 DEF MemoryInv
<1>16. RequestInv'
  <2>1. server.at \in {"fingerprint", "watch"} => graph.ws \in Workspace
    BY <1>0, ServingFacts DEF RequestInv
  <2>2. server.at \in {"fingerprint", "watch"} => graph.edition <= tree'[graph.ws].edition
    BY <1>0, <1>4, <1>8, <1>14, <2>1 DEF RequestInv
  <2>3. server.at = "watch" => fps <= tree'[graph.ws].edition
    BY <1>0, <1>4, <1>8, <1>14, <2>1 DEF RequestInv
  <2> QED
    BY <1>0, <1>3, <2>2, <2>3 DEF RequestInv, Using, Current, Asked
<1> QED
  BY <1>10, <1>11, <1>13, <1>15, <1>16 DEF IInv

LEMMA StutterStep ==
  ASSUME IInv, UNCHANGED vars
  PROVE  IInv'
<1>1. /\ tree' = tree /\ edits' = edits /\ asks' = asks /\ lost' = lost /\ server' = server
      /\ loaded' = loaded /\ graph' = graph /\ fps' = fps /\ watch' = watch
      /\ backlog' = backlog /\ client' = client
  BY DEF vars, memory
<1>2. TypeInv'
  BY <1>1 DEF IInv, TypeInv
<1>3. ConnectionsInv'
  BY <1>1 DEF IInv, ConnectionsInv, Queued
<1>4. TalkInv'
  BY <1>1 DEF IInv, TalkInv, ClientInv, Queued, Unread, Served, Asked, Attends
<1>5. MemoryInv'
  BY <1>1 DEF IInv, MemoryInv, Outdated, Changed
<1>6. RequestInv'
  BY <1>1 DEF IInv, RequestInv, Using, Current, Asked
<1> QED
  BY <1>2, <1>3, <1>4, <1>5, <1>6 DEF IInv

LEMMA Inductive == IInv /\ [Next]_vars => IInv'
<1> SUFFICES ASSUME IInv, [Next]_vars PROVE IInv'
  OBVIOUS
<1>1. ASSUME NEW c \in Client, Ask(c) \/ OutputFails(c) \/ ClientKilled(c) \/ ClientStep(c)
      PROVE  IInv'
  BY <1>1, AskStep, ClientMovesStep DEF ClientMoves, ClientStep
<1>2. CASE ServerStep
  BY <1>2, AcceptStep, ReadRequestStep, EnsureGraphStep, LoadGraphStep, FingerprintStep,
     WatchGraphStep, BuildEndsStep, RewatchStep, AnswerStep DEF ServerStep
<1>3. CASE BuildLosesClient \/ ServerDies
  BY <1>3, DiesStep DEF BuildLosesClient, ServerDies
<1>4. CASE ServerStarts
  <2>1. ~server.up /\ LetGo /\ UNCHANGED <<tree, memory, backlog, client, edits, lost>>
    BY <1>4 DEF ServerStarts, LetGo
  <2>2. server.at = "accept"
    BY <2>1 DEF IInv, ConnectionsInv
  <2> QED
    BY <2>1, <2>2, FreeStep
<1>5. ASSUME NEW w \in Workspace, Edit(w) PROVE IInv'
  BY <1>5, EditStep
<1>6. CASE UNCHANGED vars
  BY <1>6, StutterStep
<1> QED
  BY <1>1, <1>2, <1>3, <1>4, <1>5, <1>6 DEF Next

(***************************************************************************)
(* What the clients, the process, its queue of connections and the graph   *)
(* in its memory say of each other holds through every step of daemon.c's  *)
(* request loop and of its clients, whoever dies and whatever is edited.   *)
(***************************************************************************)
THEOREM Invariance == Spec => []IInv
BY InitInv, Inductive, PTL DEF Spec

(***************************************************************************)
(* The answer to a request is that of a build of this request, from        *)
(* authoring files no older than it: handle_build_request builds the       *)
(* workspace and label that were asked for although queries share the one  *)
(* graph, ensure_graph keeps the graph only while it is as new as the      *)
(* request (apart from the two windows that "lost" records), and success   *)
(* is only reported of a build that succeeded.                             *)
(***************************************************************************)
THEOREM AnswersAreRight == Spec => []RightAnswer
<1>1. IInv => TypeOK
  <2> SUFFICES ASSUME IInv PROVE TypeOK
    OBVIOUS
  <2>1. TypeInv /\ ConnectionsInv /\ MemoryInv
    BY DEF IInv
  <2>2. tree \in [Workspace -> [edition : 0..MaxEdits, sound : BOOLEAN]]
    BY <2>1 DEF TypeInv, Tree
  <2>3. \A c \in Client : client[c].sent \in {<<>>} \cup {<<"magic">>} \cup {<<"magic", v>> : v \in {"ok", "fail"}}
    BY <2>1 DEF TypeInv, Caller, Lines
  <2>4. \A i \in 1..Len(backlog) : \A j \in 1..Len(backlog) \cup {0} :
           i # j => backlog[i] # (IF j = 0 THEN server.client ELSE backlog[j])
    BY <2>1 DEF ConnectionsInv
  <2>5. /\ server.client \in Client \cup {None} /\ server.verdict \in {"ok", "fail"}
        /\ server.client = None <=> server.at = "accept"
    BY <2>1 DEF TypeInv, Process, Verdict
  <2>6. /\ graph.ws \in Workspace \cup {None} /\ graph.edition \in 0..MaxEdits
        /\ loaded => graph.ws # None
        /\ watch.events \subseteq {"authoring", "overflow"} /\ fps \in 0..MaxEdits
        /\ lost \subseteq {"load", "event"}
    BY <2>1 DEF TypeInv, MemoryInv, Graph, Watch
  <2> QED
    BY <2>2, <2>3, <2>4, <2>5, <2>6 DEF TypeOK
<1>2. IInv => GraphIsCurrent /\ BuildsWhatIsAsked
  BY DEF IInv, RequestInv, GraphIsCurrent, BuildsWhatIsAsked
<1>3. IInv => SuccessWasBuilt
  BY DEF IInv, TalkInv, ClientInv, SuccessWasBuilt
<1> QED
  BY <1>1, <1>2, <1>3, Invariance, PTL DEF RightAnswer

(***************************************************************************)
(* A client of qstar_daemon_build_client that falls back since it takes    *)
(* the daemon for unavailable has no build under way or done for it there: *)
(* it only does so when no line of an answer has come and the connection   *)
(* is closed.  This says nothing of a client that cannot write its output. *)
(***************************************************************************)
THEOREM UnavailableIsUnbuilt == Spec => []UnavailableMeansUnbuilt
<1>1. IInv => UnavailableMeansUnbuilt
  BY DEF IInv, TalkInv, ClientInv, UnavailableMeansUnbuilt, NotBuilt
<1> QED
  BY <1>1, Invariance, PTL
=============================================================================
