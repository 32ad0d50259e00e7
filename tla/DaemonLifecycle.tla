--------------------------- MODULE DaemonLifecycle ---------------------------
(***************************************************************************)
(* Starting and stopping the daemon of one build directory: the commands   *)
(* `qstar daemon --start`, `--stop` and `--serve` of src/src/daemon.c, the *)
(* server processes, and the socket, pid file and lock file they share.    *)
(*                                                                         *)
(* A step is one system call that another process can see, or a decision   *)
(* on one.  Servers die at any time and leave their files; commands are    *)
(* killed; the first command may meet whatever an earlier crash has left.  *)
(* The system gives free pids to other processes at any time.              *)
(***************************************************************************)
EXTENDS Naturals, FiniteSets

CONSTANTS
    Command,   \* commands that can be running at once
    Pid,       \* what the system gives as pids here
    Offered,   \* the commands in use: "start", "stop", "serve"
    OwnerOnly, \* whether the umask makes new files owner-only from the start
    None

ASSUME CommandAssumption ==
    /\ None \notin Pid \cup [by : Pid, open : BOOLEAN] \cup {"running", "in-use", "locked", "unsafe"}
    /\ OwnerOnly \in BOOLEAN
    /\ Offered \subseteq {"start", "stop", "serve"}

VARIABLES
    proc,      \* proc[p]: the process with pid p
    sock,      \* the socket file: its server, and whether it is owner-only
    pidFile,   \* the pid in the pid file
    lock,      \* the pid in the lock file
    cmd,       \* cmd[c]: where command c is, and its locals
    seen,      \* history: which kinds of trouble there were
    marks      \* history, until commands overlap: "half-made" if a server has ended between bind and chmod,
               \* "pid" if the recorded pid has changed hands while a command was running

files == <<sock, pidFile, lock>>
vars == <<proc, files, cmd, seen, marks>>

Booting == {"probe", "unlink", "bind", "listen", "chmod"}
Server == Booting \cup {"serving"}

Idle == [at |-> "idle", ask |-> None, peer |-> None, pid |-> None,
         child |-> None, then |-> None, verdict |-> None]
Active == {c \in Command : cmd[c].at # "idle"}

\* Processes that are no daemons: one that came by its pid while a stop, having
\* heard the pid from the daemon before, was about to signal it is a newcomer.
Others == {"stranger", "newcomer"}

\* daemon_pid_alive: a zombie and a stranger pass for alive.
Alive(p) == proc[p] # "free"

\* What becomes of a server that dies: its parent has yet to wait for it.
Dead(p) == IF \E c \in Active : cmd[c].child = p THEN "zombie" ELSE "free"

Listening(p) == proc[p] \in {"chmod", "serving"}

\* connect_socket gets through.
Reachable == sock # None /\ sock.open /\ Listening(sock.by)

\* What daemon_prepare_server_socket_path finds.
Probed ==
    IF sock = None THEN "clear"
    ELSE IF ~sock.open THEN "unsafe"
    ELSE IF Listening(sock.by) THEN "in-use" ELSE "stale"

\* The server p has made its socket and not yet protected it.
HalfMade(p) == proc[p] \in {"listen", "chmod"} /\ sock = [by |-> p, open |-> FALSE]

Mark(kinds) == marks' = IF "overlap" \in seen THEN {} ELSE marks \cup kinds

\* Where p ends, what becomes of its socket.
MarkEnd(p) == Mark(IF HalfMade(p) /\ proc'[p] # proc[p] THEN {"half-made"} ELSE {})

\* A crash has left any of the files; the pid may be somebody else's by now.
Init ==
    /\ \E p \in Pid, process \in {"free", "stranger"} :
          /\ proc = [q \in Pid |-> IF q = p THEN process ELSE "free"]
          /\ pidFile \in {None, p} /\ lock \in {None, p}
          /\ sock \in {None} \cup {[by |-> p, open |-> o] : o \in {OwnerOnly, TRUE}}
    /\ cmd = [c \in Command |-> Idle]
    /\ seen = {}
    /\ marks = IF sock # None /\ ~sock.open THEN {"half-made"} ELSE {}

-----------------------------------------------------------------------------
\* A server, from serve_socket to its accept loop.

ServerMoves(p, to) == proc' = [proc EXCEPT ![p] = to]

ServerProbe(p) ==
    /\ proc[p] = "probe"
    /\ ServerMoves(p, CASE Probed = "clear" -> "bind"
                        [] Probed = "stale" -> "unlink"
                        [] OTHER -> Dead(p))
    /\ UNCHANGED <<files, cmd, seen, marks>>

ServerUnlink(p) ==
    /\ proc[p] = "unlink"
    /\ ServerMoves(p, IF sock = None THEN Dead(p) ELSE "bind")
    /\ sock' = None
    /\ UNCHANGED <<pidFile, lock, cmd, seen, marks>>

ServerBind(p) ==
    /\ proc[p] = "bind"
    /\ ServerMoves(p, IF sock = None THEN "listen" ELSE Dead(p))
    /\ sock' = IF sock = None THEN [by |-> p, open |-> OwnerOnly] ELSE sock
    /\ UNCHANGED <<pidFile, lock, cmd, seen, marks>>

ServerListen(p) ==
    /\ proc[p] = "listen"
    /\ ServerMoves(p, "chmod")
    /\ UNCHANGED <<files, cmd, seen, marks>>

\* chmod goes by the path, whoever's socket is there.
ServerChmod(p) ==
    /\ proc[p] = "chmod"
    /\ ServerMoves(p, IF sock = None THEN Dead(p) ELSE "serving")
    /\ sock' = IF sock = None THEN None ELSE [sock EXCEPT !.open = TRUE]
    /\ UNCHANGED <<pidFile, lock, cmd, seen, marks>>

ServerDies(p) ==
    /\ proc[p] \in Server
    /\ ServerMoves(p, Dead(p))
    /\ MarkEnd(p)
    /\ UNCHANGED <<files, cmd, seen>>

-----------------------------------------------------------------------------
\* Other processes.

MarkPid(p) == Mark(IF p = pidFile /\ Active # {} THEN {"pid"} ELSE {})

\* Stops that have heard the pid p from its daemon and have yet to be done with it.
Signalling(p) == {c \in Active : cmd[c].at \in {"term", "insist"} /\ cmd[c].pid = p}

PidGiven(p) ==
    /\ proc[p] = "free"
    /\ ServerMoves(p, IF Signalling(p) # {} THEN "newcomer" ELSE "stranger")
    /\ MarkPid(p)
    /\ UNCHANGED <<files, cmd, seen>>

OtherEnds(p) ==
    /\ proc[p] \in Others
    /\ ServerMoves(p, "free")
    /\ MarkPid(p)
    /\ UNCHANGED <<files, cmd, seen>>

-----------------------------------------------------------------------------
\* A command begins, ends, is killed.

Trouble(kinds) ==
    /\ seen' = seen \cup kinds \cup
          IF Active # {} \/ \E p \in Pid : proc[p] \in Booting THEN {"overlap"} ELSE {}
    /\ marks' = IF "overlap" \in seen' THEN {} ELSE marks

Begin(c, op, first) ==
    /\ op \in Offered
    /\ cmd[c].at = "idle"
    /\ cmd' = [cmd EXCEPT ![c] = first]
    /\ Trouble({})
    /\ UNCHANGED <<proc, files>>

Start(c) == Begin(c, "start", [Idle EXCEPT !.at = "hello", !.ask = "first"])
Stop(c) == Begin(c, "stop", [Idle EXCEPT !.at = "read"])

\* The foreground server is a command and a server at once.
Serve(p) ==
    /\ "serve" \in Offered
    /\ proc[p] = "free"
    /\ ServerMoves(p, "probe")
    /\ Trouble({"serve"})
    /\ UNCHANGED <<files, cmd>>

\* A child that has ended is reaped when its parent is gone.
Leave(c) ==
    /\ cmd' = [cmd EXCEPT ![c] = Idle]
    /\ proc' = [p \in Pid |-> IF p = cmd[c].child /\ proc[p] = "zombie" THEN "free" ELSE proc[p]]

End(c) ==
    /\ cmd[c].at = "end"
    /\ Leave(c)
    /\ UNCHANGED <<files, seen, marks>>

Killed(c) ==
    /\ cmd[c].at # "idle"
    /\ Leave(c)
    /\ seen' = seen \cup {"interrupt"}
    /\ UNCHANGED <<files, marks>>

-----------------------------------------------------------------------------
\* The steps of a command.  Each gives the command's next record.

Goes(c, r) == cmd' = [cmd EXCEPT ![c] = r]
To(c, point) == [cmd[c] EXCEPT !.at = point]
Ending(c, v) == [Idle EXCEPT !.at = "end", !.child = cmd[c].child, !.verdict = v]

\* daemon_cleanup_lifecycle_files, and then what the command does next.
Cleaning(c, next, v) ==
    [Ending(c, v) EXCEPT !.at = "clean-socket", !.ask = cmd[c].ask, !.then = next]

\* What follows a hello that got no answer.
Unanswered(c) ==
    CASE cmd[c].ask = "first" -> {To(c, "stale")}
      [] cmd[c].ask = "ready" ->
            {[To(c, "kill") EXCEPT !.verdict = "not-ready"]}
            \cup IF Alive(cmd[c].child) THEN {To(c, "hello")} ELSE {}
      [] cmd[c].ask = "missing" -> {Cleaning(c, "end", "stopped")}
      [] cmd[c].ask = "verify" -> {Ending(c, "refused")}

\* Mutation: stop trusts whoever answers.
AnsweredByAny(c, p) ==
    CASE cmd[c].ask = "first" -> Ending(c, "running")
      [] cmd[c].ask = "ready" -> Ending(c, "started")
      [] cmd[c].ask = "missing" -> Ending(c, "refused")
      [] cmd[c].ask = "verify" -> To(c, "term")

\* What follows the answer of p.
Answered(c, p) ==
    CASE cmd[c].ask = "first" -> Ending(c, "running")
      [] cmd[c].ask = "ready" -> IF p = cmd[c].child THEN Ending(c, "started")
                                 ELSE [To(c, "record") EXCEPT !.pid = p]
      [] cmd[c].ask = "missing" -> Ending(c, "refused")
      [] cmd[c].ask = "verify" -> IF p = cmd[c].pid THEN To(c, "term") ELSE Ending(c, "refused")

\* daemon_hello.
Hello(c) ==
    /\ cmd[c].at = "hello"
    /\ IF Reachable THEN Goes(c, [To(c, "answer") EXCEPT !.peer = sock.by])
                    ELSE \E r \in Unanswered(c) : Goes(c, r)
    /\ UNCHANGED <<proc, files, seen, marks>>

HelloAnswer(c) ==
    /\ cmd[c].at = "answer"
    /\ LET p == cmd[c].peer
       IN  \/ proc[p] = "serving" /\ Goes(c, [Answered(c, p) EXCEPT !.peer = None])
          \/ /\ ~Listening(p)
             /\ \E r \in Unanswered(c) : Goes(c, [r EXCEPT !.peer = None])
    /\ UNCHANGED <<proc, files, seen, marks>>

CleanSocket(c) ==
    /\ cmd[c].at = "clean-socket"
    /\ sock' = None
    /\ Goes(c, To(c, "clean-pid"))
    /\ UNCHANGED <<proc, pidFile, lock, seen, marks>>

CleanPid(c) ==
    /\ cmd[c].at = "clean-pid"
    /\ pidFile' = None
    /\ Goes(c, To(c, "clean-lock"))
    /\ UNCHANGED <<proc, sock, lock, seen, marks>>

\* Mutation: the lock stays.
LockKept == lock

LockRemoved == None

CleanLock(c) ==
    /\ cmd[c].at = "clean-lock"
    /\ lock' = LockRemoved
    /\ Goes(c, [To(c, cmd[c].then) EXCEPT !.then = None])
    /\ UNCHANGED <<proc, sock, pidFile, seen, marks>>

-----------------------------------------------------------------------------
\* daemon_start.

\* daemon_cleanup_stale_lifecycle.
StartStale(c) ==
    /\ cmd[c].at = "stale"
    /\ Goes(c, IF (IF pidFile # None THEN ~Alive(pidFile) ELSE lock # None)
               THEN Cleaning(c, "recorded", None) ELSE To(c, "recorded"))
    /\ UNCHANGED <<proc, files, seen, marks>>

StartRecorded(c) ==
    /\ cmd[c].at = "recorded"
    /\ Goes(c, IF pidFile # None /\ Alive(pidFile) THEN Ending(c, "running") ELSE To(c, "probe"))
    /\ UNCHANGED <<proc, files, seen, marks>>

StartProbe(c) ==
    /\ cmd[c].at = "probe"
    /\ Goes(c, CASE Probed = "clear" -> To(c, "fork")
                 [] Probed = "stale" -> To(c, "unlink")
                 [] OTHER -> Ending(c, Probed))
    /\ UNCHANGED <<proc, files, seen, marks>>

StartUnlink(c) ==
    /\ cmd[c].at = "unlink"
    /\ Goes(c, IF sock = None THEN Ending(c, "failed") ELSE To(c, "fork"))
    /\ sock' = None
    /\ UNCHANGED <<proc, pidFile, lock, seen, marks>>

StartFork(c) ==
    /\ cmd[c].at = "fork"
    /\ \E p \in Pid :
          /\ proc[p] = "free"
          /\ ServerMoves(p, "probe")
          /\ Goes(c, [To(c, "lock") EXCEPT !.child = p, !.pid = p])
    /\ UNCHANGED <<files, seen, marks>>

StartForkFails(c) ==
    /\ cmd[c].at = "fork"
    /\ Goes(c, Ending(c, "failed"))
    /\ UNCHANGED <<proc, files, seen, marks>>

\* daemon_create_lifecycle_lock.
StartLock(c) ==
    /\ cmd[c].at = "lock"
    /\ Goes(c, IF lock = None THEN To(c, "record")
               ELSE [To(c, "kill") EXCEPT !.verdict = "locked"])
    /\ lock' = IF lock = None THEN cmd[c].child ELSE lock
    /\ UNCHANGED <<proc, sock, pidFile, seen, marks>>

\* daemon_write_pid_file empties the file and then writes it.
StartRecord(c) ==
    /\ cmd[c].at = "record"
    /\ pidFile' = None
    /\ Goes(c, To(c, "write"))
    /\ UNCHANGED <<proc, sock, lock, seen, marks>>

StartWrite(c) ==
    /\ cmd[c].at = "write"
    /\ pidFile' = cmd[c].pid
    /\ Goes(c, IF cmd[c].ask = "ready" THEN Ending(c, "started")
               ELSE [To(c, "hello") EXCEPT !.ask = "ready"])
    /\ UNCHANGED <<proc, sock, lock, seen, marks>>

StartRecordFails(c) ==
    /\ cmd[c].at \in {"record", "write"}
    /\ Goes(c, IF cmd[c].ask = "ready" THEN Ending(c, "started")
               ELSE [To(c, "kill") EXCEPT !.verdict = "failed"])
    /\ UNCHANGED <<proc, files, seen, marks>>

\* Mutation: the child is left alone.
AfterKillNothing(p) == proc[p]

AfterKill(p) == IF proc[p] \in Server THEN Dead(p) ELSE proc[p]

StartKill(c) ==
    /\ cmd[c].at = "kill"
    /\ ServerMoves(cmd[c].child, AfterKill(cmd[c].child))
    /\ Goes(c, Cleaning(c, "end", cmd[c].verdict))
    /\ MarkEnd(cmd[c].child)
    /\ UNCHANGED <<files, seen>>

-----------------------------------------------------------------------------
\* daemon_stop.

StopRead(c) ==
    /\ cmd[c].at = "read"
    /\ Goes(c, IF pidFile = None THEN [To(c, "hello") EXCEPT !.ask = "missing"]
               ELSE IF ~Alive(pidFile) THEN Cleaning(c, "end", "stopped")
               ELSE [To(c, "hello") EXCEPT !.ask = "verify", !.pid = pidFile])
    /\ UNCHANGED <<proc, files, seen, marks>>

\* A signal by pid, whoever has it by now; a zombie stays.
Ended(p) == IF proc[p] = "zombie" THEN "zombie" ELSE Dead(p)

\* SIGTERM, which the process may outlive.
StopTerm(c) ==
    /\ cmd[c].at = "term"
    /\ LET p == cmd[c].pid
       IN  IF Alive(p)
           THEN /\ \E after \in {proc[p], Ended(p)} : ServerMoves(p, after)
                /\ Goes(c, To(c, "insist"))
           ELSE /\ Goes(c, Ending(c, "failed"))
                /\ UNCHANGED proc
    /\ MarkEnd(cmd[c].pid)
    /\ UNCHANGED <<files, seen>>

\* SIGKILL, for a pid that is still alive some seconds later.
StopInsist(c) ==
    /\ cmd[c].at = "insist"
    /\ ServerMoves(cmd[c].pid, IF Alive(cmd[c].pid) THEN Ended(cmd[c].pid) ELSE "free")
    /\ Goes(c, Cleaning(c, "end", "stopped"))
    /\ MarkEnd(cmd[c].pid)
    /\ UNCHANGED <<files, seen>>

-----------------------------------------------------------------------------
ServerStep(p) ==
    \/ ServerProbe(p) \/ ServerUnlink(p) \/ ServerBind(p) \/ ServerListen(p)
    \/ ServerChmod(p) \/ ServerDies(p) \/ Serve(p)

OtherStep(p) == PidGiven(p) \/ OtherEnds(p)

CommandStep(c) ==
    \/ Start(c) \/ Stop(c) \/ End(c) \/ Killed(c)
    \/ Hello(c) \/ HelloAnswer(c)
    \/ CleanSocket(c) \/ CleanPid(c) \/ CleanLock(c)
    \/ StartStale(c) \/ StartRecorded(c) \/ StartProbe(c) \/ StartUnlink(c)
    \/ StartFork(c) \/ StartForkFails(c) \/ StartLock(c)
    \/ StartRecord(c) \/ StartWrite(c) \/ StartRecordFails(c) \/ StartKill(c)
    \/ StopRead(c) \/ StopTerm(c) \/ StopInsist(c)

Next ==
    \/ \E p \in Pid : ServerStep(p) \/ OtherStep(p)
    \/ \E c \in Command : CommandStep(c)

Spec == Init /\ [][Next]_vars

-----------------------------------------------------------------------------
Points == {"idle", "hello", "answer", "clean-socket", "clean-pid", "clean-lock",
           "stale", "recorded", "probe", "unlink", "fork", "lock", "record", "write",
           "kill", "read", "term", "insist", "end"}

TypeOK ==
    /\ proc \in [Pid -> Server \cup Others \cup {"free", "zombie"}]
    /\ sock \in {None} \cup [by : Pid, open : BOOLEAN]
    /\ pidFile \in Pid \cup {None} /\ lock \in Pid \cup {None}
    /\ \A c \in Command :
          /\ cmd[c].at \in Points
          /\ {cmd[c].peer, cmd[c].pid, cmd[c].child} \subseteq Pid \cup {None}
          /\ cmd[c].child # None => proc[cmd[c].child] # "free"
    /\ seen \subseteq {"serve", "overlap", "interrupt"}
    /\ marks \subseteq {"half-made", "pid"}

Undisturbed(troubles) == (seen \cup marks) \cap troubles = {}

\* The servers that have bound a socket.
Daemons == {p \in Pid : proc[p] \in {"listen", "chmod", "serving"}}

\* Nothing is under way.
Quiet == Active = {} /\ \A p \in Pid : proc[p] \notin Booting

(***************************************************************************)
(* At most one daemon, as long as commands are used one after the other,   *)
(* no foreground server is mixed in and the recorded pid does not change   *)
(* hands under a command: whatever crashed or was killed before, a start   *)
(* meets the running daemon in one of its checks, and one that gives up    *)
(* takes its child with it.                                                *)
(***************************************************************************)
OneDaemon ==
    Undisturbed({"overlap", "serve", "pid"}) => Cardinality(Daemons) <= 1

(***************************************************************************)
(* No daemon is lost: one that serves when all commands are done is the    *)
(* one behind the socket, and the pid file names it, so that the next stop *)
(* finds it.                                                               *)
(***************************************************************************)
NoLostDaemon ==
    Undisturbed({"overlap", "serve", "interrupt", "pid"}) /\ Quiet =>
      \A p \in Daemons : sock = [by |-> p, open |-> TRUE] /\ pidFile = p

\* One daemon, and the next stop finds it.
OneKnownDaemon == TypeOK /\ OneDaemon /\ NoLostDaemon

\* A start is turned away although no other server, nor any process with the
\* recorded pid, is alive.
Blocked(c) ==
    /\ cmd[c].verdict = None
    /\ cmd'[c].verdict \in {"running", "in-use", "locked", "unsafe"}
    /\ \A p \in Pid \ {cmd[c].child} :
          proc[p] \notin Server /\ ~(p = pidFile /\ proc[p] \in Others)

(***************************************************************************)
(* What a crash leaves behind never blocks: a start is turned away only    *)
(* when another server, or a process with the recorded pid, is alive.      *)
(* That a server never ends between bind and chmod is assumed, and that    *)
(* the recorded pid does not change hands between two looks at it.         *)
(***************************************************************************)
StaleNeverBlocks ==
    [][Undisturbed({"overlap", "half-made", "pid"}) => \A c \in Command : ~Blocked(c)]_vars

(***************************************************************************)
(* The stale socket cleanup that docs/daemon/stella-daemon.md:172 lists:   *)
(* no socket of a dead server turns a start away, wherever it died.        *)
(***************************************************************************)
StaleIsCleaned ==
    [][Undisturbed({"overlap", "pid"}) => \A c \in Command : ~Blocked(c)]_vars

(***************************************************************************)
(* However commands overlap, none of them ends a process that is not a     *)
(* daemon, not even one with the pid in the pid file: the daemon itself    *)
(* has told its pid.  Pids change hands at any time; a process that gets   *)
(* the pid between that answer and the signals is a newcomer.              *)
(***************************************************************************)
StrangersLive ==
    [][cmd' # cmd => \A p \in Pid : proc[p] = "stranger" => proc'[p] = "stranger"]_vars

(***************************************************************************)
(* "--stop은 pid file과 hello response의 pid가 일치할 때만 종료한다"       *)
(* (docs/daemon/stella-daemon.md:170): a stop ends the daemon that has     *)
(* answered and no other process, newcomers included.                      *)
(***************************************************************************)
OnlyTheDaemonEnds ==
    [][cmd' # cmd => \A p \in Pid : proc[p] \in Others => proc'[p] \in Others]_vars

(***************************************************************************)
(* "Daemon은 package root와 build directory 단위로 하나의 active instance를 *)
(* 가진다" (docs/daemon/stella-daemon.md:151), for commands used one after *)
(* the other.                                                              *)
(***************************************************************************)
OneActiveInstance ==
    Undisturbed({"overlap", "interrupt"}) => Cardinality(Daemons) <= 1
=============================================================================
