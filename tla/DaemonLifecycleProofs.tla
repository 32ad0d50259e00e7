------------------------ MODULE DaemonLifecycleProofs ------------------------
(***************************************************************************)
(* Theorems about DaemonLifecycle, for every number of commands and pids.  *)
(***************************************************************************)
EXTENDS DaemonLifecycle, FiniteSetTheorems, TLAPS

Process == Server \cup Others \cup {"free", "zombie"}
Socket == [by : Pid, open : BOOLEAN]
Word == [at : Points, ask : {None, "first", "ready", "missing", "verify"},
         peer : Pid \cup {None}, pid : Pid \cup {None}, child : Pid \cup {None},
         then : {None, "end", "recorded"},
         verdict : {None, "running", "started", "refused", "stopped", "not-ready",
                    "in-use", "unsafe", "failed", "locked"}]

TypeInv ==
    /\ proc \in [Pid -> Process]
    /\ sock \in {None} \cup Socket
    /\ pidFile \in Pid \cup {None} /\ lock \in Pid \cup {None}
    /\ cmd \in [Command -> Word]
    /\ seen \subseteq {"serve", "overlap", "interrupt"}

MarksInv ==
    /\ marks \subseteq {"half-made", "pid"}
    /\ "overlap" \in seen => marks = {}

Signals(c) == cmd[c].at \in {"term", "insist"}
Cleans(c) == cmd[c].at \in {"clean-socket", "clean-pid", "clean-lock"}
Asks(c) == cmd[c].at \in {"hello", "answer"}
Before(c) == cmd[c].at \in {"stale", "recorded", "probe", "unlink", "fork"}

\* What a command has in its locals at each point.
ShapeInv(c) ==
    /\ cmd[c].at \in {"idle", "read"} \/ Signals(c) \/ Before(c) => cmd[c].child = None
    /\ Asks(c) => /\ cmd[c].ask \in {"first", "ready", "missing", "verify"}
                  /\ cmd[c].ask = "ready" <=> cmd[c].child # None
    /\ cmd[c].at \in {"lock", "record", "write", "kill"} => cmd[c].child # None
    /\ cmd[c].at = "answer" => cmd[c].peer # None
    /\ cmd[c].at \in {"lock", "record", "write"} \/ Signals(c) => cmd[c].pid # None
    /\ Before(c) \/ cmd[c].at = "lock" => cmd[c].ask # "ready"
    /\ Cleans(c) =>
         /\ cmd[c].then \in {"end", "recorded"}
         /\ cmd[c].then = "recorded" => cmd[c].child = None /\ cmd[c].ask # "ready"

\* A child is nobody else's, and not gone before its parent; nothing that is
\* to be killed is a stranger.
FamilyInv ==
    /\ \A c \in Command :
         cmd[c].child # None => proc[cmd[c].child] \in Server \cup {"zombie"}
    /\ \A c, d \in Command : c # d /\ cmd[c].child # None => cmd[c].child # cmd[d].child
    /\ \A p \in Pid : proc[p] = "zombie" => \E c \in Command : cmd[c].child = p
    /\ \A c \in Command : Signals(c) => proc[cmd[c].pid] # "stranger"

Recorded(kind) == pidFile # None /\ proc[pidFile] \in kind

\* While commands follow one another and the recorded pid stays with its process:
\* what the files say at each point of the one command that is running.
OrderlyCommand(c) ==
    /\ cmd[c].at = "stale" \/ Cleans(c) => ~Recorded(Server)
    /\ Cleans(c) /\ cmd[c].child # None => proc[cmd[c].child] = "zombie"
    /\ cmd[c].at = "clean-lock" => pidFile = None
    /\ cmd[c].at = "recorded" => (pidFile = None /\ lock = None) \/ Recorded(Others)
    /\ cmd[c].at \in {"probe", "unlink", "fork", "lock"} => pidFile = None /\ lock = None
    /\ cmd[c].at = "fork" => sock = None
    /\ cmd[c].child # None => /\ pidFile \in {None, cmd[c].child}
                              /\ sock # None => sock.by = cmd[c].child
    /\ cmd[c].at \in {"lock", "record", "write"} =>
         cmd[c].pid = cmd[c].child /\ cmd[c].ask # "ready"
    /\ Asks(c) /\ cmd[c].ask = "ready" => pidFile = cmd[c].child
    /\ cmd[c].at = "answer" /\ cmd[c].ask = "ready" => cmd[c].peer = cmd[c].child
    /\ cmd[c].at = "answer" /\ cmd[c].ask = "first" /\ Recorded(Server) => pidFile = cmd[c].peer
    /\ Asks(c) /\ cmd[c].ask = "missing" => pidFile = None
    /\ (Asks(c) /\ cmd[c].ask = "verify") \/ Signals(c) => cmd[c].pid = pidFile

Owner(p) == p = pidFile \/ \E c \in Command : cmd[c].child = p

Orderly ==
    /\ \A c, d \in Active : c = d
    /\ \A p \in Pid : proc[p] \in Booting =>
         (\A c \in Active : cmd[c].child = p) /\ \A q \in Pid : proc[q] \in Booting => p = q
    /\ \A p \in Pid : /\ proc[p] \in {"listen", "chmod"} => sock # None /\ sock.by = p
                      /\ proc[p] = "serving" /\ Owner(p) => sock = [by |-> p, open |-> TRUE]
                      /\ proc[p] = "unlink" => ~Recorded({"serving"})
    /\ \A c \in Command : OrderlyCommand(c)

\* A command that has not missed the server p.
Meets(c, p) ==
    /\ ~Before(c) /\ ~Cleans(c)
    /\ cmd[c].child # None => cmd[c].child = p
    /\ cmd[c].at = "answer" => cmd[c].peer = p
    /\ Signals(c) => cmd[c].pid = p

\* And while nobody starts a server in the foreground: there is one server, the
\* socket is its own, and whoever removes the files has found none.
OneServer ==
    /\ \A p, q \in Pid : proc[p] \in Server /\ proc[q] \in Server => p = q
    /\ \A p \in Pid : proc[p] \in Server =>
         /\ proc[p] = "serving" => sock = [by |-> p, open |-> TRUE]
         /\ pidFile \in {None, p}
         /\ \A c \in Command : Meets(c, p)

\* And while nobody kills a command: the pid file names the server, or will.
Names(c, p) == cmd[c].child = p /\ cmd[c].at \in {"lock", "record", "write", "kill"}

Named ==
    \A p \in Pid : proc[p] \in Server => pidFile = p \/ \E c \in Command : Names(c, p)

IInv ==
    /\ TypeInv /\ MarksInv /\ (\A c \in Command : ShapeInv(c)) /\ FamilyInv
    /\ Undisturbed({"overlap", "pid"}) => Orderly
    /\ Undisturbed({"overlap", "serve", "pid"}) => OneServer
    /\ Undisturbed({"overlap", "serve", "interrupt", "pid"}) => Named

-----------------------------------------------------------------------------
\* Processes and records.

LEMMA NoPid == \A p \in Pid : p # None
BY CommandAssumption

LEMMA NoSocket ==
  ASSUME NEW p \in Pid, NEW b \in BOOLEAN
  PROVE  [by |-> p, open |-> b] \in Socket /\ [by |-> p, open |-> b] # None
BY CommandAssumption DEF Socket

LEMMA IdleWord ==
  /\ Idle \in Word /\ Idle.at = "idle" /\ Idle.ask = None /\ Idle.peer = None
  /\ Idle.pid = None /\ Idle.child = None /\ Idle.then = None /\ Idle.verdict = None
BY DEF Idle, Word, Points

Verdict == {None, "running", "started", "refused", "stopped", "not-ready",
            "in-use", "unsafe", "failed", "locked"}

LEMMA ToWord ==
  ASSUME TypeInv, NEW c \in Command, NEW pt \in Points
  PROVE  /\ To(c, pt) \in Word /\ To(c, pt).at = pt
         /\ To(c, pt).ask = cmd[c].ask /\ To(c, pt).peer = cmd[c].peer
         /\ To(c, pt).pid = cmd[c].pid /\ To(c, pt).child = cmd[c].child
         /\ To(c, pt).then = cmd[c].then /\ To(c, pt).verdict = cmd[c].verdict
BY DEF TypeInv, To, Word

LEMMA EndingWord ==
  ASSUME TypeInv, NEW c \in Command, NEW v \in Verdict
  PROVE  /\ Ending(c, v) \in Word /\ Ending(c, v).at = "end"
         /\ Ending(c, v).ask = None /\ Ending(c, v).peer = None /\ Ending(c, v).pid = None
         /\ Ending(c, v).child = cmd[c].child
         /\ Ending(c, v).then = None /\ Ending(c, v).verdict = v
<1>1. cmd[c].child \in Pid \cup {None}
  BY DEF TypeInv, Word
<1> QED
  BY <1>1, IdleWord DEF Ending, Word, Points, Verdict

LEMMA CleaningWord ==
  ASSUME TypeInv, NEW c \in Command, NEW v \in Verdict, NEW next \in {"end", "recorded"}
  PROVE  /\ Cleaning(c, next, v) \in Word /\ Cleaning(c, next, v).at = "clean-socket"
         /\ Cleaning(c, next, v).ask = cmd[c].ask /\ Cleaning(c, next, v).peer = None
         /\ Cleaning(c, next, v).pid = None /\ Cleaning(c, next, v).child = cmd[c].child
         /\ Cleaning(c, next, v).then = next /\ Cleaning(c, next, v).verdict = v
<1>1. cmd[c].ask \in {None, "first", "ready", "missing", "verify"}
  BY DEF TypeInv, Word
<1> DEFINE e == Ending(c, v)
<1>2. /\ e \in Word /\ e.at = "end" /\ e.ask = None /\ e.peer = None /\ e.pid = None
      /\ e.child = cmd[c].child /\ e.then = None /\ e.verdict = v
  BY EndingWord
<1>3. Cleaning(c, next, v) = [e EXCEPT !.at = "clean-socket", !.ask = cmd[c].ask, !.then = next]
  BY DEF Cleaning
<1> HIDE DEF e
<1> QED
  BY <1>1, <1>2, <1>3 DEF Word, Points

LEMMA GoesEffect ==
  ASSUME TypeInv, NEW c \in Command, NEW r \in Word, Goes(c, r)
  PROVE  /\ cmd' \in [Command -> Word] /\ cmd'[c] = r
         /\ \A d \in Command \ {c} : cmd'[d] = cmd[d]
BY DEF TypeInv, Goes

\* A command that is not running concerns nobody.
LEMMA IdleCommand ==
  ASSUME NEW c \in Command, cmd'[c].at = "idle", cmd'[c].child = None
  PROVE  /\ ShapeInv(c)' /\ OrderlyCommand(c)'
         /\ \A p \in Pid : Meets(c, p)' /\ ~Names(c, p)'
BY NoPid DEF ShapeInv, OrderlyCommand, Meets, Names, Before, Signals, Cleans, Asks

LEMMA NoChild ==
  ASSUME NEW c \in Command, ShapeInv(c), cmd[c].at = "idle"
  PROVE  cmd[c].child = None
BY DEF ShapeInv

LEMMA InitInv == Init => IInv
<1> SUFFICES ASSUME Init PROVE IInv
  OBVIOUS
<1>1. PICK p \in Pid, process \in {"free", "stranger"} :
          /\ proc = [q \in Pid |-> IF q = p THEN process ELSE "free"]
          /\ pidFile \in {None, p} /\ lock \in {None, p}
          /\ sock \in {None} \cup {[by |-> p, open |-> o] : o \in {OwnerOnly, TRUE}}
  BY DEF Init
<1>2. cmd = [c \in Command |-> Idle] /\ seen = {} /\ MarksInv
  BY DEF Init, MarksInv
<1>3. \A c \in Command : cmd[c].at = "idle" /\ cmd[c].child = None
  BY <1>2, IdleWord
<1>4. /\ proc \in [Pid -> Process]
      /\ \A q \in Pid : proc[q] \notin Server /\ proc[q] # "zombie"
  BY <1>1 DEF Process, Server, Others, Booting
<1>5. TypeInv
  <2>1. \A o \in {OwnerOnly, TRUE} : [by |-> p, open |-> o] \in Socket
    BY CommandAssumption DEF Socket
  <2>2. cmd \in [Command -> Word]
    BY <1>2, IdleWord
  <2> QED
    BY <1>1, <1>2, <1>4, <2>1, <2>2 DEF TypeInv
<1>6. (\A c \in Command : ShapeInv(c)) /\ FamilyInv
  BY <1>3, <1>4 DEF ShapeInv, FamilyInv, Before, Signals, Cleans, Asks
<1>7. Orderly
  BY <1>3, <1>4 DEF Orderly, OrderlyCommand, Active, Before, Signals, Cleans, Asks, Server, Booting
<1>8. OneServer /\ Named
  BY <1>4 DEF OneServer, Named
<1> QED
  BY <1>2, <1>5, <1>6, <1>7, <1>8 DEF IInv

-----------------------------------------------------------------------------
\* A step of a command that leaves the processes alone.

FilesStay(c) ==
    /\ \/ sock' = sock
       \/ /\ sock' = None
          /\ \A p \in Pid : /\ proc[p] \notin {"listen", "chmod"}
                            /\ proc[p] = "serving" => ~Owner(p)
    /\ pidFile' \in {pidFile, None, cmd[c].child}

LEMMA CommandMove ==
  ASSUME IInv, NEW c \in Command, NEW r \in Word, Goes(c, r),
         cmd[c].at # "idle", r.at # "idle", r.child = cmd[c].child,
         UNCHANGED <<proc, seen, marks>>,
         sock' \in {sock, None}, pidFile' \in Pid \cup {None}, lock' \in Pid \cup {None},
         ShapeInv(c)',
         r.at \in {"term", "insist"} => proc[r.pid] # "stranger",
         Orderly => OrderlyCommand(c)' /\ FilesStay(c),
         Orderly /\ OneServer => \A p \in Pid : proc[p] \in Server =>
           /\ Meets(c, p)' /\ pidFile' \in {None, p}
           /\ proc[p] = "serving" => sock' = sock,
         Orderly /\ OneServer /\ Named => \A p \in Pid : proc[p] \in Server =>
           /\ Names(c, p) => Names(c, p)' \/ pidFile' = p
           /\ pidFile = p => Names(c, p)' \/ pidFile' = p
  PROVE  IInv'
<1>0. TypeInv /\ MarksInv /\ (\A d \in Command : ShapeInv(d)) /\ FamilyInv
  BY DEF IInv
<1>1. /\ cmd' \in [Command -> Word] /\ cmd'[c] = r
      /\ \A d \in Command \ {c} : cmd'[d] = cmd[d]
  BY <1>0, GoesEffect
<1>2. TypeInv'
  BY <1>0, <1>1 DEF TypeInv
<1>3. \A d \in Command : ShapeInv(d)'
  BY <1>0, <1>1 DEF ShapeInv, Before, Signals, Cleans, Asks
<1>4. \A d \in Command : cmd'[d].child = cmd[d].child
  BY <1>1
<1>5. FamilyInv'
  BY <1>0, <1>1, <1>4 DEF FamilyInv, Signals
<1>6. ASSUME Orderly PROVE Orderly'
  <2>1. \A d \in Command \ {c} : cmd[d].at = "idle" /\ cmd[d].child = None
    BY <1>0, <1>6, NoChild DEF Orderly, Active
  <2>2. Active' = {c}
    BY <1>1, <2>1 DEF Active
  <2>3. Active = {c}
    BY <2>1 DEF Active
  <2>4. \A d \in Command : OrderlyCommand(d)'
    BY <1>1, <1>6, <2>1, IdleCommand
  <2>5. \A p \in Pid : Owner(p)' => Owner(p)
    BY <1>4, <1>6, NoPid DEF Owner, FilesStay
  <2>6. \A p \in Pid : proc[p] \in {"listen", "chmod"} => sock' # None /\ sock'.by = p
    BY <1>6 DEF Orderly, FilesStay
  <2>7. \A p \in Pid : proc[p] = "serving" /\ Owner(p)' => sock' = [by |-> p, open |-> TRUE]
    BY <1>6, <2>5 DEF Orderly, FilesStay
  <2>8. \A p \in Pid : proc[p] = "unlink" => ~Recorded({"serving"})'
    <3>1. SUFFICES ASSUME NEW p \in Pid, proc[p] = "unlink", pidFile' # None,
                          proc[pidFile'] = "serving"
                   PROVE  FALSE
      BY DEF Recorded
    <3>2. cmd[c].child = p /\ ~Recorded({"serving"})
      BY <1>6, <2>3, <3>1 DEF Orderly, Booting
    <3>3. pidFile' \in {pidFile, p}
      BY <1>6, <3>1, <3>2 DEF FilesStay
    <3> QED
      BY <3>1, <3>2, <3>3 DEF Recorded
  <2>9. \A p \in Pid : proc[p] \in Booting =>
           (\A d \in Active' : cmd'[d].child = p) /\ \A q \in Pid : proc[q] \in Booting => p = q
    BY <1>4, <1>6, <2>2, <2>3 DEF Orderly
  <2> QED
    BY <2>2, <2>4, <2>6, <2>7, <2>8, <2>9 DEF Orderly
<1>7. ASSUME Orderly, OneServer PROVE OneServer'
  BY <1>1, <1>7 DEF OneServer, Meets, Before, Signals, Cleans
<1>8. ASSUME Orderly, OneServer, Named PROVE Named'
  <2> SUFFICES ASSUME NEW p \in Pid, proc[p] \in Server
               PROVE  pidFile' = p \/ \E d \in Command : Names(d, p)'
    BY DEF Named
  <2>1. pidFile = p \/ \E d \in Command : Names(d, p)
    BY <1>8 DEF Named
  <2>2. ASSUME NEW d \in Command \ {c} PROVE ~Names(d, p)
    BY <1>0, <1>8, NoChild, NoPid DEF Orderly, Active, Names
  <2> QED
    BY <1>8, <2>1, <2>2
<1>9. /\ Undisturbed({"overlap", "pid"})' = Undisturbed({"overlap", "pid"})
      /\ Undisturbed({"overlap", "serve", "pid"})' = Undisturbed({"overlap", "serve", "pid"})
      /\ Undisturbed({"overlap", "serve", "interrupt", "pid"})' = Undisturbed({"overlap", "serve", "interrupt", "pid"})
  BY DEF Undisturbed
<1>10. /\ Undisturbed({"overlap", "serve", "pid"}) => Undisturbed({"overlap", "pid"})
       /\ Undisturbed({"overlap", "serve", "interrupt", "pid"}) => Undisturbed({"overlap", "serve", "pid"})
  BY DEF Undisturbed
<1> QED
  BY <1>0, <1>2, <1>3, <1>5, <1>6, <1>7, <1>8, <1>9, <1>10 DEF IInv, MarksInv

-----------------------------------------------------------------------------
\* The steps of a command that leave the processes alone.

\* The one command that is running: the servers that boot, and the zombies, are
\* its child.
LEMMA Alone ==
  ASSUME IInv, Orderly, NEW c \in Command, cmd[c].at # "idle"
  PROVE  /\ OrderlyCommand(c)
         /\ \A d \in Command \ {c} : cmd[d].at = "idle" /\ cmd[d].child = None
         /\ \A p \in Pid : proc[p] \in Booting \cup {"zombie"} => p = cmd[c].child
         /\ \A p \in Pid : Owner(p) => p \in {pidFile, cmd[c].child}
<1>1. \A d \in Command \ {c} : cmd[d].at = "idle" /\ cmd[d].child = None
  BY NoChild DEF IInv, Orderly, Active
<1> QED
  BY <1>1, NoPid DEF IInv, FamilyInv, Orderly, Active, Owner

LEMMA UnansweredWord ==
  ASSUME TypeInv, NEW c \in Command, ShapeInv(c), Asks(c), NEW s \in Unanswered(c)
  PROVE  s \in Word
<1>1. "stale" \in Points /\ "kill" \in Points /\ "hello" \in Points
  BY DEF Points
<1>2. "stopped" \in Verdict /\ "refused" \in Verdict
  BY DEF Verdict
<1>3. cmd[c].ask \in {"first", "ready", "missing", "verify"}
  BY DEF ShapeInv
<1>4. [To(c, "kill") EXCEPT !.verdict = "not-ready"] \in Word
  BY <1>1, ToWord DEF Word
<1> QED
  BY <1>1, <1>2, <1>3, <1>4, ToWord, EndingWord, CleaningWord DEF Unanswered

LEMMA UnansweredMove ==
  ASSUME IInv, NEW c \in Command, NEW s \in Unanswered(c), NEW r \in Word,
         Goes(c, r), Asks(c), UNCHANGED <<proc, files, seen, marks>>,
         r.at = s.at, r.ask = s.ask, r.pid = s.pid, r.child = s.child, r.then = s.then,
         Orderly /\ cmd[c].ask = "first" => ~Recorded(Server),
         Orderly /\ OneServer /\ cmd[c].ask \in {"first", "missing"} =>
           \A p \in Pid : proc[p] \notin Server
  PROVE  IInv'
<1>0. TypeInv /\ ShapeInv(c) /\ FamilyInv /\ cmd[c] \in Word
  BY DEF IInv, TypeInv
<1>1. cmd' \in [Command -> Word] /\ cmd'[c] = r
  BY <1>0, GoesEffect
<1>2. cmd[c].ask \in {"first", "ready", "missing", "verify"}
  BY <1>0 DEF ShapeInv, Word
<1>3. /\ "stale" \in Points /\ "kill" \in Points /\ "hello" \in Points
      /\ "stopped" \in Verdict /\ "refused" \in Verdict
  BY DEF Points, Verdict
<1>4. \/ /\ cmd[c].ask = "first" /\ r.at = "stale" /\ r.child = cmd[c].child
         /\ r.ask = cmd[c].ask
      \/ /\ cmd[c].ask = "ready" /\ r.at \in {"kill", "hello"} /\ r.child = cmd[c].child
         /\ r.ask = cmd[c].ask
      \/ /\ cmd[c].ask = "missing" /\ r.at = "clean-socket" /\ r.then = "end"
         /\ r.child = cmd[c].child /\ r.ask = cmd[c].ask
      \/ /\ cmd[c].ask = "verify" /\ r.at = "end" /\ r.child = cmd[c].child /\ r.ask = None
  <2>1. CASE cmd[c].ask = "first"
    BY <1>0, <1>3, <2>1, ToWord DEF Unanswered
  <2>2. CASE cmd[c].ask = "ready"
    <3>1. s \in {[To(c, "kill") EXCEPT !.verdict = "not-ready"], To(c, "hello")}
      BY <2>2 DEF Unanswered
    <3> QED
      BY <1>0, <1>3, <2>2, <3>1, ToWord DEF Word
  <2>3. CASE cmd[c].ask = "missing"
    BY <1>0, <1>3, <2>3, CleaningWord DEF Unanswered
  <2>4. CASE cmd[c].ask = "verify"
    BY <1>0, <1>3, <2>4, EndingWord DEF Unanswered
  <2> QED
    BY <1>2, <2>1, <2>2, <2>3, <2>4
<1>5. ShapeInv(c)'
  BY <1>0, <1>1, <1>4 DEF ShapeInv, Asks, Before, Signals, Cleans
<1>6. ASSUME Orderly PROVE OrderlyCommand(c)' /\ FilesStay(c)
  BY <1>0, <1>1, <1>4, <1>6, Alone
     DEF OrderlyCommand, FilesStay, ShapeInv, Asks, Before, Signals, Cleans, Recorded, files
<1>7. ASSUME Orderly, OneServer, NEW p \in Pid, proc[p] \in Server
      PROVE  Meets(c, p)' /\ pidFile' \in {None, p} /\ sock' = sock
  BY <1>1, <1>4, <1>7 DEF OneServer, Meets, Before, Signals, Cleans, files
<1>8. ASSUME NEW p \in Pid PROVE ~Names(c, p)
  BY DEF Names, Asks
<1>9. cmd[c].at # "idle" /\ r.at \notin {"idle", "term", "insist"} /\ r.child = cmd[c].child
  BY <1>4 DEF Asks
<1>10. UNCHANGED <<proc, seen, sock, pidFile, lock>>
  BY DEF files
<1> QED
  BY <1>0, <1>5, <1>6, <1>7, <1>8, <1>9, <1>10, CommandMove DEF TypeInv

LEMMA HelloSafe ==
  ASSUME IInv, NEW c \in Command, Hello(c)
  PROVE  IInv'
<1>0. TypeInv /\ ShapeInv(c) /\ FamilyInv /\ cmd[c] \in Word
  BY DEF IInv, TypeInv
<1>1. cmd[c].at = "hello" /\ UNCHANGED <<proc, sock, pidFile, lock, seen, marks>>
  BY DEF Hello, files
<1>2. ASSUME Orderly, cmd[c].child = None, NEW p \in Pid, proc[p] \in Server
      PROVE  proc[p] = "serving"
  BY <1>1, <1>2, Alone, NoPid DEF Server
<1>3. cmd[c].ask \in {"first", "missing"} => cmd[c].child = None
  BY <1>0, <1>1 DEF ShapeInv, Asks
<1>4. CASE ~Reachable
  <2>1. PICK s \in Unanswered(c) : Goes(c, s)
    BY <1>4 DEF Hello
  <2>2. s \in Word
    BY <1>0, <1>1, UnansweredWord DEF Asks
  <2>3. ASSUME Orderly, cmd[c].ask = "first" PROVE ~Recorded(Server)
    <3>1. SUFFICES ASSUME pidFile # None, proc[pidFile] \in Server PROVE FALSE
      BY DEF Recorded
    <3>2. pidFile \in Pid /\ proc[pidFile] = "serving"
      BY <1>0, <1>2, <1>3, <2>3, <3>1 DEF TypeInv
    <3>3. sock = [by |-> pidFile, open |-> TRUE]
      BY <2>3, <3>2 DEF Orderly, Owner
    <3> QED
      BY <1>0, <1>4, <3>2, <3>3, NoSocket DEF Reachable, Listening
  <2>4. ASSUME Orderly, OneServer, cmd[c].ask \in {"first", "missing"}, NEW p \in Pid,
               proc[p] \in Server
        PROVE  FALSE
    <3>1. proc[p] = "serving" /\ sock = [by |-> p, open |-> TRUE]
      BY <1>2, <1>3, <2>4 DEF OneServer
    <3>2. sock # None
      BY <1>0, <3>1, NoSocket
    <3> QED
      BY <1>4, <3>1, <3>2 DEF Reachable, Listening
  <2> QED
    BY <1>1, <2>1, <2>2, <2>3, <2>4, UnansweredMove DEF Asks, files
<1>5. CASE Reachable
  <2> DEFINE r == [To(c, "answer") EXCEPT !.peer = sock.by]
  <2>1. sock \in Socket /\ sock # None /\ sock.by \in Pid
    BY <1>0, <1>5 DEF Reachable, TypeInv, Socket
  <2>2. Goes(c, r)
    BY <1>5 DEF Hello
  <2>3. "answer" \in Points
    BY DEF Points
  <2>4. /\ r \in Word /\ r.at = "answer" /\ r.peer = sock.by /\ r.ask = cmd[c].ask
        /\ r.pid = cmd[c].pid /\ r.child = cmd[c].child /\ r.then = cmd[c].then
    BY <1>0, <2>1, <2>3, ToWord DEF Word
  <2> HIDE DEF r
  <2>5. cmd' \in [Command -> Word] /\ cmd'[c] = r
    BY <1>0, <2>2, <2>4, GoesEffect
  <2>6. ShapeInv(c)'
    BY <1>0, <1>1, <2>1, <2>4, <2>5, NoPid DEF ShapeInv, Asks, Before, Signals, Cleans
  <2>7. ASSUME Orderly PROVE OrderlyCommand(c)' /\ FilesStay(c)
    <3>1. OrderlyCommand(c)
      BY <2>7 DEF Orderly
    <3>2. ASSUME cmd[c].ask = "first", Recorded(Server) PROVE pidFile = sock.by
      <4>1. pidFile \in Pid /\ proc[pidFile] = "serving"
        BY <1>0, <1>2, <1>3, <2>7, <3>2 DEF TypeInv, Recorded
      <4> QED
        BY <2>7, <4>1 DEF Orderly, Owner
    <3> QED
      BY <1>0, <1>1, <2>1, <2>4, <2>5, <3>1, <3>2
         DEF OrderlyCommand, FilesStay, ShapeInv, Asks, Before, Signals, Cleans, Recorded
  <2>8. ASSUME Orderly, OneServer, NEW p \in Pid, proc[p] \in Server
        PROVE  Meets(c, p)' /\ pidFile' \in {None, p} /\ sock' = sock
    <3>1. sock.by = p
      <4>1. CASE proc[p] = "serving"
        BY <2>8, <4>1 DEF OneServer
      <4>2. CASE proc[p] \in Booting
        BY <1>1, <2>1, <2>8, <4>2, Alone, NoPid DEF OrderlyCommand
      <4> QED
        BY <2>8, <4>1, <4>2 DEF Server
    <3> QED
      BY <1>1, <2>4, <2>5, <2>8, <3>1 DEF OneServer, Meets, Before, Signals, Cleans
  <2>9. ASSUME NEW p \in Pid PROVE ~Names(c, p)
    BY <1>1 DEF Names
  <2> QED
    BY <1>0, <1>1, <2>2, <2>4, <2>6, <2>7, <2>8, <2>9, CommandMove DEF TypeInv
<1> QED
  BY <1>4, <1>5

LEMMA HelloAnswerSafe ==
  ASSUME IInv, NEW c \in Command, HelloAnswer(c)
  PROVE  IInv'
<1>0. TypeInv /\ ShapeInv(c) /\ FamilyInv /\ cmd[c] \in Word
  BY DEF IInv, TypeInv
<1>1. /\ cmd[c].at = "answer" /\ Asks(c) /\ UNCHANGED <<proc, sock, pidFile, lock, seen, marks>>
      /\ UNCHANGED <<proc, files, seen, marks>>
  BY DEF HelloAnswer, files, Asks
<1>2. cmd[c].peer \in Pid /\ cmd[c].ask \in {"first", "ready", "missing", "verify"}
  BY <1>0, <1>1 DEF ShapeInv, Word
<1>3. cmd[c].ask # "ready" => cmd[c].child = None
  BY <1>0, <1>1 DEF ShapeInv
<1>4. CASE ~Listening(cmd[c].peer) /\ \E s \in Unanswered(c) : Goes(c, [s EXCEPT !.peer = None])
  <2>1. PICK s \in Unanswered(c) : Goes(c, [s EXCEPT !.peer = None])
    BY <1>4
  <2> DEFINE r == [s EXCEPT !.peer = None]
  <2>2. s \in Word
    BY <1>0, <1>1, UnansweredWord
  <2>3. /\ r \in Word /\ r.at = s.at /\ r.ask = s.ask /\ r.pid = s.pid
        /\ r.child = s.child /\ r.then = s.then
    BY <2>2 DEF Word
  <2>4. Goes(c, r)
    BY <2>1
  <2> HIDE DEF r
  <2>5. ASSUME Orderly, cmd[c].child = None, NEW p \in Pid, proc[p] \in Server
        PROVE  proc[p] = "serving"
    BY <1>1, <2>5, Alone, NoPid DEF Server
  <2>6. ASSUME Orderly, cmd[c].ask = "first" PROVE ~Recorded(Server)
    <3>1. SUFFICES ASSUME Recorded(Server) PROVE FALSE
      OBVIOUS
    <3>2. pidFile = cmd[c].peer
      BY <1>1, <2>6, <3>1 DEF Orderly, OrderlyCommand
    <3>3. proc[cmd[c].peer] = "serving"
      BY <1>2, <1>3, <2>5, <2>6, <3>1, <3>2 DEF Recorded
    <3> QED
      BY <1>4, <3>3 DEF Listening
  <2>7. ASSUME Orderly, OneServer, cmd[c].ask \in {"first", "missing"}, NEW p \in Pid,
               proc[p] \in Server
        PROVE  FALSE
    <3>1. proc[p] = "serving"
      BY <1>3, <2>5, <2>7
    <3>2. cmd[c].peer = p
      BY <1>1, <2>7 DEF OneServer, Meets
    <3> QED
      BY <1>4, <3>1, <3>2 DEF Listening
  <2> QED
    BY <1>1, <2>2, <2>3, <2>4, <2>6, <2>7, UnansweredMove
<1>5. CASE /\ proc[cmd[c].peer] = "serving"
           /\ Goes(c, [Answered(c, cmd[c].peer) EXCEPT !.peer = None])
  <2> DEFINE a == Answered(c, cmd[c].peer)
             r == [a EXCEPT !.peer = None]
  <2>1. \/ a \in {Ending(c, "running"), Ending(c, "started"), Ending(c, "refused")}
        \/ /\ cmd[c].ask = "ready" /\ cmd[c].peer # cmd[c].child
           /\ a = [To(c, "record") EXCEPT !.pid = cmd[c].peer]
        \/ cmd[c].ask = "verify" /\ cmd[c].peer = cmd[c].pid /\ a = To(c, "term")
    BY <1>2 DEF Answered
  <2>2. /\ "record" \in Points /\ "term" \in Points
        /\ "running" \in Verdict /\ "started" \in Verdict /\ "refused" \in Verdict
    BY DEF Points, Verdict
  <2>3. a \in Word /\
        \/ a.at = "end" /\ a.child = cmd[c].child
        \/ /\ cmd[c].ask = "ready" /\ cmd[c].peer # cmd[c].child
           /\ a.at = "record" /\ a.child = cmd[c].child /\ a.pid = cmd[c].peer
        \/ /\ cmd[c].ask = "verify" /\ cmd[c].peer = cmd[c].pid
           /\ a.at = "term" /\ a.child = cmd[c].child /\ a.pid = cmd[c].pid
    <3>1. CASE a \in {Ending(c, "running"), Ending(c, "started"), Ending(c, "refused")}
      BY <1>0, <2>2, <3>1, EndingWord
    <3>2. CASE /\ cmd[c].ask = "ready" /\ cmd[c].peer # cmd[c].child
               /\ a = [To(c, "record") EXCEPT !.pid = cmd[c].peer]
      <4> HIDE DEF a
      <4> QED
        BY <1>0, <1>2, <2>2, <3>2, ToWord DEF Word
    <3>3. CASE cmd[c].ask = "verify" /\ cmd[c].peer = cmd[c].pid /\ a = To(c, "term")
      BY <1>0, <2>2, <3>3, ToWord
    <3> QED
      BY <2>1, <3>1, <3>2, <3>3
  <2>4. Goes(c, r)
    BY <1>5
  <2> HIDE DEF a
  <2>5. r \in Word /\ r.at = a.at /\ r.child = a.child /\ r.pid = a.pid
    BY <2>3 DEF Word
  <2> HIDE DEF r
  <2>6. cmd' \in [Command -> Word] /\ cmd'[c] = r
    BY <1>0, <2>4, <2>5, GoesEffect
  <2>7. ShapeInv(c)'
    BY <1>0, <1>1, <1>2, <1>3, <2>3, <2>5, <2>6, NoPid DEF ShapeInv, Asks, Before, Signals, Cleans
  <2>8. ASSUME Orderly PROVE OrderlyCommand(c)' /\ FilesStay(c)
    <3>1. OrderlyCommand(c)
      BY <2>8 DEF Orderly
    <3> QED
      BY <1>1, <2>3, <2>5, <2>6, <3>1
         DEF OrderlyCommand, FilesStay, Asks, Before, Signals, Cleans, Recorded
  <2>9. ASSUME Orderly, OneServer, NEW p \in Pid, proc[p] \in Server
        PROVE  Meets(c, p)' /\ pidFile' \in {None, p} /\ sock' = sock
    BY <1>1, <2>3, <2>5, <2>6, <2>9 DEF OneServer, Meets, Before, Signals, Cleans
  <2>10. ASSUME NEW p \in Pid PROVE ~Names(c, p)
    BY <1>1 DEF Names
  <2>11. r.at \in {"term", "insist"} => proc[r.pid] # "stranger"
    BY <1>5, <2>3, <2>5
  <2>12. cmd[c].at # "idle" /\ r.at # "idle" /\ r.child = cmd[c].child
    BY <1>1, <2>3, <2>5
  <2> QED
    BY <1>0, <1>1, <2>4, <2>5, <2>7, <2>8, <2>9, <2>10, <2>11, <2>12, CommandMove DEF TypeInv
<1> QED
  BY <1>4, <1>5 DEF HelloAnswer

LEMMA CleanSocketSafe ==
  ASSUME IInv, NEW c \in Command, CleanSocket(c)
  PROVE  IInv'
<1>0. TypeInv /\ ShapeInv(c) /\ FamilyInv
  BY DEF IInv
<1>1. /\ cmd[c].at = "clean-socket" /\ sock' = None /\ Goes(c, To(c, "clean-pid"))
      /\ UNCHANGED <<proc, pidFile, lock, seen, marks>>
  BY DEF CleanSocket
<1> DEFINE r == To(c, "clean-pid")
<1>2. /\ r \in Word /\ r.at = "clean-pid" /\ r.ask = cmd[c].ask /\ r.pid = cmd[c].pid
      /\ r.child = cmd[c].child /\ r.then = cmd[c].then
  BY <1>0, ToWord DEF Points
<1> HIDE DEF r
<1>3. cmd' \in [Command -> Word] /\ cmd'[c] = r
  BY <1>0, <1>1, <1>2, GoesEffect DEF r
<1>4. ShapeInv(c)'
  BY <1>0, <1>1, <1>2, <1>3 DEF ShapeInv, Asks, Before, Signals, Cleans
<1>5. ASSUME Orderly PROVE OrderlyCommand(c)' /\ FilesStay(c)
  <2>1. /\ OrderlyCommand(c) /\ ~Recorded(Server)
        /\ cmd[c].child # None => proc[cmd[c].child] = "zombie"
    BY <1>1, <1>5 DEF Orderly, OrderlyCommand, Cleans
  <2>2. \A p \in Pid : /\ proc[p] \notin {"listen", "chmod"}
                       /\ proc[p] = "serving" => ~Owner(p)
    BY <1>1, <1>5, <2>1, Alone, NoPid DEF Recorded, Server, Booting
  <2> QED
    BY <1>1, <1>2, <1>3, <2>1, <2>2 DEF OrderlyCommand, FilesStay, Asks, Before, Signals, Cleans, Recorded
<1>6. ASSUME Orderly, OneServer, NEW p \in Pid, proc[p] \in Server PROVE FALSE
  BY <1>1, <1>6 DEF OneServer, Meets, Cleans
<1> QED
  BY <1>0, <1>1, <1>2, <1>4, <1>5, <1>6, CommandMove DEF TypeInv, r

LEMMA CleanPidSafe ==
  ASSUME IInv, NEW c \in Command, CleanPid(c)
  PROVE  IInv'
<1>0. TypeInv /\ ShapeInv(c) /\ FamilyInv
  BY DEF IInv
<1>1. /\ cmd[c].at = "clean-pid" /\ pidFile' = None /\ Goes(c, To(c, "clean-lock"))
      /\ UNCHANGED <<proc, sock, lock, seen, marks>>
  BY DEF CleanPid
<1> DEFINE r == To(c, "clean-lock")
<1>2. /\ r \in Word /\ r.at = "clean-lock" /\ r.ask = cmd[c].ask /\ r.pid = cmd[c].pid
      /\ r.child = cmd[c].child /\ r.then = cmd[c].then
  BY <1>0, ToWord DEF Points
<1> HIDE DEF r
<1>3. cmd' \in [Command -> Word] /\ cmd'[c] = r
  BY <1>0, <1>1, <1>2, GoesEffect DEF r
<1>4. ShapeInv(c)'
  BY <1>0, <1>1, <1>2, <1>3 DEF ShapeInv, Asks, Before, Signals, Cleans
<1>5. ASSUME Orderly PROVE OrderlyCommand(c)' /\ FilesStay(c)
  <2>1. OrderlyCommand(c)
    BY <1>5 DEF Orderly
  <2> QED
    BY <1>1, <1>2, <1>3, <2>1 DEF OrderlyCommand, FilesStay, Asks, Before, Signals, Cleans, Recorded
<1>6. ASSUME Orderly, OneServer, NEW p \in Pid, proc[p] \in Server PROVE FALSE
  BY <1>1, <1>6 DEF OneServer, Meets, Cleans
<1> QED
  BY <1>0, <1>1, <1>2, <1>4, <1>5, <1>6, CommandMove DEF TypeInv, r

LEMMA CleanLockSafe ==
  ASSUME IInv, NEW c \in Command, CleanLock(c)
  PROVE  IInv'
<1>0. TypeInv /\ ShapeInv(c) /\ FamilyInv
  BY DEF IInv
<1>1. /\ cmd[c].at = "clean-lock" /\ lock' = None
      /\ Goes(c, [To(c, cmd[c].then) EXCEPT !.then = None])
      /\ UNCHANGED <<proc, sock, pidFile, seen, marks>>
  BY DEF CleanLock, LockRemoved
<1>2. cmd[c].then \in {"end", "recorded"} /\ cmd[c].then \in Points
  BY <1>0, <1>1 DEF ShapeInv, Cleans, Points
<1> DEFINE t == To(c, cmd[c].then)
           r == [t EXCEPT !.then = None]
<1>3. /\ t \in Word /\ t.at = cmd[c].then /\ t.child = cmd[c].child /\ t.ask = cmd[c].ask
  BY <1>0, <1>2, ToWord
<1> HIDE DEF t
<1>4. r \in Word /\ r.at = cmd[c].then /\ r.child = cmd[c].child /\ r.ask = cmd[c].ask
  BY <1>3 DEF Word
<1>5. Goes(c, r)
  BY <1>1 DEF t
<1> HIDE DEF r
<1>6. cmd' \in [Command -> Word] /\ cmd'[c] = r
  BY <1>0, <1>4, <1>5, GoesEffect
<1>7. ShapeInv(c)'
  BY <1>0, <1>1, <1>2, <1>4, <1>6 DEF ShapeInv, Asks, Before, Signals, Cleans
<1>8. ASSUME Orderly PROVE OrderlyCommand(c)' /\ FilesStay(c)
  <2>1. OrderlyCommand(c)
    BY <1>8 DEF Orderly
  <2> QED
    BY <1>1, <1>2, <1>4, <1>6, <2>1
       DEF OrderlyCommand, FilesStay, Asks, Before, Signals, Cleans, Recorded
<1>9. ASSUME Orderly, OneServer, NEW p \in Pid, proc[p] \in Server PROVE FALSE
  BY <1>1, <1>9 DEF OneServer, Meets, Cleans
<1>10. cmd[c].at # "idle" /\ r.at \notin {"idle", "term", "insist"}
  BY <1>1, <1>2, <1>4
<1> QED
  BY <1>0, <1>1, <1>4, <1>5, <1>7, <1>8, <1>9, <1>10, CommandMove DEF TypeInv

\* A command ends without having changed anything.
LEMMA EndingMove ==
  ASSUME IInv, NEW c \in Command, NEW v \in Verdict, Goes(c, Ending(c, v)),
         cmd[c].at \notin {"idle", "lock", "record", "write", "kill"},
         UNCHANGED <<proc, sock, pidFile, lock, seen, marks>>
  PROVE  IInv'
<1>0. TypeInv
  BY DEF IInv
<1> DEFINE r == Ending(c, v)
<1>1. r \in Word /\ r.at = "end" /\ r.child = cmd[c].child
  BY <1>0, EndingWord
<1>2. Goes(c, r)
  OBVIOUS
<1> HIDE DEF r
<1>3. cmd' \in [Command -> Word] /\ cmd'[c] = r
  BY <1>0, <1>1, <1>2, GoesEffect
<1>4. ShapeInv(c)'
  BY <1>1, <1>3 DEF ShapeInv, Asks, Before, Signals, Cleans
<1>5. ASSUME Orderly PROVE OrderlyCommand(c)' /\ FilesStay(c)
  <2>1. OrderlyCommand(c)
    BY <1>5 DEF Orderly
  <2> QED
    BY <1>1, <1>3, <2>1 DEF OrderlyCommand, FilesStay, Asks, Before, Signals, Cleans, Recorded
<1>6. ASSUME Orderly, OneServer, NEW p \in Pid, proc[p] \in Server
      PROVE  Meets(c, p)' /\ pidFile' \in {None, p} /\ sock' = sock
  BY <1>1, <1>3, <1>6 DEF OneServer, Meets, Before, Signals, Cleans
<1>7. ASSUME NEW p \in Pid PROVE ~Names(c, p)
  BY DEF Names
<1> QED
  BY <1>0, <1>1, <1>2, <1>4, <1>5, <1>6, <1>7, CommandMove DEF TypeInv

\* A command goes on without touching a file, and no server is there to miss.
LEMMA PlainMove ==
  ASSUME IInv, NEW c \in Command, NEW r \in Word, Goes(c, r), r.child = cmd[c].child,
         cmd[c].at # "idle", r.at \notin {"idle", "term", "insist"},
         UNCHANGED <<proc, sock, pidFile, lock, seen, marks>>,
         ShapeInv(c)', Orderly => OrderlyCommand(c)',
         Orderly /\ OneServer => \A p \in Pid : proc[p] \notin Server
  PROVE  IInv'
BY CommandMove DEF IInv, TypeInv, FilesStay

LEMMA StartStaleSafe ==
  ASSUME IInv, NEW c \in Command, StartStale(c)
  PROVE  IInv'
<1>0. TypeInv /\ ShapeInv(c) /\ FamilyInv
  BY DEF IInv
<1>1. cmd[c].at = "stale" /\ UNCHANGED <<proc, sock, pidFile, lock, seen, marks>>
  BY DEF StartStale, files
<1>2. cmd[c].child = None /\ cmd[c].ask # "ready"
  BY <1>0, <1>1 DEF ShapeInv, Before
<1>3. ASSUME Orderly, OneServer PROVE \A p \in Pid : proc[p] \notin Server
  BY <1>1, <1>3 DEF OneServer, Meets, Before
<1>4. ASSUME Orderly PROVE OrderlyCommand(c) /\ ~Recorded(Server)
  BY <1>1, <1>4 DEF Orderly, OrderlyCommand
<1>5. CASE Goes(c, Cleaning(c, "recorded", None))
  <2> DEFINE r == Cleaning(c, "recorded", None)
  <2>1. /\ r \in Word /\ r.at = "clean-socket" /\ r.child = cmd[c].child
        /\ r.ask = cmd[c].ask /\ r.then = "recorded"
    BY <1>0, CleaningWord DEF Verdict
  <2>2. Goes(c, r)
    BY <1>5
  <2> HIDE DEF r
  <2>3. cmd' \in [Command -> Word] /\ cmd'[c] = r
    BY <1>0, <2>1, <2>2, GoesEffect
  <2>4. ShapeInv(c)'
    BY <1>2, <2>1, <2>3 DEF ShapeInv, Asks, Before, Signals, Cleans
  <2>5. ASSUME Orderly PROVE OrderlyCommand(c)'
    BY <1>1, <1>2, <1>4, <2>1, <2>3, <2>5 DEF OrderlyCommand, Asks, Before, Signals, Cleans, Recorded
  <2> QED
    BY <1>1, <1>3, <2>1, <2>2, <2>4, <2>5, PlainMove
<1>6. CASE Goes(c, To(c, "recorded")) /\ (IF pidFile # None THEN Alive(pidFile) ELSE lock = None)
  <2> DEFINE r == To(c, "recorded")
  <2>1. /\ r \in Word /\ r.at = "recorded" /\ r.child = cmd[c].child /\ r.ask = cmd[c].ask
    BY <1>0, ToWord DEF Points
  <2>2. Goes(c, r)
    BY <1>6
  <2> HIDE DEF r
  <2>3. cmd' \in [Command -> Word] /\ cmd'[c] = r
    BY <1>0, <2>1, <2>2, GoesEffect
  <2>4. ShapeInv(c)'
    BY <1>2, <2>1, <2>3 DEF ShapeInv, Asks, Before, Signals, Cleans
  <2>5. ASSUME Orderly PROVE OrderlyCommand(c)'
    <3>1. pidFile # None => proc[pidFile] # "zombie"
      BY <1>0, <1>1, <1>2, <2>5, Alone, NoPid DEF TypeInv
    <3>2. pidFile # None => proc[pidFile] \in Others
      BY <1>0, <1>4, <1>6, <2>5, <3>1 DEF TypeInv, Recorded, Alive, Process
    <3>3. (pidFile = None /\ lock = None) \/ Recorded(Others)
      BY <1>6, <3>2 DEF Recorded
    <3> QED
      BY <1>1, <1>2, <2>1, <2>3, <3>3 DEF OrderlyCommand, Asks, Before, Signals, Cleans, Recorded
  <2> QED
    BY <1>1, <1>3, <2>1, <2>2, <2>4, <2>5, PlainMove
<1> QED
  BY <1>5, <1>6 DEF StartStale

LEMMA StartRecordedSafe ==
  ASSUME IInv, NEW c \in Command, StartRecorded(c)
  PROVE  IInv'
<1>0. TypeInv /\ ShapeInv(c) /\ FamilyInv
  BY DEF IInv
<1>1. cmd[c].at = "recorded" /\ UNCHANGED <<proc, sock, pidFile, lock, seen, marks>>
  BY DEF StartRecorded, files
<1>2. cmd[c].child = None /\ cmd[c].ask # "ready"
  BY <1>0, <1>1 DEF ShapeInv, Before
<1>3. ASSUME Orderly, OneServer PROVE \A p \in Pid : proc[p] \notin Server
  BY <1>1, <1>3 DEF OneServer, Meets, Before
<1>4. CASE Goes(c, Ending(c, "running"))
  BY <1>1, <1>4, EndingMove DEF Verdict
<1>5. CASE Goes(c, To(c, "probe")) /\ ~(pidFile # None /\ Alive(pidFile))
  <2> DEFINE r == To(c, "probe")
  <2>1. /\ r \in Word /\ r.at = "probe" /\ r.child = cmd[c].child /\ r.ask = cmd[c].ask
    BY <1>0, ToWord DEF Points
  <2>2. Goes(c, r)
    BY <1>5
  <2> HIDE DEF r
  <2>3. cmd' \in [Command -> Word] /\ cmd'[c] = r
    BY <1>0, <2>1, <2>2, GoesEffect
  <2>4. ShapeInv(c)'
    BY <1>2, <2>1, <2>3 DEF ShapeInv, Asks, Before, Signals, Cleans
  <2>5. ASSUME Orderly PROVE OrderlyCommand(c)'
    <3>1. pidFile = None /\ lock = None
      BY <1>1, <1>5, <2>5 DEF Orderly, OrderlyCommand, Recorded, Alive, Others
    <3> QED
      BY <1>1, <1>2, <2>1, <2>3, <3>1 DEF OrderlyCommand, Asks, Before, Signals, Cleans
  <2> QED
    BY <1>1, <1>3, <2>1, <2>2, <2>4, <2>5, PlainMove
<1> QED
  BY <1>4, <1>5 DEF StartRecorded

LEMMA StartProbeSafe ==
  ASSUME IInv, NEW c \in Command, StartProbe(c)
  PROVE  IInv'
<1>0. TypeInv /\ ShapeInv(c) /\ FamilyInv
  BY DEF IInv
<1>1. cmd[c].at = "probe" /\ UNCHANGED <<proc, sock, pidFile, lock, seen, marks>>
  BY DEF StartProbe, files
<1>2. cmd[c].child = None /\ cmd[c].ask # "ready"
  BY <1>0, <1>1 DEF ShapeInv, Before
<1>3. ASSUME Orderly, OneServer PROVE \A p \in Pid : proc[p] \notin Server
  BY <1>1, <1>3 DEF OneServer, Meets, Before
<1>4. CASE Goes(c, Ending(c, Probed)) /\ Probed \in {"unsafe", "in-use"}
  BY <1>1, <1>4, EndingMove DEF Verdict
<1>5. CASE /\ \/ Goes(c, To(c, "fork")) /\ sock = None
              \/ Goes(c, To(c, "unlink"))
  <2>1. PICK pt \in {"fork", "unlink"} : Goes(c, To(c, pt)) /\ (pt = "fork" => sock = None)
    BY <1>5
  <2> DEFINE r == To(c, pt)
  <2>2. /\ r \in Word /\ r.at = pt /\ r.child = cmd[c].child /\ r.ask = cmd[c].ask
    BY <1>0, ToWord DEF Points
  <2>3. Goes(c, r)
    BY <2>1
  <2> HIDE DEF r
  <2>4. cmd' \in [Command -> Word] /\ cmd'[c] = r
    BY <1>0, <2>2, <2>3, GoesEffect
  <2>5. ShapeInv(c)'
    BY <1>2, <2>2, <2>4 DEF ShapeInv, Asks, Before, Signals, Cleans
  <2>6. ASSUME Orderly PROVE OrderlyCommand(c)'
    <3>1. pidFile = None /\ lock = None
      BY <1>1, <2>6 DEF Orderly, OrderlyCommand
    <3> QED
      BY <1>1, <1>2, <2>1, <2>2, <2>4, <3>1 DEF OrderlyCommand, Asks, Before, Signals, Cleans
  <2> QED
    BY <1>1, <1>3, <2>2, <2>3, <2>5, <2>6, PlainMove
<1>6. \/ Probed = "clear" /\ sock = None
      \/ Probed \in {"stale", "unsafe", "in-use"}
  BY DEF Probed
<1> QED
  BY <1>4, <1>5, <1>6 DEF StartProbe

LEMMA StartUnlinkSafe ==
  ASSUME IInv, NEW c \in Command, StartUnlink(c)
  PROVE  IInv'
<1>0. TypeInv /\ ShapeInv(c) /\ FamilyInv
  BY DEF IInv
<1>1. /\ cmd[c].at = "unlink" /\ sock' = None /\ UNCHANGED <<proc, pidFile, lock, seen, marks>>
  BY DEF StartUnlink
<1>2. cmd[c].child = None /\ cmd[c].ask # "ready"
  BY <1>0, <1>1 DEF ShapeInv, Before
<1>3. ASSUME Orderly, OneServer PROVE \A p \in Pid : proc[p] \notin Server
  BY <1>1, <1>3 DEF OneServer, Meets, Before
<1>4. CASE Goes(c, Ending(c, "failed")) /\ sock = None
  BY <1>1, <1>4, EndingMove DEF Verdict
<1>5. CASE Goes(c, To(c, "fork"))
  <2> DEFINE r == To(c, "fork")
  <2>1. /\ r \in Word /\ r.at = "fork" /\ r.child = cmd[c].child /\ r.ask = cmd[c].ask
    BY <1>0, ToWord DEF Points
  <2>2. Goes(c, r)
    BY <1>5
  <2> HIDE DEF r
  <2>3. cmd' \in [Command -> Word] /\ cmd'[c] = r
    BY <1>0, <2>1, <2>2, GoesEffect
  <2>4. ShapeInv(c)'
    BY <1>2, <2>1, <2>3 DEF ShapeInv, Asks, Before, Signals, Cleans
  <2>5. ASSUME Orderly PROVE OrderlyCommand(c)' /\ FilesStay(c)
    <3>1. pidFile = None /\ lock = None
      BY <1>1, <2>5 DEF Orderly, OrderlyCommand
    <3>2. \A p \in Pid : /\ proc[p] \notin {"listen", "chmod"}
                         /\ proc[p] = "serving" => ~Owner(p)
      BY <1>1, <1>2, <2>5, <3>1, Alone, NoPid DEF Booting
    <3> QED
      BY <1>1, <1>2, <2>1, <2>3, <3>1, <3>2
         DEF OrderlyCommand, FilesStay, Asks, Before, Signals, Cleans
  <2> QED
    BY <1>0, <1>1, <1>3, <2>1, <2>2, <2>4, <2>5, CommandMove DEF TypeInv
<1> QED
  BY <1>4, <1>5 DEF StartUnlink

LEMMA StartForkFailsSafe ==
  ASSUME IInv, NEW c \in Command, StartForkFails(c)
  PROVE  IInv'
BY EndingMove DEF StartForkFails, files, Verdict

LEMMA StartLockSafe ==
  ASSUME IInv, NEW c \in Command, StartLock(c)
  PROVE  IInv'
<1>0. TypeInv /\ ShapeInv(c) /\ FamilyInv /\ cmd[c] \in Word
  BY DEF IInv, TypeInv
<1>1. /\ cmd[c].at = "lock" /\ lock' \in {lock, cmd[c].child}
      /\ UNCHANGED <<proc, sock, pidFile, seen, marks>>
  BY DEF StartLock
<1>2. /\ cmd[c].child # None /\ cmd[c].pid # None /\ cmd[c].ask # "ready"
      /\ lock' \in Pid \cup {None}
  BY <1>0, <1>1 DEF ShapeInv, TypeInv, Word
<1>3. PICK r \in Word : /\ Goes(c, r) /\ r.child = cmd[c].child /\ r.pid = cmd[c].pid
                        /\ r.ask = cmd[c].ask
                        /\ r.at = IF lock = None THEN "record" ELSE "kill"
  <2>1. "record" \in Points /\ "kill" \in Points /\ "locked" \in Verdict
    BY DEF Points, Verdict
  <2>2. CASE lock = None
    <3>1. Goes(c, To(c, "record"))
      BY <2>2 DEF StartLock
    <3> QED
      BY <1>0, <2>1, <2>2, <3>1, ToWord
  <2>3. CASE lock # None
    <3> DEFINE k == To(c, "kill")
    <3>1. Goes(c, [k EXCEPT !.verdict = "locked"])
      BY <2>3 DEF StartLock
    <3>2. k \in Word /\ k.at = "kill" /\ k.child = cmd[c].child /\ k.pid = cmd[c].pid
          /\ k.ask = cmd[c].ask
      BY <1>0, <2>1, ToWord
    <3> HIDE DEF k
    <3>3. [k EXCEPT !.verdict = "locked"] \in Word
      BY <3>2 DEF Word
    <3> QED
      BY <2>3, <3>1, <3>2, <3>3 DEF Word
  <2> QED
    BY <2>2, <2>3
<1>4. cmd' \in [Command -> Word] /\ cmd'[c] = r
  BY <1>0, <1>3, GoesEffect
<1>5. ShapeInv(c)'
  BY <1>2, <1>3, <1>4 DEF ShapeInv, Asks, Before, Signals, Cleans
<1>6. ASSUME Orderly PROVE OrderlyCommand(c)' /\ FilesStay(c)
  <2>1. OrderlyCommand(c)
    BY <1>6 DEF Orderly
  <2> QED
    BY <1>1, <1>3, <1>4, <2>1 DEF OrderlyCommand, FilesStay, Asks, Before, Signals, Cleans, Recorded
<1>7. ASSUME Orderly, OneServer, NEW p \in Pid, proc[p] \in Server
      PROVE  Meets(c, p)' /\ pidFile' \in {None, p} /\ sock' = sock
  BY <1>1, <1>3, <1>4, <1>7 DEF OneServer, Meets, Before, Signals, Cleans
<1>8. ASSUME NEW p \in Pid PROVE Names(c, p) => Names(c, p)'
  BY <1>3, <1>4 DEF Names
<1>9. cmd[c].at # "idle" /\ r.at \notin {"idle", "term", "insist"}
  BY <1>1, <1>3
<1> QED
  BY <1>0, <1>1, <1>2, <1>3, <1>5, <1>6, <1>7, <1>8, <1>9, CommandMove DEF TypeInv

LEMMA StartRecordSafe ==
  ASSUME IInv, NEW c \in Command, StartRecord(c)
  PROVE  IInv'
<1>0. TypeInv /\ ShapeInv(c) /\ FamilyInv /\ cmd[c] \in Word
  BY DEF IInv, TypeInv
<1>1. /\ cmd[c].at = "record" /\ pidFile' = None /\ UNCHANGED <<proc, sock, lock, seen, marks>>
      /\ Goes(c, To(c, "write"))
  BY DEF StartRecord
<1>2. cmd[c].child # None /\ cmd[c].pid # None
  BY <1>0, <1>1 DEF ShapeInv
<1> DEFINE r == To(c, "write")
<1>3. /\ r \in Word /\ r.at = "write" /\ r.child = cmd[c].child /\ r.pid = cmd[c].pid
      /\ r.ask = cmd[c].ask
  BY <1>0, ToWord DEF Points
<1>4. Goes(c, r)
  BY <1>1
<1> HIDE DEF r
<1>5. cmd' \in [Command -> Word] /\ cmd'[c] = r
  BY <1>0, <1>3, <1>4, GoesEffect
<1>6. ShapeInv(c)'
  BY <1>2, <1>3, <1>5 DEF ShapeInv, Asks, Before, Signals, Cleans
<1>7. ASSUME Orderly PROVE OrderlyCommand(c)' /\ FilesStay(c)
  <2>1. OrderlyCommand(c)
    BY <1>7 DEF Orderly
  <2> QED
    BY <1>1, <1>3, <1>5, <2>1 DEF OrderlyCommand, FilesStay, Asks, Before, Signals, Cleans, Recorded
<1>8. ASSUME Orderly, OneServer, NEW p \in Pid, proc[p] \in Server
      PROVE  Meets(c, p)' /\ pidFile' \in {None, p} /\ sock' = sock
  BY <1>1, <1>3, <1>5, <1>8 DEF OneServer, Meets, Before, Signals, Cleans
<1>9. ASSUME Orderly, OneServer, NEW p \in Pid, proc[p] \in Server
      PROVE  Names(c, p)'
  BY <1>1, <1>2, <1>3, <1>5, <1>9 DEF OneServer, Meets, Names
<1> QED
  BY <1>0, <1>1, <1>3, <1>4, <1>6, <1>7, <1>8, <1>9, CommandMove DEF TypeInv

LEMMA StartWriteSafe ==
  ASSUME IInv, NEW c \in Command, StartWrite(c)
  PROVE  IInv'
<1>0. TypeInv /\ ShapeInv(c) /\ FamilyInv /\ cmd[c] \in Word
  BY DEF IInv, TypeInv
<1>1. /\ cmd[c].at = "write" /\ pidFile' = cmd[c].pid /\ UNCHANGED <<proc, sock, lock, seen, marks>>
  BY DEF StartWrite
<1>2. cmd[c].child # None /\ cmd[c].pid # None /\ cmd[c].pid \in Pid \cup {None}
  BY <1>0, <1>1 DEF ShapeInv, Word
<1>3. PICK r \in Word : /\ Goes(c, r) /\ r.child = cmd[c].child
                        /\ IF cmd[c].ask = "ready" THEN r.at = "end"
                           ELSE r.at = "hello" /\ r.ask = "ready"
  <2>1. "started" \in Verdict /\ "hello" \in Points
    BY DEF Points, Verdict
  <2>2. CASE cmd[c].ask = "ready"
    <3>1. Goes(c, Ending(c, "started"))
      BY <2>2 DEF StartWrite
    <3> QED
      BY <1>0, <2>1, <2>2, <3>1, EndingWord
  <2>3. CASE cmd[c].ask # "ready"
    <3> DEFINE h == To(c, "hello")
    <3>1. Goes(c, [h EXCEPT !.ask = "ready"])
      BY <2>3 DEF StartWrite
    <3>2. h \in Word /\ h.at = "hello" /\ h.child = cmd[c].child
      BY <1>0, <2>1, ToWord
    <3> HIDE DEF h
    <3>3. [h EXCEPT !.ask = "ready"] \in Word
      BY <3>2 DEF Word
    <3> QED
      BY <2>3, <3>1, <3>2, <3>3 DEF Word
  <2> QED
    BY <2>2, <2>3
<1>4. cmd' \in [Command -> Word] /\ cmd'[c] = r
  BY <1>0, <1>3, GoesEffect
<1>5. ShapeInv(c)'
  BY <1>2, <1>3, <1>4 DEF ShapeInv, Asks, Before, Signals, Cleans
<1>6. ASSUME Orderly
      PROVE  /\ cmd[c].pid = cmd[c].child /\ cmd[c].ask # "ready"
             /\ OrderlyCommand(c)' /\ FilesStay(c)
  <2>1. OrderlyCommand(c)
    BY <1>6 DEF Orderly
  <2> QED
    BY <1>1, <1>3, <1>4, <2>1 DEF OrderlyCommand, FilesStay, Asks, Before, Signals, Cleans, Recorded
<1>7. ASSUME Orderly, OneServer, NEW p \in Pid, proc[p] \in Server
      PROVE  Meets(c, p)' /\ pidFile' = p /\ sock' = sock
  <2>1. Meets(c, p) /\ cmd[c].child = p
    BY <1>2, <1>7 DEF OneServer, Meets
  <2> QED
    BY <1>1, <1>3, <1>4, <1>6, <1>7, <2>1 DEF Meets, Before, Signals, Cleans
<1>8. cmd[c].at # "idle" /\ r.at \notin {"idle", "term", "insist"}
  BY <1>1, <1>3
<1> QED
  BY <1>0, <1>1, <1>2, <1>3, <1>5, <1>6, <1>7, <1>8, CommandMove DEF TypeInv

LEMMA StartRecordFailsSafe ==
  ASSUME IInv, NEW c \in Command, StartRecordFails(c)
  PROVE  IInv'
<1>0. TypeInv /\ ShapeInv(c) /\ FamilyInv /\ cmd[c] \in Word
  BY DEF IInv, TypeInv
<1>1. cmd[c].at \in {"record", "write"} /\ UNCHANGED <<proc, sock, pidFile, lock, seen, marks>>
  BY DEF StartRecordFails, files
<1>2. cmd[c].child # None
  BY <1>0, <1>1 DEF ShapeInv
<1>3. PICK r \in Word : /\ Goes(c, r) /\ r.child = cmd[c].child
                        /\ r.at = IF cmd[c].ask = "ready" THEN "end" ELSE "kill"
  <2>1. "started" \in Verdict /\ "kill" \in Points
    BY DEF Points, Verdict
  <2>2. CASE cmd[c].ask = "ready"
    <3>1. Goes(c, Ending(c, "started"))
      BY <2>2 DEF StartRecordFails
    <3> QED
      BY <1>0, <2>1, <2>2, <3>1, EndingWord
  <2>3. CASE cmd[c].ask # "ready"
    <3> DEFINE k == To(c, "kill")
    <3>1. Goes(c, [k EXCEPT !.verdict = "failed"])
      BY <2>3 DEF StartRecordFails
    <3>2. k \in Word /\ k.at = "kill" /\ k.child = cmd[c].child
      BY <1>0, <2>1, ToWord
    <3> HIDE DEF k
    <3>3. [k EXCEPT !.verdict = "failed"] \in Word
      BY <3>2 DEF Word
    <3> QED
      BY <2>3, <3>1, <3>2, <3>3 DEF Word
  <2> QED
    BY <2>2, <2>3
<1>4. cmd' \in [Command -> Word] /\ cmd'[c] = r
  BY <1>0, <1>3, GoesEffect
<1>5. ShapeInv(c)'
  BY <1>2, <1>3, <1>4 DEF ShapeInv, Asks, Before, Signals, Cleans
<1>6. ASSUME Orderly PROVE cmd[c].ask # "ready" /\ OrderlyCommand(c)' /\ FilesStay(c)
  <2>1. OrderlyCommand(c)
    BY <1>6 DEF Orderly
  <2> QED
    BY <1>1, <1>3, <1>4, <2>1 DEF OrderlyCommand, FilesStay, Asks, Before, Signals, Cleans, Recorded
<1>7. ASSUME Orderly, OneServer, NEW p \in Pid, proc[p] \in Server
      PROVE  Meets(c, p)' /\ pidFile' \in {None, p} /\ sock' = sock
  BY <1>1, <1>3, <1>4, <1>7 DEF OneServer, Meets, Before, Signals, Cleans
<1>8. ASSUME Orderly, NEW p \in Pid PROVE Names(c, p) => Names(c, p)'
  BY <1>3, <1>4, <1>6, <1>8 DEF Names
<1>9. cmd[c].at # "idle" /\ r.at \notin {"idle", "term", "insist"}
  BY <1>1, <1>3
<1> QED
  BY <1>0, <1>1, <1>3, <1>5, <1>6, <1>7, <1>8, <1>9, CommandMove DEF TypeInv

LEMMA StopReadSafe ==
  ASSUME IInv, NEW c \in Command, StopRead(c)
  PROVE  IInv'
<1>0. TypeInv /\ ShapeInv(c) /\ FamilyInv /\ cmd[c] \in Word
  BY DEF IInv, TypeInv
<1>1. cmd[c].at = "read" /\ UNCHANGED <<proc, sock, pidFile, lock, seen, marks>>
  BY DEF StopRead, files
<1>2. cmd[c].child = None /\ pidFile \in Pid \cup {None}
  BY <1>0, <1>1 DEF ShapeInv, TypeInv
<1>3. PICK r \in Word :
         /\ Goes(c, r) /\ r.child = cmd[c].child
         /\ \/ r.at = "hello" /\ r.ask = "missing" /\ pidFile = None
            \/ r.at = "clean-socket" /\ r.then = "end" /\ pidFile # None /\ ~Alive(pidFile)
            \/ r.at = "hello" /\ r.ask = "verify" /\ r.pid = pidFile
  <2>1. "stopped" \in Verdict /\ "hello" \in Points
    BY DEF Points, Verdict
  <2> DEFINE h == To(c, "hello")
  <2>2. h \in Word /\ h.at = "hello" /\ h.child = cmd[c].child
    BY <1>0, <2>1, ToWord
  <2>3. CASE pidFile = None
    <3>1. Goes(c, [h EXCEPT !.ask = "missing"])
      BY <2>3 DEF StopRead
    <3> HIDE DEF h
    <3>2. [h EXCEPT !.ask = "missing"] \in Word
      BY <2>2 DEF Word
    <3> QED
      BY <2>2, <2>3, <3>1, <3>2 DEF Word
  <2>4. CASE pidFile # None /\ ~Alive(pidFile)
    <3>1. Goes(c, Cleaning(c, "end", "stopped"))
      BY <2>4 DEF StopRead
    <3> QED
      BY <1>0, <2>1, <2>4, <3>1, CleaningWord
  <2>5. CASE pidFile # None /\ Alive(pidFile)
    <3>1. Goes(c, [h EXCEPT !.ask = "verify", !.pid = pidFile])
      BY <2>5 DEF StopRead
    <3> HIDE DEF h
    <3>2. [h EXCEPT !.ask = "verify", !.pid = pidFile] \in Word
      BY <1>2, <2>2 DEF Word
    <3> QED
      BY <2>2, <2>5, <3>1, <3>2 DEF Word
  <2> QED
    BY <2>3, <2>4, <2>5
<1>4. cmd' \in [Command -> Word] /\ cmd'[c] = r
  BY <1>0, <1>3, GoesEffect
<1>5. ShapeInv(c)'
  BY <1>2, <1>3, <1>4 DEF ShapeInv, Asks, Before, Signals, Cleans
<1>6. ASSUME Orderly PROVE OrderlyCommand(c)' /\ FilesStay(c)
  <2>1. pidFile # None /\ ~Alive(pidFile) => ~Recorded(Server)
    BY DEF Recorded, Alive, Server, Booting
  <2> QED
    BY <1>1, <1>2, <1>3, <1>4, <2>1
       DEF OrderlyCommand, FilesStay, Asks, Before, Signals, Cleans, Recorded
<1>7. ASSUME Orderly, OneServer, NEW p \in Pid, proc[p] \in Server
      PROVE  Meets(c, p)' /\ pidFile' \in {None, p} /\ sock' = sock
  <2>1. pidFile \in {None, p} /\ Alive(p)
    BY <1>7 DEF OneServer, Alive, Server, Booting
  <2> QED
    BY <1>1, <1>2, <1>3, <1>4, <2>1 DEF Meets, Before, Signals, Cleans
<1>8. ASSUME NEW p \in Pid PROVE ~Names(c, p)
  BY <1>1 DEF Names
<1>9. cmd[c].at # "idle" /\ r.at \notin {"idle", "term", "insist"}
  BY <1>1, <1>3
<1> QED
  BY <1>0, <1>1, <1>3, <1>5, <1>6, <1>7, <1>8, <1>9, CommandMove DEF TypeInv

-----------------------------------------------------------------------------
\* The steps of a server.

\* Who dies is a zombie exactly if a command is its parent.
LEMMA DeadPid ==
  ASSUME IInv, NEW p \in Pid
  PROVE  /\ Dead(p) \in {"free", "zombie"}
         /\ Dead(p) = "zombie" <=> \E c \in Command : cmd[c].child = p
BY NoChild, NoPid DEF IInv, Dead, Active

\* What a step does to the marks.
LEMMA MarksStay ==
  ASSUME IInv, UNCHANGED <<seen, marks>>
  PROVE  marks \subseteq marks' /\ MarksInv'
BY DEF IInv, MarksInv

LEMMA MarkEffect ==
  ASSUME IInv, UNCHANGED seen, NEW kinds \in SUBSET {"half-made", "pid"}, Mark(kinds)
  PROVE  /\ marks \subseteq marks' /\ MarksInv'
         /\ "overlap" \in seen' \/ kinds \subseteq marks'
         /\ kinds = {} => UNCHANGED marks
BY DEF IInv, MarksInv, Mark

LEMMA MarkEndEffect ==
  ASSUME IInv, UNCHANGED seen, NEW p, MarkEnd(p)
  PROVE  /\ marks \subseteq marks' /\ MarksInv'
         /\ HalfMade(p) /\ proc'[p] # proc[p] => "overlap" \in seen' \/ "half-made" \in marks'
         /\ proc'[p] = proc[p] => UNCHANGED marks
<1>1. CASE HalfMade(p) /\ proc'[p] # proc[p]
  <2>1. Mark({"half-made"})
    BY <1>1 DEF MarkEnd
  <2> QED
    BY <1>1, <2>1, MarkEffect
<1>2. CASE ~(HalfMade(p) /\ proc'[p] # proc[p])
  <2>1. Mark({})
    BY <1>2 DEF MarkEnd
  <2> QED
    BY <1>2, <2>1, MarkEffect
<1> QED
  BY <1>1, <1>2

LEMMA ServerMove ==
  ASSUME IInv, NEW p \in Pid, proc[p] \in Server, NEW to \in Server \cup {Dead(p)},
         ServerMoves(p, to), UNCHANGED <<pidFile, lock, cmd, seen>>,
         marks \subseteq marks', MarksInv',
         sock' \in {None} \cup Socket,
         to \in Server => proc[p] \in Booting,
         Orderly => /\ to \in {"listen", "chmod"} => sock' # None /\ sock'.by = p
                    /\ to = "serving" => sock' = [by |-> p, open |-> TRUE]
                    /\ to = "unlink" => ~Recorded({"serving"})
                    /\ \/ sock' = sock
                       \/ /\ proc[p] \in Booting /\ (sock' # None => sock'.by = p)
                          /\ \A q \in Pid \ {p} : proc[q] = "serving" => ~Owner(q)
  PROVE  IInv'
<1>0. TypeInv /\ MarksInv /\ (\A d \in Command : ShapeInv(d)) /\ FamilyInv
  BY DEF IInv
<1>1. /\ proc' \in [Pid -> Process] /\ proc'[p] = to
      /\ \A q \in Pid \ {p} : proc'[q] = proc[q]
  BY <1>0, DeadPid DEF TypeInv, ServerMoves, Process
<1>2. TypeInv'
  BY <1>0, <1>1 DEF TypeInv
<1>3. \A d \in Command : ShapeInv(d)'
  BY <1>0 DEF ShapeInv, Before, Signals, Cleans, Asks
<1>4. /\ Dead(p) \notin Server
      /\ \A q \in Pid : proc'[q] \in Server => proc[q] \in Server
      /\ \A q \in Pid : proc'[q] \in Booting => proc[q] \in Booting
  BY <1>1, DeadPid DEF Server, Booting
<1>5. FamilyInv'
  <2>1. \A q \in Pid : proc'[q] = "zombie" => \E c \in Command : cmd[c].child = q
    BY <1>0, <1>1, DeadPid DEF FamilyInv, Server, Booting
  <2>2. ASSUME NEW c \in Command, cmd[c].child # None
        PROVE  proc'[cmd[c].child] \in Server \cup {"zombie"}
    <3>1. cmd[c].child \in Pid /\ proc[cmd[c].child] \in Server \cup {"zombie"}
      BY <1>0, <2>2 DEF FamilyInv, TypeInv, Word
    <3>2. cmd[c].child = p => to \in Server \cup {"zombie"}
      BY DeadPid
    <3> QED
      BY <1>1, <3>1, <3>2
  <2>3. ASSUME NEW c \in Command, Signals(c) PROVE proc'[cmd[c].pid] # "stranger"
    <3>1. cmd[c].pid \in Pid /\ proc[cmd[c].pid] # "stranger"
      BY <1>0, <2>3 DEF FamilyInv, ShapeInv, TypeInv, Word
    <3>2. to # "stranger"
      BY DeadPid DEF Server, Booting
    <3> QED
      BY <1>1, <3>1, <3>2
  <2> QED
    BY <1>0, <2>1, <2>2, <2>3 DEF FamilyInv, Signals
<1>6. ASSUME Orderly PROVE Orderly'
  <2>1. \A c, d \in Active' : c = d
    BY <1>6 DEF Orderly, Active
  <2>2. \A q \in Pid : proc'[q] \in Booting =>
          (\A c \in Active' : cmd'[c].child = q)
            /\ \A o \in Pid : proc'[o] \in Booting => q = o
    BY <1>4, <1>6 DEF Orderly, Active
  <2>3. \A q \in Pid : proc'[q] \in {"listen", "chmod"} => sock' # None /\ sock'.by = q
    <3> SUFFICES ASSUME NEW q \in Pid, proc'[q] \in {"listen", "chmod"}
                 PROVE  sock' # None /\ sock'.by = q
      OBVIOUS
    <3>1. CASE q = p
      BY <1>1, <1>6, <3>1
    <3>2. CASE q # p
      BY <1>1, <1>6, <3>2 DEF Orderly, Booting
    <3> QED
      BY <3>1, <3>2
  <2>4. \A q \in Pid : proc'[q] = "serving" /\ Owner(q)' => sock' = [by |-> q, open |-> TRUE]
    BY <1>1, <1>6 DEF Orderly, Owner
  <2>5. \A q \in Pid : proc'[q] = "unlink" => ~Recorded({"serving"})'
    <3> SUFFICES ASSUME NEW q \in Pid, proc'[q] = "unlink", pidFile # None,
                        proc'[pidFile] = "serving"
                 PROVE  FALSE
      BY DEF Recorded
    <3>1. CASE q = p
      BY <1>0, <1>1, <1>6, <3>1 DEF Recorded, TypeInv
    <3>2. CASE q # p
      <4>1. proc[q] = "unlink" /\ proc[p] \notin Booting
        BY <1>1, <1>6, <3>2 DEF Orderly, Booting
      <4>2. pidFile # p /\ proc[pidFile] = "serving"
        BY <1>0, <1>1, <4>1, DeadPid DEF TypeInv
      <4> QED
        BY <1>6, <4>1, <4>2 DEF Orderly, Recorded
    <3> QED
      BY <3>1, <3>2
  <2>6. ASSUME NEW c \in Command PROVE OrderlyCommand(c)'
    <3>1. OrderlyCommand(c)
      BY <1>6 DEF Orderly
    <3>2. Recorded(Server)' => Recorded(Server)
      BY <1>0, <1>4 DEF Recorded, TypeInv
    <3>3. Recorded(Others) => Recorded(Others)'
      BY <1>0, <1>1 DEF Recorded, TypeInv, Server, Booting, Others
    <3>4. cmd[c].child # None /\ proc[cmd[c].child] = "zombie"
            => proc'[cmd[c].child] = "zombie"
      BY <1>0, <1>1 DEF TypeInv, Word, Server, Booting
    <3>5. cmd[c].child # None /\ sock' # None => sock'.by = cmd[c].child
      <4>1. SUFFICES ASSUME cmd[c].child # None, proc[p] \in Booting PROVE cmd[c].child = p
        BY <1>6, <3>1 DEF OrderlyCommand
      <4>2. c \in Active
        BY <1>0, <4>1, NoChild DEF Active
      <4> QED
        BY <1>6, <4>1, <4>2 DEF Orderly
    <3>6. cmd[c].at = "fork" => sock' = None
      <4>1. SUFFICES ASSUME cmd[c].at = "fork", proc[p] \in Booting PROVE FALSE
        BY <1>6, <3>1 DEF OrderlyCommand
      <4>2. c \in Active /\ cmd[c].child = None
        BY <1>0, <4>1 DEF Active, ShapeInv, Before
      <4> QED
        BY <1>6, <4>1, <4>2, NoPid DEF Orderly
    <3> QED
      BY <3>1, <3>2, <3>3, <3>4, <3>5, <3>6 DEF OrderlyCommand, Signals, Cleans, Asks
  <2> QED
    BY <2>1, <2>2, <2>3, <2>4, <2>5, <2>6 DEF Orderly
<1>7. ASSUME Orderly, OneServer PROVE OneServer'
  <2>1. \A q \in Pid : proc'[q] = "serving" => sock' = [by |-> q, open |-> TRUE]
    BY <1>1, <1>4, <1>7 DEF OneServer, Server
  <2> QED
    BY <1>4, <1>7, <2>1 DEF OneServer, Meets, Before, Signals, Cleans
<1>8. ASSUME Named PROVE Named'
  BY <1>4, <1>8 DEF Named, Names
<1>9. /\ Undisturbed({"overlap", "serve", "pid"}) => Undisturbed({"overlap", "pid"})
      /\ Undisturbed({"overlap", "serve", "interrupt", "pid"}) => Undisturbed({"overlap", "serve", "pid"})
  BY DEF Undisturbed
<1> QED
  BY <1>2, <1>3, <1>5, <1>6, <1>7, <1>8, <1>9 DEF IInv, Undisturbed

LEMMA ServerStepSafe ==
  ASSUME IInv, NEW p \in Pid, ServerStep(p), ~Serve(p)
  PROVE  IInv'
<1>0. TypeInv
  BY DEF IInv
<1>1. proc[p] \in {"probe", "unlink", "bind", "listen", "chmod"} \/ ServerDies(p)
  BY DEF ServerStep, ServerProbe, ServerUnlink, ServerBind, ServerListen, ServerChmod
<1>2. /\ \A q \in {"probe", "unlink", "bind", "listen", "chmod"} : q \in Booting /\ q \in Server
      /\ "serving" \in Server /\ Booting \subseteq Server
  BY DEF Booting, Server
<1>3. ASSUME Orderly, proc[p] \in Booting, NEW q \in Pid, Owner(q) PROVE q \in {p, pidFile}
  BY <1>3, NoChild, NoPid DEF IInv, Orderly, Owner, Active
<1>4. CASE ServerDies(p)
  BY <1>0, <1>4, ServerMove, DeadPid, MarkEndEffect DEF ServerDies, files, TypeInv, Server, Booting
<1>5. CASE ServerProbe(p)
  <2>1. PICK to \in {"bind", "unlink", Dead(p)} :
           ServerMoves(p, to) /\ (to = "unlink" => Probed = "stale")
    BY <1>5, DeadPid DEF ServerProbe, Probed
  <2>2. ASSUME Orderly, to = "unlink" PROVE ~Recorded({"serving"})
    <3>1. SUFFICES ASSUME Recorded({"serving"}) PROVE FALSE
      OBVIOUS
    <3>2. sock = [by |-> pidFile, open |-> TRUE] /\ pidFile \in Pid
      BY <1>0, <2>2, <3>1 DEF Recorded, Orderly, Owner, TypeInv
    <3> QED
      BY <2>1, <2>2, <3>1, <3>2, NoSocket DEF Probed, Recorded, Listening
  <2> QED
    BY <1>0, <1>2, <1>5, <2>1, <2>2, ServerMove, DeadPid, MarksStay DEF ServerProbe, files, TypeInv
<1>6. CASE ServerUnlink(p)
  <2>1. PICK to \in {"bind", Dead(p)} : ServerMoves(p, to)
    BY <1>6 DEF ServerUnlink
  <2>2. ASSUME Orderly, NEW q \in Pid \ {p}, proc[q] = "serving" PROVE ~Owner(q)
    BY <1>2, <1>3, <1>6, <2>2, NoPid DEF ServerUnlink, Orderly, Recorded
  <2> QED
    BY <1>0, <1>2, <1>6, <2>1, <2>2, ServerMove, DeadPid, MarksStay DEF ServerUnlink
<1>7. CASE ServerBind(p)
  <2>1. PICK to \in {"listen", Dead(p)} :
           ServerMoves(p, to) /\ (to = "listen" => sock' = [by |-> p, open |-> OwnerOnly])
    BY <1>7, DeadPid DEF ServerBind
  <2>2. [by |-> p, open |-> OwnerOnly] \in Socket /\ [by |-> p, open |-> OwnerOnly] # None
    BY NoSocket, CommandAssumption
  <2>3. sock' = sock \/ (sock = None /\ sock' = [by |-> p, open |-> OwnerOnly])
    BY <1>7 DEF ServerBind
  <2>4. ASSUME Orderly, sock = None, NEW q \in Pid \ {p}, proc[q] = "serving" PROVE ~Owner(q)
    BY <2>4, NoSocket DEF Orderly
  <2>5. /\ UNCHANGED <<pidFile, lock, cmd, seen, marks>> /\ proc[p] \in Booting /\ proc[p] \in Server
        /\ sock' \in {None} \cup Socket
    BY <1>0, <1>2, <1>7, <2>2, <2>3 DEF ServerBind, TypeInv
  <2>6. Dead(p) \in {"free", "zombie"}
    BY DeadPid
  <2>7. ASSUME Orderly
        PROVE  /\ to = "listen" => sock' # None /\ sock'.by = p
               /\ \/ sock' = sock
                  \/ /\ sock' # None => sock'.by = p
                     /\ \A q \in Pid \ {p} : proc[q] = "serving" => ~Owner(q)
    BY <2>1, <2>2, <2>3, <2>4, <2>7
  <2>8. to \notin {"chmod", "serving", "unlink"} /\ to \in Server \cup {Dead(p)}
    BY <1>2, <2>6
  <2> QED
    BY <2>1, <2>5, <2>7, <2>8, ServerMove, MarksStay
<1>8. CASE ServerListen(p)
  <2>1. Orderly => sock # None /\ sock.by = p
    BY <1>8 DEF ServerListen, Orderly
  <2> QED
    BY <1>0, <1>2, <1>8, <2>1, ServerMove, DeadPid, MarksStay DEF ServerListen, files, TypeInv
<1>9. CASE ServerChmod(p)
  <2>1. PICK to \in {"serving", Dead(p)} : ServerMoves(p, to)
    BY <1>9, DeadPid DEF ServerChmod
  <2>2. \/ sock = None /\ sock' = None
        \/ sock # None /\ sock' = [sock EXCEPT !.open = TRUE]
    BY <1>9 DEF ServerChmod
  <2>3. sock' \in {None} \cup Socket
    BY <1>0, <2>2 DEF TypeInv, Socket
  <2>4. ASSUME Orderly PROVE sock' = [by |-> p, open |-> TRUE]
    <3>1. sock # None /\ sock.by = p /\ sock \in Socket
      BY <1>0, <1>9, <2>4 DEF ServerChmod, Orderly, TypeInv
    <3> QED
      BY <2>2, <3>1 DEF Socket
  <2>5. ASSUME Orderly, NEW q \in Pid \ {p}, proc[q] = "serving" PROVE ~Owner(q)
    BY <1>9, <2>5 DEF ServerChmod, Orderly
  <2> QED
    BY <1>2, <1>9, <2>1, <2>3, <2>4, <2>5, ServerMove, DeadPid, NoSocket, MarksStay DEF ServerChmod
<1> QED
  BY <1>4, <1>5, <1>6, <1>7, <1>8, <1>9 DEF ServerStep

-----------------------------------------------------------------------------
\* A command or a foreground server begins, a command ends.

\* Whatever begins leaves the order intact only when nothing is under way.
LEMMA TroubleEffect ==
  ASSUME IInv, NEW kinds \in SUBSET {"serve", "interrupt"}, Trouble(kinds)
  PROVE  /\ seen' \subseteq {"serve", "overlap", "interrupt"} /\ seen \cup kinds \subseteq seen'
         /\ MarksInv'
         /\ Undisturbed({"overlap", "pid"})' =>
              Orderly /\ Active = {} /\ \A p \in Pid : proc[p] \notin Booting
         /\ Undisturbed({"overlap", "serve", "pid"})' => OneServer
         /\ Undisturbed({"overlap", "serve", "interrupt", "pid"})' => Named
BY DEF IInv, TypeInv, MarksInv, Trouble, Undisturbed

LEMMA ServeSafe ==
  ASSUME IInv, NEW p \in Pid, Serve(p)
  PROVE  IInv'
<1>0. TypeInv /\ MarksInv /\ (\A d \in Command : ShapeInv(d)) /\ FamilyInv
  BY DEF IInv
<1>1. /\ proc[p] = "free" /\ Trouble({"serve"}) /\ UNCHANGED <<sock, pidFile, lock, cmd>>
      /\ ServerMoves(p, "probe")
  BY DEF Serve, files
<1>2. /\ proc' \in [Pid -> Process] /\ proc'[p] = "probe"
      /\ \A q \in Pid \ {p} : proc'[q] = proc[q]
  BY <1>0, <1>1 DEF TypeInv, ServerMoves, Process, Server, Booting
<1>3. /\ seen' \subseteq {"serve", "overlap", "interrupt"} /\ "serve" \in seen' /\ MarksInv'
      /\ Undisturbed({"overlap", "pid"})' =>
           Orderly /\ Active = {} /\ \A q \in Pid : proc[q] \notin Booting
  BY <1>1, TroubleEffect
<1>4. TypeInv'
  BY <1>0, <1>1, <1>2, <1>3 DEF TypeInv
<1>5. \A d \in Command : ShapeInv(d)'
  BY <1>0, <1>1 DEF ShapeInv, Before, Signals, Cleans, Asks
<1>6. FamilyInv'
  <2>1. ASSUME NEW c \in Command, cmd[c].child # None
        PROVE  proc'[cmd[c].child] \in Server \cup {"zombie"}
    <3>1. cmd[c].child \in Pid /\ proc[cmd[c].child] \in Server \cup {"zombie"}
      BY <1>0, <2>1 DEF FamilyInv, TypeInv, Word
    <3> QED
      BY <1>1, <1>2, <3>1 DEF Server, Booting
  <2>2. ASSUME NEW c \in Command, Signals(c) PROVE proc'[cmd[c].pid] # "stranger"
    <3>1. cmd[c].pid \in Pid /\ proc[cmd[c].pid] # "stranger"
      BY <1>0, <2>2 DEF FamilyInv, ShapeInv, TypeInv, Word
    <3> QED
      BY <1>2, <3>1
  <2> QED
    BY <1>0, <1>1, <1>2, <2>1, <2>2 DEF FamilyInv, Signals
<1>7. ASSUME Undisturbed({"overlap", "pid"})' PROVE Orderly'
  <2>1. /\ Orderly /\ \A c \in Command : cmd'[c].at = "idle" /\ cmd'[c].child = None
        /\ Active' = {} /\ \A q \in Pid : proc[q] \notin Booting
    BY <1>0, <1>1, <1>3, <1>7, NoChild DEF Active
  <2>2. \A c \in Command : OrderlyCommand(c)'
    BY <2>1, IdleCommand
  <2>3. \A q \in Pid : proc'[q] \in Booting \cup {"serving"} =>
           q = p \/ (proc[q] = "serving" /\ proc'[q] = "serving")
    BY <1>2, <2>1
  <2>4. \A q \in Pid : Owner(q)' => Owner(q)
    BY <1>1 DEF Owner
  <2> QED
    BY <1>1, <1>2, <2>1, <2>2, <2>3, <2>4 DEF Orderly, Booting
<1> QED
  BY <1>3, <1>4, <1>5, <1>6, <1>7 DEF IInv, Undisturbed

LEMMA BeginSafe ==
  ASSUME IInv, NEW c \in Command, NEW op, NEW r \in Word, Begin(c, op, r),
         r.child = None, r.at = "read" \/ (r.at = "hello" /\ r.ask = "first")
  PROVE  IInv'
<1>0. TypeInv /\ MarksInv /\ (\A d \in Command : ShapeInv(d)) /\ FamilyInv
  BY DEF IInv
<1>1. /\ cmd[c].at = "idle" /\ cmd[c].child = None /\ Goes(c, r) /\ Trouble({})
      /\ UNCHANGED <<proc, sock, pidFile, lock>>
  BY <1>0, NoChild DEF Begin, files, Goes
<1>2. /\ cmd' \in [Command -> Word] /\ cmd'[c] = r
      /\ \A d \in Command \ {c} : cmd'[d] = cmd[d]
  BY <1>0, <1>1, GoesEffect
<1>3. /\ seen' \subseteq {"serve", "overlap", "interrupt"} /\ MarksInv'
      /\ Undisturbed({"overlap", "pid"})' =>
           Orderly /\ Active = {} /\ \A p \in Pid : proc[p] \notin Booting
      /\ Undisturbed({"overlap", "serve", "pid"})' => OneServer
      /\ Undisturbed({"overlap", "serve", "interrupt", "pid"})' => Named
  BY <1>1, TroubleEffect
<1>4. TypeInv'
  BY <1>0, <1>1, <1>2, <1>3 DEF TypeInv
<1>5. \A d \in Command : ShapeInv(d)'
  BY <1>0, <1>2 DEF ShapeInv, Before, Signals, Cleans, Asks
<1>6. \A d \in Command : cmd'[d].child = cmd[d].child
  BY <1>1, <1>2
<1>7. FamilyInv'
  BY <1>0, <1>1, <1>2, <1>6 DEF FamilyInv, Signals
<1>8. ASSUME Undisturbed({"overlap", "pid"})' PROVE Orderly'
  <2>1. /\ Orderly /\ \A d \in Command : cmd[d].at = "idle" /\ cmd[d].child = None
        /\ \A p \in Pid : proc[p] \notin Booting
    BY <1>0, <1>3, <1>8, NoChild DEF Active
  <2>2. \A d \in Command \ {c} : OrderlyCommand(d)'
    BY <1>2, <2>1, IdleCommand
  <2>3. OrderlyCommand(c)'
    BY <1>2 DEF OrderlyCommand, Signals, Cleans, Asks
  <2>4. \A d \in Active' : d = c
    BY <1>2, <2>1 DEF Active
  <2>5. \A p \in Pid : Owner(p)' => Owner(p)
    BY <1>1, <1>6 DEF Owner
  <2> QED
    BY <1>1, <2>1, <2>2, <2>3, <2>4, <2>5 DEF Orderly, Booting
<1>9. ASSUME Undisturbed({"overlap", "serve", "pid"})' PROVE OneServer'
  BY <1>1, <1>2, <1>3, <1>9 DEF OneServer, Meets, Before, Signals, Cleans
<1>10. ASSUME Undisturbed({"overlap", "serve", "interrupt", "pid"})' PROVE Named'
  BY <1>1, <1>2, <1>3, <1>10 DEF Named, Names
<1> QED
  BY <1>3, <1>4, <1>5, <1>7, <1>8, <1>9, <1>10 DEF IInv

LEMMA StartSafe ==
  ASSUME IInv, NEW c \in Command, Start(c) \/ Stop(c)
  PROVE  IInv'
<1> DEFINE s == [Idle EXCEPT !.at = "hello", !.ask = "first"]
           r == [Idle EXCEPT !.at = "read"]
<1>1. /\ s \in Word /\ s.at = "hello" /\ s.ask = "first" /\ s.child = None
      /\ r \in Word /\ r.at = "read" /\ r.child = None
  BY IdleWord DEF Word, Points
<1>2. Begin(c, "start", s) \/ Begin(c, "stop", r)
  BY DEF Start, Stop
<1> HIDE DEF s, r
<1> QED
  BY <1>1, <1>2, BeginSafe

LEMMA LeaveSafe ==
  ASSUME IInv, NEW c \in Command, cmd[c].at # "idle", Leave(c), UNCHANGED files,
         \/ cmd[c].at = "end" /\ UNCHANGED seen
         \/ seen' = seen \cup {"interrupt"},
         UNCHANGED marks
  PROVE  IInv'
<1>0. TypeInv /\ MarksInv /\ (\A d \in Command : ShapeInv(d)) /\ FamilyInv
  BY DEF IInv
<1>1. Goes(c, Idle) /\ UNCHANGED <<sock, pidFile, lock>>
  BY DEF Leave, Goes, files
<1>2. /\ cmd' \in [Command -> Word] /\ cmd'[c].at = "idle" /\ cmd'[c].child = None
      /\ \A d \in Command \ {c} : cmd'[d] = cmd[d]
  BY <1>0, <1>1, IdleWord, GoesEffect
<1>3. /\ proc' \in [Pid -> Process]
      /\ \A p \in Pid : proc'[p] = IF p = cmd[c].child /\ proc[p] = "zombie" THEN "free" ELSE proc[p]
  BY <1>0 DEF Leave, TypeInv, Process
<1>4. \A p \in Pid : /\ proc'[p] \in Server <=> proc[p] \in Server
                     /\ proc[p] \in Server => proc'[p] = proc[p]
  BY <1>3 DEF Server, Booting
<1>5. TypeInv'
  BY <1>0, <1>1, <1>2, <1>3 DEF TypeInv
<1>6. \A d \in Command : ShapeInv(d)'
  BY <1>0, <1>2, IdleCommand DEF ShapeInv, Before, Signals, Cleans, Asks
<1>7. FamilyInv'
  <2>1. ASSUME NEW d \in Command, cmd'[d].child # None
        PROVE  proc'[cmd'[d].child] \in Server \cup {"zombie"}
    <3>1. d # c /\ cmd'[d].child = cmd[d].child
      BY <1>2, <2>1
    <3>2. cmd[d].child \in Pid /\ cmd[d].child # cmd[c].child
          /\ proc[cmd[d].child] \in Server \cup {"zombie"}
      BY <1>0, <2>1, <3>1 DEF FamilyInv, TypeInv, Word
    <3> QED
      BY <1>3, <3>1, <3>2
  <2>2. ASSUME NEW d \in Command, Signals(d)' PROVE proc'[cmd'[d].pid] # "stranger"
    <3>1. d # c /\ cmd'[d] = cmd[d] /\ Signals(d)
      BY <1>2, <2>2 DEF Signals
    <3>2. cmd[d].pid \in Pid /\ proc[cmd[d].pid] # "stranger"
      BY <1>0, <3>1 DEF FamilyInv, ShapeInv, TypeInv, Word
    <3> QED
      BY <1>3, <3>1, <3>2
  <2>3. ASSUME NEW p \in Pid, proc'[p] = "zombie" PROVE \E d \in Command : cmd'[d].child = p
    BY <1>0, <1>2, <1>3, <2>3 DEF FamilyInv
  <2>4. \A d, e \in Command : d # e /\ cmd'[d].child # None => cmd'[d].child # cmd'[e].child
    BY <1>0, <1>2 DEF FamilyInv
  <2> QED
    BY <2>1, <2>2, <2>3, <2>4 DEF FamilyInv
<1>8. ASSUME Orderly PROVE Orderly'
  <2>1. \A d \in Command : cmd'[d].at = "idle" /\ cmd'[d].child = None
    BY <1>0, <1>2, <1>8, NoChild DEF Orderly, Active
  <2>2. Active' = {} /\ \A d \in Command : OrderlyCommand(d)'
    BY <2>1, IdleCommand DEF Active
  <2>3. \A p \in Pid : Owner(p)' => Owner(p)
    BY <1>1, <2>1, NoPid DEF Owner
  <2>4. \A p \in Pid : /\ proc'[p] \in Booting => proc[p] \in Booting
                       /\ proc'[p] \in Server => proc[p] = proc'[p]
    BY <1>3, <1>4 DEF Server
  <2>5. \A p \in Pid : /\ proc'[p] \in {"listen", "chmod"} => sock # None /\ sock.by = p
                       /\ proc'[p] = "serving" /\ Owner(p)' => sock = [by |-> p, open |-> TRUE]
    BY <1>8, <2>3, <2>4 DEF Orderly, Server, Booting
  <2>6. \A p \in Pid : proc'[p] = "unlink" => ~Recorded({"serving"})'
    BY <1>0, <1>1, <1>8, <2>4 DEF Orderly, Recorded, TypeInv, Server, Booting
  <2> QED
    BY <1>1, <1>8, <2>2, <2>4, <2>5, <2>6 DEF Orderly
<1>9. ASSUME OneServer PROVE OneServer'
  <2>1. \A p \in Pid : Meets(c, p)'
    BY <1>2, IdleCommand
  <2> QED
    BY <1>1, <1>2, <1>4, <1>9, <2>1 DEF OneServer, Meets, Before, Signals, Cleans
<1>10. ASSUME Named, cmd[c].at = "end" PROVE Named'
  BY <1>1, <1>2, <1>4, <1>10 DEF Named, Names
<1> QED
  BY <1>0, <1>5, <1>6, <1>7, <1>8, <1>9, <1>10 DEF IInv, MarksInv, Undisturbed, TypeInv

-----------------------------------------------------------------------------
\* The steps of a command that make or kill a process.

\* The families after one command has made, or killed, the process q.
LEMMA FamilyMove ==
  ASSUME IInv, NEW c \in Command, NEW r \in Word, Goes(c, r), r.at # "idle", NEW q \in Pid,
         NEW to \in Process, ServerMoves(q, to),
         r.at \in {"term", "insist"} => r.pid = q, to # "stranger",
         \/ r.child = q /\ (cmd[c].child = q \/ (cmd[c].child = None /\ proc[q] = "free"))
         \/ r.child = cmd[c].child,
         \A d \in Command : cmd'[d].child = q => to \in Server \cup {"zombie"},
         to = "zombie" => \E d \in Command : cmd'[d].child = q
  PROVE  /\ cmd' \in [Command -> Word] /\ cmd'[c] = r
         /\ \A d \in Command \ {c} : cmd'[d] = cmd[d]
         /\ proc' \in [Pid -> Process] /\ proc'[q] = to
         /\ \A p \in Pid \ {q} : proc'[p] = proc[p]
         /\ FamilyInv'
<1>0. TypeInv /\ MarksInv /\ (\A d \in Command : ShapeInv(d)) /\ FamilyInv
  BY DEF IInv
<1>1. /\ cmd' \in [Command -> Word] /\ cmd'[c] = r
      /\ \A d \in Command \ {c} : cmd'[d] = cmd[d]
  BY <1>0, GoesEffect
<1>2. /\ proc' \in [Pid -> Process] /\ proc'[q] = to
      /\ \A p \in Pid \ {q} : proc'[p] = proc[p]
  BY <1>0 DEF TypeInv, ServerMoves
<1>3. ASSUME NEW d \in Command, cmd'[d].child # None
      PROVE  proc'[cmd'[d].child] \in Server \cup {"zombie"}
  <2>1. CASE cmd'[d].child = q
    BY <1>2, <2>1
  <2>2. CASE cmd'[d].child # q
    <3>1. cmd'[d].child = cmd[d].child
      BY <1>1, <2>2
    <3>2. cmd[d].child \in Pid /\ proc[cmd[d].child] \in Server \cup {"zombie"}
      BY <1>0, <1>3, <3>1 DEF FamilyInv, TypeInv, Word
    <3> QED
      BY <1>2, <2>2, <3>1, <3>2
  <2> QED
    BY <2>1, <2>2
<1>4. ASSUME NEW d \in Command, Signals(d)' PROVE proc'[cmd'[d].pid] # "stranger"
  <2>1. CASE d = c
    BY <1>1, <1>2, <1>4, <2>1 DEF Signals
  <2>2. CASE d # c
    <3>1. cmd'[d] = cmd[d] /\ Signals(d)
      BY <1>1, <1>4, <2>2 DEF Signals
    <3>2. cmd[d].pid \in Pid /\ proc[cmd[d].pid] # "stranger"
      BY <1>0, <3>1 DEF FamilyInv, ShapeInv, TypeInv, Word
    <3> QED
      BY <1>2, <3>1, <3>2
  <2> QED
    BY <2>1, <2>2
<1>5. ASSUME NEW p \in Pid, proc'[p] = "zombie" PROVE \E d \in Command : cmd'[d].child = p
  <2>1. CASE p = q
    BY <1>2, <1>5, <2>1
  <2>2. CASE p # q
    <3>1. PICK d \in Command : cmd[d].child = p
      BY <1>0, <1>2, <1>5, <2>2 DEF FamilyInv
    <3> QED
      BY <1>1, <2>2, <3>1, NoPid
  <2> QED
    BY <2>1, <2>2
<1>6. \A d \in Command : cmd'[d].child = cmd[d].child \/ (d = c /\ cmd'[d].child = q)
  BY <1>1
<1>7. ASSUME proc[q] = "free" PROVE \A d \in Command : cmd[d].child # q
  BY <1>0, <1>7, NoPid DEF FamilyInv, Server, Booting
<1>8. \A d, e \in Command : d # e /\ cmd'[d].child # None => cmd'[d].child # cmd'[e].child
  BY <1>0, <1>1, <1>6, <1>7, NoPid DEF FamilyInv
<1> QED
  BY <1>1, <1>2, <1>3, <1>4, <1>5, <1>8 DEF FamilyInv

LEMMA StartForkSafe ==
  ASSUME IInv, NEW c \in Command, StartFork(c)
  PROVE  IInv'
<1>0. TypeInv /\ MarksInv /\ (\A d \in Command : ShapeInv(d)) /\ FamilyInv
  BY DEF IInv
<1>1. cmd[c].at = "fork" /\ UNCHANGED <<sock, pidFile, lock, seen, marks>>
  BY DEF StartFork, files
<1>2. cmd[c].child = None /\ cmd[c].ask # "ready"
  BY <1>0, <1>1 DEF ShapeInv, Before
<1>3. PICK q \in Pid : /\ proc[q] = "free" /\ ServerMoves(q, "probe")
                       /\ Goes(c, [To(c, "lock") EXCEPT !.child = q, !.pid = q])
  BY DEF StartFork
<1> DEFINE t == To(c, "lock")
           r == [t EXCEPT !.child = q, !.pid = q]
<1>4. t \in Word /\ t.at = "lock" /\ t.ask = cmd[c].ask
  BY <1>0, ToWord DEF Points
<1> HIDE DEF t
<1>5. r \in Word /\ r.at = "lock" /\ r.ask = cmd[c].ask /\ r.child = q /\ r.pid = q
  BY <1>4 DEF Word
<1>6. Goes(c, r)
  BY <1>3 DEF t
<1> HIDE DEF r
<1>7. "probe" \in Process /\ "probe" \in Server /\ "probe" \in Booting
  BY DEF Process, Server, Booting
<1>8. /\ cmd' \in [Command -> Word] /\ cmd'[c] = r
      /\ \A d \in Command \ {c} : cmd'[d] = cmd[d]
      /\ proc' \in [Pid -> Process] /\ proc'[q] = "probe"
      /\ \A p \in Pid \ {q} : proc'[p] = proc[p]
      /\ FamilyInv'
  BY <1>2, <1>3, <1>5, <1>6, <1>7, FamilyMove
<1>9. TypeInv'
  BY <1>0, <1>1, <1>8 DEF TypeInv
<1>10. \A d \in Command : ShapeInv(d)'
  BY <1>0, <1>2, <1>5, <1>8, NoPid DEF ShapeInv, Before, Signals, Cleans, Asks
<1>11. ASSUME Orderly PROVE Orderly'
  <2>1. /\ OrderlyCommand(c)
        /\ \A d \in Command \ {c} : cmd'[d].at = "idle" /\ cmd'[d].child = None
        /\ \A p \in Pid : proc[p] \notin Booting
    BY <1>1, <1>2, <1>8, <1>11, Alone, NoPid
  <2>2. Active' = {c}
    BY <1>5, <1>8, <2>1 DEF Active
  <2>3. \A d \in Command \ {c} : OrderlyCommand(d)'
    BY <2>1, IdleCommand
  <2>4. pidFile = None /\ lock = None /\ sock = None
    BY <1>1, <2>1 DEF OrderlyCommand
  <2>5. OrderlyCommand(c)'
    BY <1>1, <1>2, <1>5, <1>8, <2>4 DEF OrderlyCommand, Cleans, Asks, Before, Signals
  <2>6. \A p \in Pid : proc'[p] \in Booting => p = q
    BY <1>8, <2>1
  <2>7. \A p \in Pid : Owner(p)' => p = q
    BY <1>1, <1>5, <1>8, <2>1, <2>4, NoPid DEF Owner
  <2>8. \A p \in Pid : proc'[p] # "unlink" /\ proc'[p] \notin {"listen", "chmod"}
    BY <1>8, <2>1 DEF Booting
  <2> QED
    BY <1>5, <1>8, <2>2, <2>3, <2>5, <2>6, <2>7, <2>8 DEF Orderly
<1>12. ASSUME Orderly, OneServer PROVE OneServer' /\ Named'
  <2>1. \A p \in Pid : proc'[p] \in Server => p = q
    BY <1>1, <1>8, <1>12 DEF OneServer, Meets, Before
  <2>2. pidFile = None
    BY <1>1, <1>12 DEF Orderly, OrderlyCommand
  <2>3. \A d \in Command \ {c} : cmd'[d].at = "idle" /\ cmd'[d].child = None
    BY <1>1, <1>8, <1>12, Alone
  <2>4. \A d \in Command : Meets(d, q)'
    BY <1>5, <1>8, <2>3, IdleCommand DEF Meets, Before, Signals, Cleans
  <2>5. Names(c, q)'
    BY <1>5, <1>8 DEF Names
  <2> QED
    BY <1>1, <1>8, <2>1, <2>2, <2>4, <2>5 DEF OneServer, Named
<1> QED
  BY <1>0, <1>1, <1>8, <1>9, <1>10, <1>11, <1>12 DEF IInv, MarksInv, Undisturbed

\* A signal ends what has the pid.
LEMMA EndedPid ==
  ASSUME IInv, NEW p \in Pid
  PROVE  /\ Ended(p) \in {"free", "zombie"}
         /\ Ended(p) = "zombie" <=> \E c \in Command : cmd[c].child = p
         /\ ~Alive(p) => Ended(p) = "free"
BY DeadPid, NoPid DEF IInv, FamilyInv, Ended, Alive, Server, Booting

\* A command signals its child, or the process that the pid file names; then it
\* insists or cleans up.
LEMMA KillMove ==
  ASSUME IInv, NEW c \in Command, NEW r \in Word, Goes(c, r), r.child = cmd[c].child,
         NEW q \in Pid, ServerMoves(q, Ended(q)),
         IF cmd[c].at = "kill" THEN q = cmd[c].child ELSE Signals(c) /\ q = cmd[c].pid,
         \/ r.at = "clean-socket" /\ r.then = "end"
         \/ Signals(c) /\ r.at = "insist" /\ r.pid = q,
         UNCHANGED <<sock, pidFile, lock, seen>>,
         marks \subseteq marks', MarksInv'
  PROVE  IInv'
<1>0. TypeInv /\ MarksInv /\ (\A d \in Command : ShapeInv(d)) /\ FamilyInv
  BY DEF IInv
<1> DEFINE to == Ended(q)
<1>2. ServerMoves(q, to)
  OBVIOUS
<1>3. /\ cmd' \in [Command -> Word] /\ cmd'[c] = r
      /\ \A d \in Command \ {c} : cmd'[d] = cmd[d]
  BY <1>0, GoesEffect
<1>4. /\ to \in {"free", "zombie"}
      /\ to = "zombie" <=> \E d \in Command : cmd[d].child = q
  BY EndedPid
<1> HIDE DEF to
<1>5. \A d \in Command : cmd'[d].child = cmd[d].child
  BY <1>3
<1>6. /\ proc' \in [Pid -> Process] /\ proc'[q] = to
      /\ \A p \in Pid \ {q} : proc'[p] = proc[p]
      /\ FamilyInv'
  BY <1>2, <1>4, <1>5, FamilyMove DEF Process
<1>7. TypeInv'
  BY <1>0, <1>3, <1>6 DEF TypeInv
<1>8. \A d \in Command : ShapeInv(d)'
  BY <1>0, <1>3, NoPid DEF ShapeInv, Before, Signals, Cleans, Asks
<1>9. \A p \in Pid : proc'[p] \in Server => p # q /\ proc'[p] = proc[p]
  BY <1>4, <1>6 DEF Server, Booting
<1>10. ASSUME Orderly PROVE Orderly'
  <2>1. /\ OrderlyCommand(c)
        /\ \A d \in Command \ {c} : cmd[d].at = "idle" /\ cmd[d].child = None
        /\ \A p \in Pid : proc[p] \in Booting \cup {"zombie"} => p = cmd[c].child
        /\ \A p \in Pid : Owner(p) => p \in {pidFile, cmd[c].child}
    BY <1>10, Alone DEF Signals
  <2>2. Active' = {c}
    BY <1>3, <2>1 DEF Active
  <2>3. \A d \in Command \ {c} : OrderlyCommand(d)'
    BY <1>3, <2>1, IdleCommand
  <2>4. pidFile \in {None, q} /\ (cmd[c].at = "kill" \/ cmd[c].child = None)
    BY <1>0, <2>1 DEF OrderlyCommand, ShapeInv, Signals
  <2>5. ~Recorded(Server)'
    BY <1>9, <2>4 DEF Recorded, TypeInv
  <2>6. cmd[c].child # None => proc'[cmd[c].child] = "zombie"
    BY <1>4, <1>6, <2>4 DEF Signals
  <2>7. OrderlyCommand(c)'
    BY <1>3, <2>1, <2>4, <2>5, <2>6 DEF OrderlyCommand, Cleans, Asks, Before, Signals
  <2>8. \A p \in Pid : proc'[p] \notin Booting
    BY <1>9, <2>1, <2>4, NoPid DEF Server, Signals
  <2>9. \A p \in Pid : Owner(p)' => p = q
    BY <1>5, <2>1, <2>4, NoPid DEF Owner
  <2> QED
    BY <1>9, <2>2, <2>3, <2>7, <2>8, <2>9 DEF Orderly, Server, Booting
<1>11. ASSUME Orderly, OneServer PROVE OneServer' /\ Named'
  <2>1. ASSUME NEW p \in Pid, proc[p] \in Server PROVE p = q
    <3>1. Meets(c, p) /\ (cmd[c].at = "kill" => cmd[c].child # None)
      BY <1>0, <1>11, <2>1 DEF OneServer, ShapeInv
    <3> QED
      BY <3>1 DEF Meets
  <2> QED
    BY <1>9, <2>1 DEF OneServer, Named
<1> QED
  BY <1>6, <1>7, <1>8, <1>10, <1>11 DEF IInv, Undisturbed

LEMMA StartKillSafe ==
  ASSUME IInv, NEW c \in Command, StartKill(c)
  PROVE  IInv'
<1>0. TypeInv /\ ShapeInv(c) /\ FamilyInv
  BY DEF IInv
<1> DEFINE q == cmd[c].child
           r == Cleaning(c, "end", cmd[c].verdict)
<1>1. cmd[c].at = "kill" /\ Goes(c, r) /\ UNCHANGED <<sock, pidFile, lock, seen>>
  BY DEF StartKill, files
<1>2. cmd[c].verdict \in Verdict /\ q \in Pid /\ proc[q] \in Server \cup {"zombie"}
  BY <1>0, <1>1 DEF TypeInv, ShapeInv, FamilyInv, Word, Verdict
<1>3. AfterKill(q) = Ended(q)
  BY <1>2 DEF AfterKill, Ended, Server, Booting
<1>4. r \in Word /\ r.at = "clean-socket" /\ r.child = q /\ r.then = "end"
  BY <1>0, <1>2, CleaningWord
<1>5. marks \subseteq marks' /\ MarksInv'
  BY <1>1, MarkEndEffect DEF StartKill
<1> HIDE DEF r
<1> QED
  BY <1>1, <1>2, <1>3, <1>4, <1>5, KillMove DEF StartKill

LEMMA StopTermSafe ==
  ASSUME IInv, NEW c \in Command, StopTerm(c)
  PROVE  IInv'
<1>0. TypeInv /\ MarksInv /\ ShapeInv(c) /\ FamilyInv
  BY DEF IInv
<1> DEFINE p == cmd[c].pid
           r == To(c, "insist")
<1>1. cmd[c].at = "term" /\ Signals(c) /\ UNCHANGED <<sock, pidFile, lock, seen>> /\ MarkEnd(p)
  BY DEF StopTerm, Signals, files
<1>2. p \in Pid /\ "failed" \in Verdict /\ cmd[c].child = None
  BY <1>0, <1>1 DEF TypeInv, ShapeInv, Word, Verdict
<1>3. /\ r \in Word /\ r.at = "insist" /\ r.child = cmd[c].child /\ r.pid = p
      /\ r.ask = cmd[c].ask
  BY <1>0, ToWord DEF Points
<1>4. CASE ~Alive(p)
  <2>1. UNCHANGED proc /\ Goes(c, Ending(c, "failed"))
    BY <1>4 DEF StopTerm
  <2>2. UNCHANGED marks
    BY <1>1, <2>1, MarkEndEffect
  <2> QED
    BY <1>1, <1>2, <2>1, <2>2, EndingMove
<1>5. CASE Alive(p)
  <2>1. Goes(c, r) /\ \E after \in {proc[p], Ended(p)} : ServerMoves(p, after)
    BY <1>5 DEF StopTerm
  <2> HIDE DEF r
  <2>2. CASE ServerMoves(p, Ended(p))
    <3>1. marks \subseteq marks' /\ MarksInv'
      BY <1>1, MarkEndEffect
    <3> QED
      BY <1>1, <1>2, <1>3, <2>1, <2>2, <3>1, KillMove
  <2>3. CASE ServerMoves(p, proc[p])
    <3>1. UNCHANGED proc
      BY <1>0, <1>2, <2>3 DEF ServerMoves, TypeInv
    <3>2. UNCHANGED marks
      BY <1>1, <3>1, MarkEndEffect
    <3>3. cmd'[c] = r
      BY <1>0, <1>3, <2>1, GoesEffect
    <3>4. ShapeInv(c)'
      BY <1>2, <1>3, <3>3, NoPid DEF ShapeInv, Before, Signals, Cleans, Asks
    <3>5. ASSUME Orderly PROVE OrderlyCommand(c)' /\ FilesStay(c)
      <4>1. OrderlyCommand(c)
        BY <3>5 DEF Orderly
      <4> QED
        BY <1>1, <1>2, <1>3, <3>3, <4>1
           DEF OrderlyCommand, FilesStay, Asks, Before, Signals, Cleans
    <3>6. ASSUME Orderly, OneServer, NEW q \in Pid, proc[q] \in Server
          PROVE  Meets(c, q)' /\ pidFile' \in {None, q} /\ sock' = sock
      BY <1>1, <1>3, <3>3, <3>6 DEF OneServer, Meets, Before, Signals, Cleans
    <3>7. \A q \in Pid : ~Names(c, q)
      BY <1>1 DEF Names
    <3>8. proc[r.pid] # "stranger"
      BY <1>0, <1>1, <1>3 DEF FamilyInv
    <3>9. pidFile' \in Pid \cup {None} /\ lock' \in Pid \cup {None} /\ sock' = sock
      BY <1>0, <1>1 DEF TypeInv
    <3> QED
      BY <1>1, <1>3, <2>1, <3>1, <3>2, <3>4, <3>5, <3>6, <3>7, <3>8, <3>9, CommandMove
  <2> QED
    BY <2>1, <2>2, <2>3
<1> QED
  BY <1>4, <1>5

LEMMA StopInsistSafe ==
  ASSUME IInv, NEW c \in Command, StopInsist(c)
  PROVE  IInv'
<1>0. TypeInv /\ ShapeInv(c)
  BY DEF IInv
<1> DEFINE q == cmd[c].pid
           r == Cleaning(c, "end", "stopped")
<1>1. cmd[c].at = "insist" /\ Signals(c) /\ Goes(c, r) /\ UNCHANGED <<sock, pidFile, lock, seen>>
  BY DEF StopInsist, Signals, files
<1>2. q \in Pid /\ "stopped" \in Verdict
  BY <1>0, <1>1 DEF TypeInv, ShapeInv, Word, Verdict
<1>3. ServerMoves(q, Ended(q))
  BY <1>2, EndedPid DEF StopInsist
<1>4. r \in Word /\ r.at = "clean-socket" /\ r.child = cmd[c].child /\ r.then = "end"
  BY <1>0, <1>2, CleaningWord
<1>5. marks \subseteq marks' /\ MarksInv'
  BY <1>1, MarkEndEffect DEF StopInsist
<1> HIDE DEF r
<1> QED
  BY <1>1, <1>2, <1>3, <1>4, <1>5, KillMove

-----------------------------------------------------------------------------
\* Other processes come and go.

LEMMA OtherStepSafe ==
  ASSUME IInv, NEW p \in Pid, OtherStep(p)
  PROVE  IInv'
<1>0. TypeInv /\ MarksInv /\ (\A d \in Command : ShapeInv(d)) /\ FamilyInv
  BY DEF IInv
<1>1. PICK to \in Others \cup {"free"} :
         /\ ServerMoves(p, to)
         /\ to = "stranger" => Signalling(p) = {}
  BY DEF OtherStep, PidGiven, OtherEnds, Others
<1>2. /\ proc[p] \in Others \cup {"free"} /\ MarkPid(p)
      /\ UNCHANGED <<sock, pidFile, lock, cmd, seen>>
  BY DEF OtherStep, PidGiven, OtherEnds, files
<1>3. /\ proc' \in [Pid -> Process] /\ proc'[p] = to
      /\ \A q \in Pid \ {p} : proc'[q] = proc[q]
  BY <1>0, <1>1 DEF TypeInv, ServerMoves, Process
<1>4. /\ \A q \in Pid : proc'[q] \in Server \cup {"zombie"} <=> proc[q] \in Server \cup {"zombie"}
      /\ \A q \in Pid : proc[q] \in Server \cup {"zombie"} => proc'[q] = proc[q] /\ q # p
  BY <1>1, <1>2, <1>3 DEF Others, Server, Booting
<1>5. TypeInv' /\ \A d \in Command : ShapeInv(d)'
  BY <1>0, <1>2, <1>3 DEF TypeInv, ShapeInv, Before, Signals, Cleans, Asks
<1>6. FamilyInv'
  <2>1. ASSUME NEW c \in Command, cmd[c].child # None
        PROVE  proc'[cmd[c].child] \in Server \cup {"zombie"}
    BY <1>0, <1>4, <2>1 DEF FamilyInv, TypeInv, Word
  <2>2. ASSUME NEW c \in Command, Signals(c) PROVE proc'[cmd[c].pid] # "stranger"
    <3>1. cmd[c].pid \in Pid /\ proc[cmd[c].pid] # "stranger"
      BY <1>0, <2>2 DEF FamilyInv, ShapeInv, TypeInv, Word
    <3>2. cmd[c].pid = p => Signalling(p) # {}
      BY <2>2 DEF Signalling, Signals, Active
    <3> QED
      BY <1>1, <1>3, <3>1, <3>2
  <2>3. ASSUME NEW q \in Pid, proc'[q] = "zombie" PROVE \E c \in Command : cmd[c].child = q
    BY <1>0, <1>4, <2>3 DEF FamilyInv, Server, Booting
  <2> QED
    BY <1>0, <1>2, <2>1, <2>2, <2>3 DEF FamilyInv, Signals
<1>7. /\ marks \subseteq marks' /\ MarksInv'
      /\ p = pidFile /\ Active # {} => "overlap" \in seen' \/ "pid" \in marks'
  <2>1. CASE p = pidFile /\ Active # {}
    BY <1>2, <2>1, MarkEffect DEF MarkPid
  <2>2. CASE ~(p = pidFile /\ Active # {})
    <3>1. Mark({})
      BY <1>2, <2>2 DEF MarkPid
    <3> QED
      BY <1>2, <2>2, <3>1, MarkEffect
  <2> QED
    BY <2>1, <2>2
<1>8. ASSUME Orderly, p # pidFile \/ Active = {} PROVE Orderly'
  <2>1. ASSUME NEW c \in Command PROVE OrderlyCommand(c)'
    <3>1. CASE Active = {}
      <4>1. cmd'[c].at = "idle" /\ cmd'[c].child = None
        BY <1>0, <1>2, <3>1, NoChild DEF Active
      <4> QED
        BY <4>1, IdleCommand
    <3>2. CASE p # pidFile
      <4>1. pidFile # None => proc'[pidFile] = proc[pidFile]
        BY <1>0, <1>3, <3>2 DEF TypeInv
      <4>2. \A kind : Recorded(kind)' <=> Recorded(kind)
        BY <1>2, <4>1 DEF Recorded
      <4>3. OrderlyCommand(c)
        BY <1>8 DEF Orderly
      <4>4. cmd[c].child # None => proc'[cmd[c].child] = proc[cmd[c].child]
        BY <1>0, <1>4 DEF FamilyInv, TypeInv, Word
      <4> QED
        BY <1>2, <4>2, <4>3, <4>4 DEF OrderlyCommand, Before, Signals, Cleans, Asks
    <3> QED
      BY <1>8, <3>1, <3>2
  <2>2. \A q \in Pid : /\ proc'[q] \in Booting <=> proc[q] \in Booting
                       /\ proc[q] \in Server => proc'[q] = proc[q]
                       /\ proc'[q] \in Server => proc'[q] = proc[q]
    BY <1>4 DEF Server, Booting
  <2>3. \A q \in Pid : Owner(q)' <=> Owner(q)
    BY <1>2 DEF Owner
  <2>4. Recorded({"serving"})' => Recorded({"serving"})
    BY <1>0, <1>2, <2>2 DEF Recorded, TypeInv, Server
  <2>5. Active' = Active
    BY <1>2 DEF Active
  <2> QED
    BY <1>2, <1>8, <2>1, <2>2, <2>3, <2>4, <2>5 DEF Orderly, Server, Booting
<1>9. (OneServer => OneServer') /\ (Named => Named')
  <2>1. \A q \in Pid : /\ proc'[q] \in Server <=> proc[q] \in Server
                       /\ proc'[q] \in Server => proc'[q] = proc[q]
    BY <1>4 DEF Server, Booting
  <2> QED
    BY <1>2, <2>1 DEF OneServer, Named, Meets, Names, Before, Signals, Cleans
<1> QED
  BY <1>2, <1>5, <1>6, <1>7, <1>8, <1>9 DEF IInv, Undisturbed

-----------------------------------------------------------------------------
LEMMA NextInv == IInv /\ [Next]_vars => IInv'
<1> SUFFICES ASSUME IInv, [Next]_vars PROVE IInv'
  OBVIOUS
<1>1. CASE UNCHANGED vars
  <2>1. UNCHANGED <<proc, sock, pidFile, lock, cmd, seen, marks>>
    BY <1>1 DEF vars, files
  <2>2. /\ TypeInv' = TypeInv /\ MarksInv' = MarksInv /\ FamilyInv' = FamilyInv
        /\ \A c \in Command : ShapeInv(c)' = ShapeInv(c)
    BY <2>1 DEF TypeInv, MarksInv, FamilyInv, ShapeInv, Before, Signals, Cleans, Asks
  <2>3. Orderly' = Orderly
    BY <2>1 DEF Orderly, OrderlyCommand, Active, Owner, Recorded, Before, Signals, Cleans, Asks
  <2>4. OneServer' = OneServer /\ Named' = Named
    BY <2>1 DEF OneServer, Named, Meets, Names, Before, Signals, Cleans
  <2> QED
    BY <2>1, <2>2, <2>3, <2>4 DEF IInv, Undisturbed
<1>2. ASSUME NEW p \in Pid, ServerStep(p) \/ OtherStep(p) PROVE IInv'
  BY <1>2, ServerStepSafe, ServeSafe, OtherStepSafe
<1>3. ASSUME NEW c \in Command, CommandStep(c) PROVE IInv'
  <2>1. CASE Start(c) \/ Stop(c)
    BY <2>1, StartSafe
  <2>2. CASE End(c)
    BY <2>2, LeaveSafe DEF End
  <2>3. CASE Killed(c)
    BY <2>3, LeaveSafe DEF Killed
  <2>4. CASE Hello(c) \/ HelloAnswer(c)
    BY <2>4, HelloSafe, HelloAnswerSafe
  <2>5. CASE CleanSocket(c) \/ CleanPid(c) \/ CleanLock(c)
    BY <2>5, CleanSocketSafe, CleanPidSafe, CleanLockSafe
  <2>6. CASE StartStale(c) \/ StartRecorded(c) \/ StartProbe(c) \/ StartUnlink(c)
    BY <2>6, StartStaleSafe, StartRecordedSafe, StartProbeSafe, StartUnlinkSafe
  <2>7. CASE StartFork(c) \/ StartForkFails(c) \/ StartLock(c)
    BY <2>7, StartForkSafe, StartForkFailsSafe, StartLockSafe
  <2>8. CASE StartRecord(c) \/ StartWrite(c) \/ StartRecordFails(c) \/ StartKill(c)
    BY <2>8, StartRecordSafe, StartWriteSafe, StartRecordFailsSafe, StartKillSafe
  <2>9. CASE StopRead(c) \/ StopTerm(c) \/ StopInsist(c)
    BY <2>9, StopReadSafe, StopTermSafe, StopInsistSafe
  <2> QED
    BY <1>3, <2>1, <2>2, <2>3, <2>4, <2>5, <2>6, <2>7, <2>8, <2>9 DEF CommandStep
<1> QED
  BY <1>1, <1>2, <1>3 DEF Next

(***************************************************************************)
(* What the processes, the files and the locals of the commands have to do *)
(* with one another, for `daemon --start`, `--stop`, `--serve` in any      *)
(* order.                                                                  *)
(***************************************************************************)
THEOREM Invariance == Spec => []IInv
<1>1. Init => IInv
  BY InitInv
<1>2. IInv /\ [Next]_vars => IInv'
  BY NextInv
<1> QED
  BY <1>1, <1>2, PTL DEF Spec

(***************************************************************************)
(* One daemon at most while commands follow one another, and no daemon is  *)
(* lost: the pid file names the one that serves.                           *)
(***************************************************************************)
THEOREM OneDaemonIsKnown == Spec => []OneKnownDaemon
<1>1. IInv => OneKnownDaemon
  <2> SUFFICES ASSUME IInv PROVE OneKnownDaemon
    OBVIOUS
  <2>0. TypeInv /\ MarksInv /\ (\A d \in Command : ShapeInv(d)) /\ FamilyInv
    BY DEF IInv
  <2>1. TypeOK
    <3>1. /\ proc \in [Pid -> Server \cup Others \cup {"free", "zombie"}]
          /\ sock \in {None} \cup [by : Pid, open : BOOLEAN]
          /\ pidFile \in Pid \cup {None} /\ lock \in Pid \cup {None}
          /\ seen \subseteq {"serve", "overlap", "interrupt"} /\ marks \subseteq {"half-made", "pid"}
      BY <2>0 DEF TypeInv, MarksInv, Process, Socket
    <3>2. ASSUME NEW c \in Command
          PROVE  /\ cmd[c].at \in Points
                 /\ {cmd[c].peer, cmd[c].pid, cmd[c].child} \subseteq Pid \cup {None}
                 /\ cmd[c].child # None => proc[cmd[c].child] # "free"
      BY <2>0 DEF TypeInv, Word, FamilyInv, Server, Booting
    <3> QED
      BY <3>1, <3>2 DEF TypeOK
  <2>2. OneDaemon
    <3> SUFFICES ASSUME Undisturbed({"overlap", "serve", "pid"}) PROVE Cardinality(Daemons) <= 1
      BY DEF OneDaemon
    <3>1. \A p, q \in Daemons : p = q
      BY DEF IInv, OneServer, Daemons, Server, Booting
    <3>2. CASE Daemons = {}
      BY <3>2, FS_EmptySet
    <3>3. CASE Daemons # {}
      <4>1. PICK p : p \in Daemons
        BY <3>3
      <4>2. Daemons = {p}
        BY <3>1, <4>1
      <4> QED
        BY <4>2, FS_Singleton
    <3> QED
      BY <3>2, <3>3
  <2>3. NoLostDaemon
    <3> SUFFICES ASSUME Undisturbed({"overlap", "serve", "interrupt", "pid"}), Quiet, NEW p \in Daemons
                 PROVE  sock = [by |-> p, open |-> TRUE] /\ pidFile = p
      BY DEF NoLostDaemon
    <3>1. p \in Pid /\ proc[p] = "serving" /\ proc[p] \in Server
      BY DEF Daemons, Quiet, Booting, Server
    <3>2. OneServer /\ Named
      BY DEF IInv, Undisturbed
    <3>3. \A c \in Command : ~Names(c, p)
      BY DEF Quiet, Active, Names
    <3> QED
      BY <3>1, <3>2, <3>3 DEF OneServer, Named
  <2> QED
    BY <2>1, <2>2, <2>3 DEF OneKnownDaemon
<1> QED
  BY <1>1, Invariance, PTL

(***************************************************************************)
(* Whatever overlaps, and whatever pids change hands, no command kills a   *)
(* process that is not a daemon, unless it has come by its pid since the   *)
(* daemon told it: daemon_stop asks who answers before it sends a signal,  *)
(* and daemon_start signals its own child only.                            *)
(***************************************************************************)
THEOREM NoStrangerIsKilled == Spec => StrangersLive
<1>1. ASSUME IInv, [Next]_vars, cmd' # cmd, NEW p \in Pid, proc[p] = "stranger"
      PROVE  proc'[p] = "stranger"
  <2>0. TypeInv /\ (\A d \in Command : ShapeInv(d)) /\ FamilyInv
    BY <1>1 DEF IInv
  <2>1. PICK c \in Command : CommandStep(c)
    BY <1>1 DEF Next, vars, OtherStep, PidGiven, OtherEnds, ServerStep, ServerProbe, ServerUnlink,
                ServerBind, ServerListen, ServerChmod, ServerDies, Serve
  <2>2. CASE UNCHANGED proc
    BY <1>1, <2>2
  <2>3. ASSUME NEW q \in Pid, NEW to, ServerMoves(q, to), q # p PROVE proc'[p] = "stranger"
    BY <1>1, <2>0, <2>3 DEF ServerMoves, TypeInv
  <2>4. CASE Leave(c)
    BY <1>1, <2>4 DEF Leave
  <2>5. CASE StartFork(c)
    BY <1>1, <2>3, <2>5 DEF StartFork
  <2>6. CASE StartKill(c)
    <3>1. cmd[c].child \in Pid /\ proc[cmd[c].child] \in Server \cup {"zombie"}
      BY <2>0, <2>6 DEF StartKill, ShapeInv, FamilyInv, TypeInv, Word
    <3> QED
      BY <1>1, <2>3, <2>6, <3>1 DEF StartKill, Server, Booting
  <2>7. CASE StopTerm(c) \/ StopInsist(c)
    <3>1. cmd[c].pid \in Pid /\ proc[cmd[c].pid] # "stranger"
      BY <2>0, <2>7 DEF StopTerm, StopInsist, Signals, ShapeInv, FamilyInv, TypeInv, Word
    <3>2. (\E to : ServerMoves(cmd[c].pid, to)) \/ UNCHANGED proc
      BY <2>7 DEF StopTerm, StopInsist
    <3> QED
      BY <1>1, <2>2, <2>3, <3>1, <3>2
  <2> QED
    BY <2>1, <2>2, <2>4, <2>5, <2>6, <2>7
       DEF CommandStep, Start, Stop, Begin, End, Killed, Hello, HelloAnswer, CleanSocket,
           CleanPid, CleanLock, StartStale, StartRecorded, StartProbe, StartUnlink,
           StartForkFails, StartLock, StartRecord, StartWrite, StartRecordFails, StopRead
<1>2. IInv /\ [Next]_vars =>
        [cmd' # cmd => \A p \in Pid : proc[p] = "stranger" => proc'[p] = "stranger"]_vars
  BY <1>1
<1> QED
  BY <1>2, Invariance, PTL DEF Spec, StrangersLive

-----------------------------------------------------------------------------
\* Who is turned away.

Turned == {"running", "in-use", "locked", "unsafe"}

LEMMA NoneTurned == None \notin Turned
BY CommandAssumption DEF Turned

LEMMA ToVerdict ==
  ASSUME TypeInv, NEW c \in Command, cmd[c].verdict = None, NEW pt \in Points
  PROVE  To(c, pt) \in Word /\ To(c, pt).verdict = None
BY ToWord

LEMMA UnansweredVerdict ==
  ASSUME TypeInv, NEW c \in Command, ShapeInv(c), Asks(c), cmd[c].verdict = None,
         NEW s \in Unanswered(c)
  PROVE  s \in Word /\ s.verdict \notin Turned
<1>1. s \in Word
  BY UnansweredWord
<1>2. /\ "stale" \in Points /\ "kill" \in Points /\ "hello" \in Points
      /\ "stopped" \in Verdict /\ "refused" \in Verdict /\ "not-ready" \in Verdict
      /\ {"stopped", "refused", "not-ready"} \cap Turned = {}
  BY DEF Points, Verdict, Turned
<1>3. cmd[c].ask \in {"first", "ready", "missing", "verify"}
  BY DEF ShapeInv
<1>4. \/ s \in {To(c, "stale"), To(c, "hello")}
      \/ s = [To(c, "kill") EXCEPT !.verdict = "not-ready"]
      \/ s = Cleaning(c, "end", "stopped")
      \/ s = Ending(c, "refused")
  BY <1>3 DEF Unanswered
<1>5. CASE s = [To(c, "kill") EXCEPT !.verdict = "not-ready"]
  <2> DEFINE k == To(c, "kill")
  <2>1. k \in Word
    BY <1>2, ToVerdict
  <2>2. s = [k EXCEPT !.verdict = "not-ready"]
    BY <1>5
  <2> HIDE DEF k
  <2>3. s.verdict = "not-ready"
    BY <2>1, <2>2 DEF Word
  <2> QED
    BY <1>1, <1>2, <2>3
<1> QED
  BY <1>1, <1>2, <1>4, <1>5, ToVerdict, NoneTurned, CleaningWord, EndingWord

\* A socket is unprotected only while its server is about to protect it, unless
\* a server has ended just then.
HalfInv ==
    Undisturbed({"overlap", "half-made"}) /\ sock # None =>
      sock.open \/ proc[sock.by] \in {"listen", "chmod"}

LEMMA HalfStep ==
  ASSUME IInv, HalfInv, [Next]_vars
  PROVE  HalfInv'
<1>0. TypeInv /\ (\A d \in Command : ShapeInv(d)) /\ FamilyInv
  BY DEF IInv
<1> SUFFICES ASSUME Undisturbed({"overlap", "half-made"})', sock' # None, ~sock'.open
             PROVE  proc'[sock'.by] \in {"listen", "chmod"}
  BY DEF HalfInv
<1>1. "overlap" \notin seen' /\ "half-made" \notin marks'
  BY DEF Undisturbed
<1>2. ASSUME marks \subseteq marks', seen \subseteq seen', sock' = sock
      PROVE  sock \in Socket /\ proc[sock.by] \in {"listen", "chmod"}
  BY <1>0, <1>1, <1>2 DEF HalfInv, Undisturbed, TypeInv
<1>3. ASSUME UNCHANGED proc, marks \subseteq marks', seen \subseteq seen', sock' = sock
      PROVE  proc'[sock'.by] \in {"listen", "chmod"}
  BY <1>2, <1>3
<1>4. ASSUME NEW q \in Pid, NEW to, ServerMoves(q, to), proc[q] \notin {"listen", "chmod"},
             marks \subseteq marks', seen \subseteq seen', sock' = sock
      PROVE  proc'[sock'.by] \in {"listen", "chmod"}
  BY <1>0, <1>2, <1>4 DEF ServerMoves, TypeInv, Socket
<1>5. ASSUME NEW q \in Pid, NEW to, ServerMoves(q, to), MarkEnd(q), UNCHANGED <<sock, seen>>
      PROVE  proc'[sock'.by] \in {"listen", "chmod"}
  <2>1. /\ marks \subseteq marks'
        /\ HalfMade(q) => proc'[q] = proc[q]
    BY <1>1, <1>5, MarkEndEffect
  <2>2. sock \in Socket /\ proc[sock.by] \in {"listen", "chmod"}
    BY <1>2, <1>5, <2>1
  <2>3. sock.by \in Pid /\ (sock.by = q => HalfMade(q))
    <3>1. sock = [by |-> sock.by, open |-> FALSE] /\ sock.by \in Pid
      BY <1>5, <2>2 DEF Socket
    <3> QED
      BY <2>2, <3>1 DEF HalfMade
  <2> QED
    BY <1>0, <1>5, <2>1, <2>2, <2>3 DEF ServerMoves, TypeInv
<1>6. CASE UNCHANGED vars
  BY <1>3, <1>6 DEF vars, files
<1>7. ASSUME NEW p \in Pid, ServerStep(p)
      PROVE  proc'[sock'.by] \in {"listen", "chmod"}
  <2>1. CASE ServerProbe(p)
    BY <1>4, <2>1 DEF ServerProbe, files
  <2>2. CASE ServerUnlink(p) \/ ServerChmod(p)
    <3>1. sock' # None => sock \in Socket /\ sock' = [sock EXCEPT !.open = TRUE]
      BY <1>0, <2>2 DEF ServerUnlink, ServerChmod, TypeInv
    <3> QED
      BY <3>1 DEF Socket
  <2>3. CASE ServerBind(p)
    <3>1. CASE sock = None
      <4>1. sock'.by = p /\ proc'[p] = "listen"
        BY <1>0, <2>3, <3>1 DEF ServerBind, ServerMoves, TypeInv
      <4> QED
        BY <4>1
    <3>2. CASE sock # None
      BY <1>4, <2>3, <3>2 DEF ServerBind
    <3> QED
      BY <3>1, <3>2
  <2>4. CASE ServerListen(p)
    <3>1. sock \in Socket /\ proc[sock.by] \in {"listen", "chmod"}
      BY <1>2, <2>4 DEF ServerListen, files
    <3> QED
      BY <1>0, <2>4, <3>1 DEF ServerListen, ServerMoves, TypeInv, Socket, files
  <2>5. CASE ServerDies(p)
    BY <1>5, <2>5 DEF ServerDies, files
  <2>6. CASE Serve(p)
    BY <1>1, <1>4, <2>6 DEF Serve, Trouble, files
  <2> QED
    BY <1>7, <2>1, <2>2, <2>3, <2>4, <2>5, <2>6 DEF ServerStep
<1>8. ASSUME NEW p \in Pid, OtherStep(p)
      PROVE  proc'[sock'.by] \in {"listen", "chmod"}
  <2>1. /\ \E to : ServerMoves(p, to)
        /\ proc[p] \notin {"listen", "chmod"} /\ MarkPid(p) /\ UNCHANGED <<sock, seen>>
    BY <1>8 DEF OtherStep, PidGiven, OtherEnds, Others, files
  <2>2. marks \subseteq marks'
    BY <1>1, <2>1 DEF MarkPid, Mark
  <2> QED
    BY <1>4, <2>1, <2>2
<1>9. ASSUME NEW c \in Command, CommandStep(c)
      PROVE  proc'[sock'.by] \in {"listen", "chmod"}
  <2>1. CASE Start(c) \/ Stop(c)
    BY <1>1, <1>3, <2>1 DEF Start, Stop, Begin, Trouble, files
  <2>2. CASE End(c) \/ Killed(c)
    <3>1. sock \in Socket /\ proc[sock.by] \in {"listen", "chmod"}
      BY <1>2, <2>2 DEF End, Killed, files
    <3> QED
      BY <2>2, <3>1 DEF End, Killed, Leave, Socket, files
  <2>3. CASE Hello(c) \/ HelloAnswer(c) \/ CleanPid(c) \/ CleanLock(c) \/ StartStale(c)
             \/ StartRecorded(c) \/ StartProbe(c) \/ StartForkFails(c) \/ StartLock(c)
             \/ StartRecord(c) \/ StartWrite(c) \/ StartRecordFails(c) \/ StopRead(c)
    BY <1>3, <2>3
       DEF Hello, HelloAnswer, CleanPid, CleanLock, StartStale, StartRecorded, StartProbe,
           StartForkFails, StartLock, StartRecord, StartWrite, StartRecordFails, StopRead, files
  <2>4. CASE CleanSocket(c) \/ StartUnlink(c)
    BY <2>4 DEF CleanSocket, StartUnlink
  <2>5. CASE StartFork(c)
    BY <1>4, <2>5 DEF StartFork, files
  <2>6. CASE StartKill(c)
    <3>1. cmd[c].child \in Pid
      BY <1>0, <2>6 DEF StartKill, ShapeInv, TypeInv, Word
    <3> QED
      BY <1>5, <2>6, <3>1 DEF StartKill, files
  <2>7. CASE StopTerm(c) \/ StopInsist(c)
    <3>1. cmd[c].pid \in Pid
      BY <1>0, <2>7 DEF StopTerm, StopInsist, Signals, ShapeInv, TypeInv, Word
    <3>2. MarkEnd(cmd[c].pid) /\ UNCHANGED <<sock, seen>>
      BY <2>7 DEF StopTerm, StopInsist, files
    <3>3. CASE \E to : ServerMoves(cmd[c].pid, to)
      BY <1>5, <3>1, <3>2, <3>3
    <3>4. CASE UNCHANGED proc
      BY <1>3, <3>1, <3>2, <3>4, MarkEndEffect
    <3> QED
      BY <2>7, <3>3, <3>4 DEF StopTerm, StopInsist
  <2> QED
    BY <1>9, <2>1, <2>2, <2>3, <2>4, <2>5, <2>6, <2>7 DEF CommandStep
<1> QED
  BY <1>6, <1>7, <1>8, <1>9 DEF Next

LEMMA HalfMadeIsMarked == Spec => []HalfInv
<1>1. Init => HalfInv
  <2> SUFFICES ASSUME Init, sock # None, ~sock.open PROVE "half-made" \in marks
    BY DEF HalfInv, Undisturbed
  <2> QED
    BY DEF Init
<1>2. IInv /\ HalfInv /\ [Next]_vars => HalfInv'
  BY HalfStep
<1> QED
  BY <1>1, <1>2, Invariance, PTL DEF Spec

\* Who turns a command away: another server, or another process with the pid on file.
Blocks(c, p) ==
    p # cmd[c].child /\ (proc[p] \in Server \/ (p = pidFile /\ proc[p] \in Others))

LEMMA TurnedAway ==
  ASSUME IInv, HalfInv, Undisturbed({"overlap", "half-made"}), NEW c \in Command, CommandStep(c), Orderly,
         cmd[c].verdict = None, cmd'[c].verdict \in Turned
  PROVE  \E p \in Pid : Blocks(c, p)
<1>0. TypeInv /\ ShapeInv(c) /\ FamilyInv /\ OrderlyCommand(c) /\ cmd[c] \in Word
  BY DEF IInv, Orderly, TypeInv
<1>1. ASSUME NEW r, Goes(c, r), r.verdict \notin Turned PROVE FALSE
  <2>1. cmd'[c] = r
    BY <1>0, <1>1 DEF Goes, TypeInv
  <2> QED
    BY <1>1, <2>1
<1>2. ASSUME NEW pt \in Points, Goes(c, To(c, pt)) PROVE FALSE
  BY <1>0, <1>1, <1>2, ToVerdict, NoneTurned
<1>3. ASSUME NEW v \in Verdict \ Turned, NEW next \in {"end", "recorded"},
             Goes(c, Ending(c, v)) \/ Goes(c, Cleaning(c, next, v))
      PROVE  FALSE
  BY <1>0, <1>1, <1>3, EndingWord, CleaningWord
<1>4. /\ Points = {"idle", "hello", "answer", "clean-socket", "clean-pid", "clean-lock",
                   "stale", "recorded", "probe", "unlink", "fork", "lock", "record", "write",
                   "kill", "read", "term", "insist", "end"}
      /\ {None, "started", "stopped", "refused", "failed", "not-ready"}
           \subseteq Verdict \ Turned
  BY NoneTurned DEF Points, Verdict, Turned
<1>5. CASE Start(c) \/ Stop(c)
  <2>1. /\ [Idle EXCEPT !.at = "hello", !.ask = "first"].verdict = None
        /\ [Idle EXCEPT !.at = "read"].verdict = None
    BY IdleWord DEF Word
  <2> QED
    BY <1>1, <1>5, <2>1, NoneTurned DEF Start, Stop, Begin, Goes
<1>6. CASE End(c) \/ Killed(c)
  BY <1>1, <1>6, IdleWord, NoneTurned DEF End, Killed, Leave, Goes
<1>7. CASE Hello(c)
  <2>1. ASSUME Reachable PROVE FALSE
    <3> DEFINE t == To(c, "answer")
    <3>1. Goes(c, [t EXCEPT !.peer = sock.by])
      BY <1>7, <2>1 DEF Hello
    <3>2. t \in Word /\ t.verdict = None
      BY <1>0, <1>4, ToVerdict
    <3> HIDE DEF t
    <3>3. [t EXCEPT !.peer = sock.by].verdict = None
      BY <3>2 DEF Word
    <3> QED
      BY <1>1, <3>1, <3>3, NoneTurned
  <2> QED
    BY <1>0, <1>1, <1>7, <2>1, UnansweredVerdict DEF Hello, Asks
<1>8. CASE HelloAnswer(c)
  <2> DEFINE p == cmd[c].peer
             a == Answered(c, p)
  <2>1. cmd[c].at = "answer" /\ Asks(c) /\ p \in Pid
    BY <1>0, <1>8 DEF HelloAnswer, Asks, ShapeInv, Word
  <2>2. ASSUME NEW s \in Unanswered(c), Goes(c, [s EXCEPT !.peer = None]) PROVE FALSE
    <3>1. s \in Word /\ s.verdict \notin Turned
      BY <1>0, <2>1, UnansweredVerdict
    <3>2. [s EXCEPT !.peer = None].verdict = s.verdict
      BY <3>1 DEF Word
    <3> QED
      BY <1>1, <2>2, <3>1, <3>2
  <2>3. proc[p] = "serving" /\ Goes(c, [a EXCEPT !.peer = None])
    BY <1>8, <2>2 DEF HelloAnswer
  <2>4. ASSUME a \in Word, a.verdict \notin Turned PROVE FALSE
    <3>1. [a EXCEPT !.peer = None].verdict = a.verdict
      BY <2>4 DEF Word
    <3> QED
      BY <1>1, <2>3, <2>4, <3>1
  <2>5. cmd[c].ask \in {"first", "ready", "missing", "verify"}
    BY <1>0, <2>1 DEF ShapeInv
  <2>6. ASSUME cmd[c].ask # "first" PROVE FALSE
    <3> DEFINE t == To(c, "record")
    <3>1. \/ a \in {Ending(c, "started"), Ending(c, "refused"), To(c, "term")}
          \/ a = [t EXCEPT !.pid = p]
      BY <2>5, <2>6 DEF Answered
    <3>2. t \in Word /\ t.verdict = None
      BY <1>0, <1>4, ToVerdict
    <3> HIDE DEF a, t
    <3>3. CASE a = [t EXCEPT !.pid = p]
      <4>1. a \in Word /\ a.verdict = None
        BY <2>1, <3>2, <3>3 DEF Word
      <4> QED
        BY <2>4, <4>1, NoneTurned
    <3>4. CASE a \in {Ending(c, "started"), Ending(c, "refused"), To(c, "term")}
      BY <1>0, <1>4, <2>4, <3>4, EndingWord, ToVerdict, NoneTurned
    <3> QED
      BY <3>1, <3>3, <3>4
  <2>7. cmd[c].child = None
    BY <1>0, <2>1, <2>6 DEF ShapeInv
  <2> QED
    BY <2>1, <2>3, <2>7, NoPid DEF Blocks, Server
<1>9. CASE CleanSocket(c) \/ CleanPid(c)
  BY <1>2, <1>4, <1>9 DEF CleanSocket, CleanPid
<1>10. CASE CleanLock(c)
  <2> DEFINE t == To(c, cmd[c].then)
  <2>1. cmd[c].then \in Points
    BY <1>0, <1>4, <1>10 DEF CleanLock, ShapeInv, Cleans
  <2>2. Goes(c, [t EXCEPT !.then = None])
    BY <1>10 DEF CleanLock
  <2>3. t \in Word /\ t.verdict = None
    BY <1>0, <2>1, ToVerdict
  <2> HIDE DEF t
  <2>4. [t EXCEPT !.then = None].verdict = None
    BY <2>3 DEF Word
  <2> QED
    BY <1>1, <2>2, <2>4, NoneTurned
<1>11. CASE StartStale(c)
  BY <1>2, <1>3, <1>4, <1>11 DEF StartStale
<1>12. CASE StartRecorded(c)
  <2>1. pidFile # None /\ Alive(pidFile)
    BY <1>2, <1>4, <1>12 DEF StartRecorded
  <2>2. pidFile \in Pid /\ proc[pidFile] \in Others /\ cmd[c].child = None
    BY <1>0, <1>12, <2>1
       DEF StartRecorded, OrderlyCommand, Recorded, TypeInv, ShapeInv, Before
  <2> QED
    BY <2>2, NoPid DEF Blocks
<1>13. CASE StartProbe(c)
  <2>1. Probed \in {"in-use", "unsafe"}
    <3>1. Probed \in {"clear", "stale", "unsafe", "in-use"}
      BY DEF Probed
    <3> QED
      BY <1>2, <1>3, <1>4, <1>13, <3>1 DEF StartProbe
  <2>2. sock # None /\ (Listening(sock.by) \/ proc[sock.by] \in {"listen", "chmod"})
    BY <2>1 DEF Probed, HalfInv
  <2>3. sock.by \in Pid /\ proc[sock.by] \in Server /\ cmd[c].child = None
    BY <1>0, <1>13, <2>2
       DEF StartProbe, Listening, Server, Booting, TypeInv, Socket, ShapeInv, Before
  <2> QED
    BY <2>3, NoPid DEF Blocks
<1>14. CASE StartUnlink(c) \/ StartForkFails(c)
  BY <1>2, <1>3, <1>4, <1>14 DEF StartUnlink, StartForkFails
<1>15. CASE StartFork(c)
  <2> DEFINE t == To(c, "lock")
  <2>1. PICK q \in Pid : Goes(c, [t EXCEPT !.child = q, !.pid = q])
    BY <1>15 DEF StartFork
  <2>2. t \in Word /\ t.verdict = None
    BY <1>0, <1>4, ToVerdict
  <2> HIDE DEF t
  <2>3. [t EXCEPT !.child = q, !.pid = q].verdict = None
    BY <2>2 DEF Word
  <2> QED
    BY <1>1, <2>1, <2>3, NoneTurned
<1>16. CASE StartLock(c)
  BY <1>0, <1>2, <1>4, <1>16 DEF StartLock, OrderlyCommand
<1>17. CASE StartRecord(c)
  BY <1>2, <1>4, <1>17 DEF StartRecord
<1>18. CASE StartWrite(c) \/ StartRecordFails(c)
  <2> DEFINE h == To(c, "hello")
             k == To(c, "kill")
  <2>1. \/ Goes(c, Ending(c, "started"))
        \/ Goes(c, [h EXCEPT !.ask = "ready"])
        \/ Goes(c, [k EXCEPT !.verdict = "failed"])
    BY <1>18 DEF StartWrite, StartRecordFails
  <2>2. h \in Word /\ h.verdict = None /\ k \in Word
    BY <1>0, <1>4, ToVerdict
  <2> HIDE DEF h, k
  <2>3. [h EXCEPT !.ask = "ready"].verdict = None /\ [k EXCEPT !.verdict = "failed"].verdict = "failed"
    BY <2>2 DEF Word
  <2> QED
    BY <1>1, <1>3, <1>4, <2>1, <2>3, NoneTurned
<1>19. CASE StartKill(c)
  BY <1>3, <1>4, <1>19 DEF StartKill
<1>20. CASE StopRead(c)
  <2> DEFINE h == To(c, "hello")
  <2>1. \/ Goes(c, [h EXCEPT !.ask = "missing"])
        \/ Goes(c, Cleaning(c, "end", "stopped"))
        \/ Goes(c, [h EXCEPT !.ask = "verify", !.pid = pidFile])
    BY <1>20 DEF StopRead
  <2>2. h \in Word /\ h.verdict = None
    BY <1>0, <1>4, ToVerdict
  <2> HIDE DEF h
  <2>3. /\ [h EXCEPT !.ask = "missing"].verdict = None
        /\ [h EXCEPT !.ask = "verify", !.pid = pidFile].verdict = None
    BY <2>2 DEF Word
  <2> QED
    BY <1>1, <1>3, <1>4, <2>1, <2>3, NoneTurned
<1>21. CASE StopTerm(c) \/ StopInsist(c)
  BY <1>2, <1>3, <1>4, <1>21 DEF StopTerm, StopInsist
<1> QED
  BY <1>5, <1>6, <1>7, <1>8, <1>9, <1>10, <1>11, <1>12, <1>13, <1>14, <1>15, <1>16, <1>17,
     <1>18, <1>19, <1>20, <1>21 DEF CommandStep

(***************************************************************************)
(* What a crash has left turns no start away: who is told "running",       *)
(* "in use", "unsafe" or "locked" has another server, or a process with    *)
(* the recorded pid, beside him.  This is what                             *)
(* daemon_cleanup_stale_lifecycle and daemon_prepare_server_socket_path    *)
(* are for.  The one leftover they do not clear is the socket of a server  *)
(* that has ended between bind and chmod ("half-made").                    *)
(***************************************************************************)
THEOREM StaleFilesNeverBlock == Spec => StaleNeverBlocks
<1>1. ASSUME IInv, HalfInv, [Next]_vars, NEW c \in Command,
             Undisturbed({"overlap", "half-made", "pid"}),
             cmd[c].verdict = None, cmd'[c].verdict \in Turned
      PROVE  \E p \in Pid : Blocks(c, p)
  <2>0. Orderly /\ TypeInv /\ Undisturbed({"overlap", "half-made"})
    BY <1>1 DEF IInv, Undisturbed
  <2>1. cmd'[c] # cmd[c]
    BY <1>1, NoneTurned
  <2>2. ASSUME NEW d \in Command, CommandStep(d), d # c PROVE FALSE
    <3>1. \E r : cmd' = [cmd EXCEPT ![d] = r]
      BY <2>2 DEF CommandStep, Start, Stop, Begin, End, Killed, Leave, Hello, HelloAnswer,
                  CleanSocket, CleanPid, CleanLock, StartStale, StartRecorded, StartProbe,
                  StartUnlink, StartFork, StartForkFails, StartLock, StartRecord, StartWrite,
                  StartRecordFails, StartKill, StopRead, StopTerm, StopInsist, Goes
    <3> QED
      BY <2>0, <2>1, <2>2, <3>1 DEF TypeInv
  <2>3. ASSUME NEW p \in Pid, ServerStep(p) \/ OtherStep(p) PROVE FALSE
    BY <2>1, <2>3 DEF ServerStep, ServerProbe, ServerUnlink, ServerBind, ServerListen,
                      ServerChmod, ServerDies, Serve, OtherStep, PidGiven, OtherEnds
  <2>4. CommandStep(c)
    BY <1>1, <2>1, <2>2, <2>3 DEF Next, vars
  <2> QED
    BY <1>1, <2>0, <2>4, TurnedAway
<1>2. ASSUME IInv, HalfInv, [Next]_vars
      PROVE  Undisturbed({"overlap", "half-made", "pid"}) => \A c \in Command : ~Blocked(c)
  BY <1>1, <1>2 DEF Blocked, Blocks, Turned
<1>3. IInv /\ HalfInv /\ [Next]_vars =>
        [Undisturbed({"overlap", "half-made", "pid"}) => \A c \in Command : ~Blocked(c)]_vars
  BY <1>2
<1> QED
  BY <1>3, Invariance, HalfMadeIsMarked, PTL DEF Spec, StaleNeverBlocks
=============================================================================
