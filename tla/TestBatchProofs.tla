--------------------------- MODULE TestBatchProofs ---------------------------
(***************************************************************************)
(* Theorems about TestBatch, for every number of tests, every set of       *)
(* resources and requests that the validation accepts, every --jobs, every *)
(* choice of hooks and every retry policy.                                 *)
(***************************************************************************)
EXTENDS TestBatch, FiniteSetTheorems, TLAPS

-----------------------------------------------------------------------------
\* The log of one test's record.

\* Phase ph of the current attempt has not ended yet.
Fresh(record, ph) == \A e \in record.log : e.action # <<ph, record.attempt>>

\* No phase of an attempt is logged twice.
LoggedOnce(record) == \A e, f \in record.log : e.action = f.action => e = f

\* The log speaks of the attempts made so far.
LogsPast(record) == \A e \in record.log : e.action[2] <= record.attempt

\* ExitOf, for a record and its current attempt.
ExitIn(record, ph) ==
    IF \E e \in record.log : e.action = <<ph, record.attempt>>
    THEN (CHOOSE e \in record.log : e.action = <<ph, record.attempt>>).exit
    ELSE "not-run"

LEMMA ExitFresh ==
  ASSUME NEW record, NEW ph, Fresh(record, ph)
  PROVE  ExitIn(record, ph) = "not-run"
BY DEF Fresh, ExitIn

LEMMA ExitLogged ==
  ASSUME NEW record, LoggedOnce(record), NEW ph,
         NEW e \in record.log, e.action = <<ph, record.attempt>>
  PROVE  ExitIn(record, ph) = e.exit
<1> DEFINE f == CHOOSE x \in record.log : x.action = <<ph, record.attempt>>
<1>1. f \in record.log /\ f.action = <<ph, record.attempt>>
  OBVIOUS
<1>2. f = e
  BY <1>1 DEF LoggedOnce
<1> QED
  BY <1>2 DEF ExitIn

LEMMA ExitType ==
  ASSUME NEW record \in Run, NEW ph
  PROVE  ExitIn(record, ph) \in Exits \cup {"not-run"}
<1>1. CASE Fresh(record, ph)
  BY <1>1, ExitFresh
<1>2. CASE ~Fresh(record, ph)
  <2> DEFINE f == CHOOSE x \in record.log : x.action = <<ph, record.attempt>>
  <2>1. f \in record.log
    BY <1>2 DEF Fresh
  <2>2. f.exit \in Exits
    BY <2>1 DEF Run, LogEntry
  <2> QED
    BY <1>2, <2>2 DEF Fresh, ExitIn
<1> QED
  BY <1>1, <1>2

\* What the log says once a phase that had not ended is added to it.
LEMMA LogGrows ==
  ASSUME NEW record \in Run, LoggedOnce(record), LogsPast(record),
         NEW ph \in HookPhases, NEW exit \in Exits, Fresh(record, ph),
         NEW new, new.attempt = record.attempt,
         new.log = record.log \cup
                     {[action |-> <<ph, record.attempt>>, exit |-> exit]}
  PROVE  /\ new.log \in SUBSET LogEntry
         /\ LoggedOnce(new)
         /\ LogsPast(new)
         /\ ExitIn(new, ph) = exit
         /\ ~Fresh(new, ph)
         /\ \A q \in HookPhases \ {ph} : /\ ExitIn(new, q) = ExitIn(record, q)
                                         /\ Fresh(record, q) => Fresh(new, q)
<1> DEFINE entry == [action |-> <<ph, record.attempt>>, exit |-> exit]
<1>1. record.attempt \in Nat /\ record.log \in SUBSET LogEntry
  BY DEF Run
<1>2. entry \in LogEntry /\ entry.action = <<ph, record.attempt>> /\ entry.exit = exit
  BY <1>1 DEF LogEntry, Action
<1>3. new.log = record.log \cup {entry}
  OBVIOUS
<1> HIDE DEF entry
<1>4. LoggedOnce(new)
  BY <1>2, <1>3 DEF LoggedOnce, Fresh
<1>5. LogsPast(new)
  BY <1>1, <1>2, <1>3 DEF LogsPast
<1>6. ExitIn(new, ph) = exit
  BY <1>2, <1>3, <1>4, ExitLogged
<1>7. ~Fresh(new, ph)
  BY <1>2, <1>3 DEF Fresh
<1>8. ASSUME NEW q \in HookPhases \ {ph}
      PROVE  /\ ExitIn(new, q) = ExitIn(record, q)
             /\ Fresh(record, q) => Fresh(new, q)
  <2>1. <<ph, record.attempt>> # <<q, record.attempt>>
    OBVIOUS
  <2>2. Fresh(record, q) => Fresh(new, q)
    BY <1>2, <1>3, <2>1 DEF Fresh
  <2>3. CASE Fresh(record, q)
    BY <2>2, <2>3, ExitFresh
  <2>4. CASE ~Fresh(record, q)
    <3>1. PICK e \in record.log : e.action = <<q, record.attempt>>
      BY <2>4 DEF Fresh
    <3>2. ExitIn(record, q) = e.exit
      BY <3>1, ExitLogged
    <3>3. ExitIn(new, q) = e.exit
      BY <1>3, <1>4, <3>1, ExitLogged
    <3> QED
      BY <2>2, <3>2, <3>3
  <2> QED
    BY <2>2, <2>3, <2>4
<1> QED
  BY <1>1, <1>2, <1>3, <1>4, <1>5, <1>6, <1>7, <1>8

\* A record with the same log and attempt reads the same.
LEMMA LogKept ==
  ASSUME NEW record, NEW new, new.log = record.log, new.attempt = record.attempt
  PROVE  /\ LoggedOnce(new) <=> LoggedOnce(record)
         /\ LogsPast(new) <=> LogsPast(record)
         /\ \A ph : /\ ExitIn(new, ph) = ExitIn(record, ph)
                    /\ Fresh(new, ph) <=> Fresh(record, ph)
BY DEF LoggedOnce, LogsPast, ExitIn, Fresh

-----------------------------------------------------------------------------
\* An attempt under way.

\* Judged, for a record and its current attempt.
Verdict(record) ==
    LET setup == ExitIn(record, "SETUP")
        body == ExitIn(record, "BODY")
        cleanup == ExitIn(record, "CLEANUP")
    IN  IF \/ cleanup \notin {"0", "not-run"}
           \/ setup \in {"code", "signal", "spawn-error"}
           \/ body \in {"signal", "spawn-error"} THEN "error"
        ELSE IF setup = "timeout" \/ body = "timeout" THEN "timeout"
        ELSE IF body = "code" THEN "fail" ELSE "pass"

\* The status left so far is the table's verdict on the phases that have ended.
StatusSoFar(record) ==
    record.status = IF Verdict(record) = "pass" THEN "" ELSE Verdict(record)

\* A result other than an error names a body or a setup that exited that way;
\* an error names a phase whose exit is one, or the good cleanup after it.
Named(record) ==
    /\ record.result[2] = record.attempt
    /\ record.status # "error" =>
         /\ record.result[1] \in {"SETUP", "BODY"}
         /\ ExitIn(record, record.result[1]) =
              CASE record.status = "fail" -> "code"
                [] record.status = "timeout" -> "timeout"
                [] OTHER -> "0"
    /\ record.status = "error" =>
         IF ExitIn(record, "CLEANUP") = "0"
         THEN record.result[1] = "CLEANUP"
         ELSE ExitIn(record, record.result[1]) \in ErrorExits(record.result[1])

UnderWay(t, record) ==
    /\ t \in Test \ Skipped
    /\ record \in Run
    /\ record.held
    /\ record.attempt # 0
    /\ LoggedOnce(record)
    /\ LogsPast(record)
    /\ StatusSoFar(record)

\* A phase is running: neither it nor a later one is logged.
InPhase(t, record) ==
    /\ UnderWay(t, record)
    /\ record.running
    /\ record.phase \in HookPhases
    /\ Fresh(record, record.phase)
    /\ Fresh(record, "CLEANUP")
    /\ record.phase = "SETUP" => Fresh(record, "BODY")
    /\ record.phase = "BODY" => record.status = ""
    /\ record.phase = "CLEANUP" => Named(record)

\* No phase is running; cleaned tells whether the cleanup has been tried.
Between(t, record, cleaned) ==
    /\ UnderWay(t, record)
    /\ ~record.running
    /\ record.phase \in HookPhases
    /\ Named(record)
    /\ Fresh(record, "CLEANUP") <=> ~cleaned

LEMMA VerdictOf ==
  ASSUME NEW record \in Run, NEW new \in Run,
         \A ph \in HookPhases : ExitIn(new, ph) = ExitIn(record, ph)
  PROVE  Verdict(new) = Verdict(record)
BY DEF Verdict, HookPhases

\* Logging an exit changes nothing but the log.
LEMMA LogExitFields ==
  ASSUME NEW record \in Run, NEW ph, NEW exit
  PROVE  LET new == LogExit(record, ph, exit)
         IN  /\ new.log = record.log \cup {[action |-> <<ph, record.attempt>>, exit |-> exit]}
             /\ new = [record EXCEPT !.log = new.log]
BY DEF LogExit, Run

\* A phase that is started: nothing else of the attempt changes.
LEMMA LaunchStarts ==
  ASSUME NEW record \in Run, NEW ph \in HookPhases
  PROVE  LET new == Launch(record, ph, TRUE)
         IN  /\ new \in Run
             /\ new.phase = ph /\ new.running
             /\ new.held = record.held /\ new.attempt = record.attempt
             /\ new.status = record.status /\ new.result = record.result
             /\ new.log = record.log
BY DEF Launch, Run, Phases

LEMMA LaunchKeepsAttempt ==
  ASSUME NEW t, NEW record, UnderWay(t, record), NEW ph \in HookPhases
  PROVE  UnderWay(t, Launch(record, ph, TRUE))
<1> DEFINE new == Launch(record, ph, TRUE)
<1>0. record \in Run
  BY DEF UnderWay
<1>1. /\ new \in Run
      /\ new.held = record.held /\ new.attempt = record.attempt
      /\ new.status = record.status /\ new.log = record.log
  BY <1>0, LaunchStarts
<1> HIDE DEF new
<1>2. \A q : ExitIn(new, q) = ExitIn(record, q)
  BY <1>1, LogKept
<1>3. Verdict(new) = Verdict(record)
  BY <1>0, <1>1, <1>2, VerdictOf
<1>4. LoggedOnce(new) /\ LogsPast(new)
  BY <1>1, LogKept DEF UnderWay
<1> QED
  BY <1>1, <1>3, <1>4 DEF UnderWay, StatusSoFar, new

\* A phase that cannot be started: the attempt is in error, and that phase is
\* logged.
LEMMA LaunchFails ==
  ASSUME NEW t, NEW record, UnderWay(t, record), NEW ph \in HookPhases,
         Fresh(record, ph)
  PROVE  LET new == Launch(record, ph, FALSE)
         IN  /\ UnderWay(t, new)
             /\ new.phase = ph /\ new.running = record.running
             /\ new.attempt = record.attempt
             /\ new.status = "error"
             /\ new.result = <<ph, record.attempt>>
             /\ ExitIn(new, ph) = "spawn-error"
             /\ ~Fresh(new, ph)
             /\ \A q \in HookPhases \ {ph} : Fresh(record, q) => Fresh(new, q)
<1> DEFINE tried == [record EXCEPT !.phase = ph, !.status = "error",
                                   !.result = <<ph, record.attempt>>]
           new == LogExit(tried, ph, "spawn-error")
<1>0. record \in Run /\ record.attempt \in Nat
  BY DEF UnderWay, Run
<1>1. /\ tried \in Run
      /\ tried.phase = ph /\ tried.running = record.running /\ tried.held = record.held
      /\ tried.attempt = record.attempt /\ tried.status = "error"
      /\ tried.log = record.log /\ tried.result = <<ph, record.attempt>>
  BY <1>0 DEF Run, Phases, Statuses, Failures, Action
<1> HIDE DEF tried
<1>2. /\ new.log = tried.log \cup
                     {[action |-> <<ph, tried.attempt>>, exit |-> "spawn-error"]}
      /\ new = [tried EXCEPT !.log = new.log]
  BY <1>1, LogExitFields
<1>3. new = Launch(record, ph, FALSE)
  BY DEF Launch, tried
<1> HIDE DEF new
<1>4. /\ new.phase = ph /\ new.running = record.running /\ new.held = record.held
      /\ new.attempt = record.attempt /\ new.status = "error"
      /\ new.result = <<ph, record.attempt>>
  BY <1>1, <1>2 DEF Run
<1>5. LoggedOnce(tried) /\ LogsPast(tried) /\ Fresh(tried, ph)
  BY <1>1, LogKept DEF UnderWay
<1>6. "spawn-error" \in Exits
  BY DEF Exits
<1>7. /\ new.log \in SUBSET LogEntry
      /\ LoggedOnce(new)
      /\ LogsPast(new)
      /\ ExitIn(new, ph) = "spawn-error"
      /\ ~Fresh(new, ph)
      /\ \A q \in HookPhases \ {ph} : Fresh(tried, q) => Fresh(new, q)
  BY <1>1, <1>2, <1>4, <1>5, <1>6, LogGrows
<1>8. new \in Run
  BY <1>1, <1>2, <1>7 DEF Run
<1>9. Verdict(new) = "error"
  BY <1>7 DEF Verdict, HookPhases
<1>10. \A q : Fresh(record, q) <=> Fresh(tried, q)
  BY <1>1, LogKept
<1>11. UnderWay(t, new)
  BY <1>4, <1>7, <1>8, <1>9 DEF UnderWay, StatusSoFar
<1> QED
  BY <1>3, <1>4, <1>7, <1>10, <1>11

-----------------------------------------------------------------------------
\* The operators of an attempt.

\* What a finished attempt leaves: a test that waits for its next turn, or one
\* whose final result is right.
Settled(t, record) ==
    /\ record \in Run
    /\ ~record.held /\ ~record.running
    /\ LoggedOnce(record)
    /\ LogsPast(record)
    /\ \/ record.phase = "PENDING" /\ record.status = ""
       \/ /\ record.phase = "DONE"
          /\ record.attempt # 0
          /\ record.status = Verdict(record)
          /\ Named(record)

LEMMA VerdictType ==
  ASSUME NEW record \in Run
  PROVE  Verdict(record) \in {"pass", "fail", "error", "timeout"}
BY DEF Verdict

LEMMA FinishAttemptSettles ==
  ASSUME NEW t, NEW record, NEW cleaned, Between(t, record, cleaned)
  PROVE  LET judged == IF record.status = "" THEN [record EXCEPT !.status = "pass"]
                                             ELSE record
             new == FinishAttempt(t, judged)
         IN  /\ Settled(t, new)
             /\ new.attempt = record.attempt
             /\ new.log = record.log
<1> DEFINE judged == IF record.status = "" THEN [record EXCEPT !.status = "pass"]
                                           ELSE record
           new == FinishAttempt(t, judged)
<1>0. /\ record \in Run /\ record.attempt # 0 /\ ~record.running
      /\ LoggedOnce(record) /\ LogsPast(record) /\ Named(record) /\ StatusSoFar(record)
  BY DEF Between, UnderWay
<1>1. Verdict(record) \in {"pass", "fail", "error", "timeout"}
  BY <1>0, VerdictType
<1>2. /\ judged \in Run
      /\ judged.running = record.running /\ judged.attempt = record.attempt
      /\ judged.result = record.result /\ judged.log = record.log
      /\ judged.status = Verdict(record)
  BY <1>0, <1>1 DEF Run, Statuses, Failures, StatusSoFar
<1>3. Named(judged)
  <2>1. \A ph : ExitIn(judged, ph) = ExitIn(record, ph)
    BY <1>2, LogKept
  <2>2. record.status = judged.status \/ (record.status = "" /\ judged.status = "pass")
    BY <1>0 DEF Run
  <2> HIDE DEF judged
  <2> QED
    BY <1>0, <1>2, <2>1, <2>2 DEF Named
<1> HIDE DEF judged
<1>4. /\ new \in Run /\ ~new.held /\ ~new.running
      /\ new.attempt = record.attempt /\ new.log = record.log
      /\ new.result = judged.result
      /\ \/ new.phase = "PENDING" /\ new.status = ""
         \/ new.phase = "DONE" /\ new.status = judged.status
  BY <1>0, <1>2 DEF FinishAttempt, Run, Phases, Statuses
<1> HIDE DEF new
<1>5. /\ LoggedOnce(new) /\ LogsPast(new)
      /\ \A ph : ExitIn(new, ph) = ExitIn(record, ph) /\ ExitIn(new, ph) = ExitIn(judged, ph)
  BY <1>0, <1>2, <1>4, LogKept
<1>6. Verdict(new) = Verdict(record)
  BY <1>0, <1>4, <1>5, VerdictOf
<1>7. new.status = judged.status => Named(new)
  BY <1>2, <1>3, <1>4, <1>5 DEF Named
<1>8. Settled(t, new) /\ new.attempt = record.attempt /\ new.log = record.log
  BY <1>0, <1>2, <1>4, <1>5, <1>6, <1>7 DEF Settled
<1> QED
  BY <1>8 DEF new, judged

\* A phase that is started makes the attempt one that is in that phase.
LEMMA LaunchEnters ==
  ASSUME NEW t, NEW record, UnderWay(t, record), NEW ph \in HookPhases,
         Fresh(record, ph), Fresh(record, "CLEANUP"),
         ph = "SETUP" => Fresh(record, "BODY"),
         ph = "BODY" => record.status = "",
         ph = "CLEANUP" => Named(record)
  PROVE  LET new == Launch(record, ph, TRUE)
         IN  InPhase(t, new) /\ new.attempt = record.attempt
<1> DEFINE new == Launch(record, ph, TRUE)
<1>0. record \in Run
  BY DEF UnderWay
<1>1. /\ new.phase = ph /\ new.running
      /\ new.attempt = record.attempt
      /\ new.status = record.status /\ new.result = record.result
      /\ new.log = record.log
  BY <1>0, LaunchStarts
<1>2. UnderWay(t, new)
  BY LaunchKeepsAttempt
<1> HIDE DEF new
<1>3. \A q : /\ ExitIn(new, q) = ExitIn(record, q)
             /\ Fresh(new, q) <=> Fresh(record, q)
  BY <1>1, LogKept
<1>4. Named(record) => Named(new)
  BY <1>1, <1>3 DEF Named
<1>5. InPhase(t, new)
  BY <1>1, <1>2, <1>3, <1>4 DEF InPhase
<1> QED
  BY <1>1, <1>5 DEF new

LEMMA LaunchFailsBetween ==
  ASSUME NEW t, NEW record, UnderWay(t, record), ~record.running,
         NEW ph \in HookPhases, Fresh(record, ph), Fresh(record, "CLEANUP")
  PROVE  LET new == Launch(record, ph, FALSE)
         IN  /\ Between(t, new, ph = "CLEANUP")
             /\ new.attempt = record.attempt
             /\ \A q \in HookPhases \ {ph} : Fresh(record, q) => Fresh(new, q)
<1> DEFINE new == Launch(record, ph, FALSE)
<1>1. /\ UnderWay(t, new)
      /\ new.phase = ph /\ ~new.running
      /\ new.attempt = record.attempt
      /\ new.status = "error"
      /\ new.result = <<ph, record.attempt>>
      /\ ExitIn(new, ph) = "spawn-error"
      /\ ~Fresh(new, ph)
      /\ \A q \in HookPhases \ {ph} : Fresh(record, q) => Fresh(new, q)
  BY LaunchFails
<1> HIDE DEF new
<1>2. Fresh(new, "CLEANUP") <=> ph # "CLEANUP"
  BY <1>1 DEF HookPhases
<1>3. ExitIn(new, "CLEANUP") # "0"
  BY <1>1, <1>2, ExitFresh
<1>4. "spawn-error" \in ErrorExits(ph)
  BY DEF ErrorExits, Exits
<1>5. Named(new)
  BY <1>1, <1>3, <1>4 DEF Named
<1>6. Between(t, new, ph = "CLEANUP")
  BY <1>1, <1>2, <1>5 DEF Between
<1> QED
  BY <1>1, <1>6 DEF new

LEMMA AfterSetupEffect ==
  ASSUME NEW t, NEW record, NEW completed \in HookPhases,
         NEW spawned \in [HookPhases -> BOOLEAN],
         Between(t, record, completed = "CLEANUP"),
         completed = "SETUP" => Fresh(record, "BODY")
  PROVE  LET new == AfterSetup(record, completed, spawned)
         IN  /\ new.attempt = record.attempt
             /\ InPhase(t, new) \/ Between(t, new, completed = "CLEANUP")
<1>1. CASE completed = "SETUP" /\ record.status = ""
  <2>1. /\ UnderWay(t, record) /\ ~record.running
        /\ Fresh(record, "BODY") /\ Fresh(record, "CLEANUP")
    BY <1>1 DEF Between
  <2>2. "BODY" \in HookPhases /\ spawned["BODY"] \in BOOLEAN
    BY DEF HookPhases
  <2>3. AfterSetup(record, completed, spawned) = Launch(record, "BODY", spawned["BODY"])
    BY <1>1 DEF AfterSetup
  <2>4. CASE spawned["BODY"] = TRUE
    <3>1. AfterSetup(record, completed, spawned) = Launch(record, "BODY", TRUE)
      BY <2>3, <2>4
    <3>2. "BODY" # "SETUP" /\ "BODY" # "CLEANUP" /\ record.status = ""
      BY <1>1
    <3>3. /\ InPhase(t, Launch(record, "BODY", TRUE))
          /\ Launch(record, "BODY", TRUE).attempt = record.attempt
      BY ONLY <2>1, <2>2, <3>2, LaunchEnters
    <3> QED
      BY ONLY <3>1, <3>3
  <2>5. CASE spawned["BODY"] = FALSE
    <3>1. /\ Between(t, Launch(record, "BODY", FALSE), "BODY" = "CLEANUP")
          /\ Launch(record, "BODY", FALSE).attempt = record.attempt
      BY <2>1, <2>2, LaunchFailsBetween
    <3> QED
      BY <1>1, <2>3, <2>5, <3>1 DEF Between
  <2> QED
    BY <2>2, <2>4, <2>5
<1>2. CASE ~(completed = "SETUP" /\ record.status = "")
  BY <1>2 DEF AfterSetup
<1> QED
  BY <1>1, <1>2

LEMMA BeforeCleanupEffect ==
  ASSUME NEW t, NEW record, NEW completed \in HookPhases,
         NEW spawned \in [HookPhases -> BOOLEAN],
         InPhase(t, record) \/ Between(t, record, completed = "CLEANUP")
  PROVE  LET new == BeforeCleanup(t, record, completed, spawned)
         IN  /\ new.attempt = record.attempt
             /\ \/ InPhase(t, new)
                \/ \E cleaned \in BOOLEAN : /\ Between(t, new, cleaned)
                                            /\ t \in HasCleanup => cleaned
<1>1. CASE InPhase(t, record)
  BY <1>1 DEF BeforeCleanup, InPhase
<1>2. CASE Between(t, record, completed = "CLEANUP") /\ (completed = "CLEANUP" \/ t \notin HasCleanup)
  <2>1. BeforeCleanup(t, record, completed, spawned) = record
    BY <1>2 DEF BeforeCleanup
  <2> QED
    BY <1>2, <2>1
<1>3. CASE Between(t, record, completed = "CLEANUP") /\ completed # "CLEANUP" /\ t \in HasCleanup
  <2>1. UnderWay(t, record) /\ ~record.running /\ Fresh(record, "CLEANUP") /\ Named(record)
    BY <1>3 DEF Between
  <2>2. "CLEANUP" \in HookPhases /\ spawned["CLEANUP"] \in BOOLEAN
    BY DEF HookPhases
  <2>3. BeforeCleanup(t, record, completed, spawned)
          = Launch(record, "CLEANUP", spawned["CLEANUP"])
    BY <1>3, <2>1 DEF BeforeCleanup
  <2>4. CASE spawned["CLEANUP"] = TRUE
    <3>1. /\ InPhase(t, Launch(record, "CLEANUP", TRUE))
          /\ Launch(record, "CLEANUP", TRUE).attempt = record.attempt
      BY <2>1, <2>2, LaunchEnters
    <3> QED
      BY <2>3, <2>4, <3>1
  <2>5. CASE spawned["CLEANUP"] = FALSE
    <3>1. /\ Between(t, Launch(record, "CLEANUP", FALSE), "CLEANUP" = "CLEANUP")
          /\ Launch(record, "CLEANUP", FALSE).attempt = record.attempt
      BY <2>1, <2>2, LaunchFailsBetween
    <3>2. Between(t, Launch(record, "CLEANUP", FALSE), TRUE)
      BY <3>1 DEF Between
    <3> QED
      BY <2>3, <2>5, <3>1, <3>2
  <2> QED
    BY <2>2, <2>4, <2>5
<1> QED
  BY <1>1, <1>2, <1>3

\* Where an attempt stands after advance_after_phase.
Advanced(t, new) ==
    \/ InPhase(t, new)
    \/ Settled(t, new) /\ (t \in HasCleanup => ~Fresh(new, "CLEANUP"))

LEMMA AdvanceEffect ==
  ASSUME NEW t, NEW record, NEW completed \in HookPhases,
         NEW spawned \in [HookPhases -> BOOLEAN],
         Between(t, record, completed = "CLEANUP"),
         completed = "SETUP" => Fresh(record, "BODY")
  PROVE  LET new == Advance(t, record, completed, spawned)
         IN  Advanced(t, new) /\ new.attempt = record.attempt
<1> DEFINE after == AfterSetup(record, completed, spawned)
           next == BeforeCleanup(t, after, completed, spawned)
           judged == IF next.status = "" THEN [next EXCEPT !.status = "pass"] ELSE next
           new == Advance(t, record, completed, spawned)
<1>1. /\ after.attempt = record.attempt
      /\ InPhase(t, after) \/ Between(t, after, completed = "CLEANUP")
  BY AfterSetupEffect
<1> HIDE DEF after
<1>2. /\ next.attempt = record.attempt
      /\ \/ InPhase(t, next)
         \/ \E cleaned \in BOOLEAN : /\ Between(t, next, cleaned)
                                     /\ t \in HasCleanup => cleaned
  BY <1>1, BeforeCleanupEffect
<1>3. new = IF next.running THEN next ELSE FinishAttempt(t, judged)
  BY DEF Advance, after
<1> HIDE DEF next, judged, new
<1>4. CASE InPhase(t, next)
  BY <1>2, <1>3, <1>4 DEF InPhase, Advanced, new
<1>5. ASSUME NEW cleaned \in BOOLEAN, Between(t, next, cleaned), t \in HasCleanup => cleaned
      PROVE  Advanced(t, new) /\ new.attempt = record.attempt
  <2>1. ~next.running /\ (cleaned => ~Fresh(next, "CLEANUP"))
    BY <1>5 DEF Between
  <2>2. /\ Settled(t, FinishAttempt(t, judged))
        /\ FinishAttempt(t, judged).attempt = next.attempt
        /\ FinishAttempt(t, judged).log = next.log
    BY <1>5, FinishAttemptSettles DEF judged
  <2>3. Settled(t, new) /\ new.attempt = next.attempt /\ new.log = next.log
    BY <1>3, <2>1, <2>2
  <2>4. Fresh(new, "CLEANUP") <=> Fresh(next, "CLEANUP")
    BY <2>3, LogKept
  <2> QED
    BY <1>2, <1>5, <2>1, <2>3, <2>4 DEF Advanced
<1> QED
  BY <1>2, <1>4, <1>5 DEF new

\* start_attempt, on a test whose turn has come.
Waiting(t, record) ==
    /\ t \in Test \ Skipped
    /\ record \in Run
    /\ record.phase = "PENDING" /\ record.status = ""
    /\ ~record.held /\ ~record.running
    /\ LoggedOnce(record) /\ LogsPast(record)

LEMMA BeginAttemptEffect ==
  ASSUME NEW t, NEW record, Waiting(t, record), NEW spawned \in [HookPhases -> BOOLEAN]
  PROVE  Advanced(t, BeginAttempt(t, record, spawned))
<1> DEFINE first == IF t \in HasSetup THEN "SETUP" ELSE "BODY"
           claimed == [record EXCEPT !.held = TRUE, !.attempt = @ + 1]
           begun == Launch(claimed, first, spawned[first])
<1>0. PICK last \in Nat : record.attempt = last
  BY DEF Waiting, Run
<1>1. first \in HookPhases /\ first # "CLEANUP" /\ spawned[first] \in BOOLEAN
  BY DEF HookPhases
<1>2. /\ claimed \in Run /\ claimed.held /\ ~claimed.running /\ claimed.status = ""
      /\ claimed.attempt = last + 1 /\ claimed.log = record.log
  <2> DEFINE following == last + 1
  <2>1. record \in Run /\ ~record.running /\ record.status = ""
    BY DEF Waiting
  <2>2. following \in Nat
    OBVIOUS
  <2>3. claimed = [record EXCEPT !.held = TRUE, !.attempt = following]
    BY <1>0
  <2> HIDE DEF following, claimed
  <2>4. /\ claimed \in Run /\ claimed.held /\ ~claimed.running /\ claimed.status = ""
        /\ claimed.attempt = following /\ claimed.log = record.log
    BY <2>1, <2>2, <2>3 DEF Run
  <2> QED
    BY <2>4 DEF following
<1>3. BeginAttempt(t, record, spawned) =
        IF begun.running THEN begun ELSE Advance(t, begun, first, spawned)
  BY DEF BeginAttempt
<1> HIDE DEF first, claimed
<1>4. \A ph : Fresh(claimed, ph)
  <2> SUFFICES ASSUME NEW ph, NEW e \in record.log
               PROVE  e.action # <<ph, last + 1>>
    BY <1>2 DEF Fresh
  <2>1. PICK n \in Nat : e.action[2] = n
    BY DEF Waiting, Run, LogEntry, Action
  <2>2. e.action[2] <= last
    BY <1>0 DEF Waiting, LogsPast
  <2> QED
    BY <2>1, <2>2
<1>5. Verdict(claimed) = "pass"
  <2>1. \A ph : ExitIn(claimed, ph) = "not-run"
    BY <1>4, ExitFresh
  <2> QED
    BY <2>1 DEF Verdict
<1>6. LoggedOnce(claimed) /\ LogsPast(claimed)
  <2>1. \A e \in record.log : e.action[2] \in Nat
    BY DEF Waiting, Run, LogEntry, Action
  <2>2. LoggedOnce(claimed)
    BY <1>2 DEF Waiting, LoggedOnce
  <2>3. \A e \in record.log : e.action[2] <= last
    BY <1>0 DEF Waiting, LogsPast
  <2>4. ASSUME NEW e \in record.log
        PROVE  e.action[2] <= last + 1
    <3>1. PICK n \in Nat : e.action[2] = n
      BY <2>1
    <3> QED
      BY <2>3, <3>1
  <2> QED
    BY <1>2, <2>2, <2>4 DEF LogsPast
<1>7. UnderWay(t, claimed)
  <2>1. claimed.attempt # 0
    <3>1. last + 1 # 0
      OBVIOUS
    <3> QED
      BY <1>2, <3>1, Zenon
  <2>2. t \in Test \ Skipped
    BY DEF Waiting
  <2> QED
    BY <1>2, <1>5, <1>6, <2>1, <2>2 DEF UnderWay, StatusSoFar
<1>8. CASE spawned[first] = TRUE
  <2>1. InPhase(t, begun)
    BY <1>1, <1>2, <1>4, <1>7, <1>8, LaunchEnters
  <2> QED
    BY <1>3, <2>1 DEF Advanced, InPhase
<1>9. CASE spawned[first] = FALSE
  <2>1. /\ Between(t, begun, first = "CLEANUP")
        /\ \A q \in HookPhases \ {first} : Fresh(begun, q)
    BY <1>1, <1>2, <1>4, <1>7, <1>9, LaunchFailsBetween
  <2>2. first = "SETUP" => Fresh(begun, "BODY")
    BY <2>1 DEF HookPhases
  <2> HIDE DEF begun
  <2>3. Advanced(t, Advance(t, begun, first, spawned))
    BY <1>1, <2>1, <2>2, AdvanceEffect
  <2> QED
    BY <1>3, <2>1, <2>3 DEF Between
<1> QED
  BY <1>1, <1>8, <1>9

\* set_phase_result and the naming of the result, once a phase has ended.
Judge(record, completed, exit) ==
    IF completed = "CLEANUP"
    THEN NameResult(SetPhaseResult(record, completed, exit), completed)
    ELSE SetPhaseResult(NameResult(record, completed), completed, exit)

\* What set_phase_result makes of a status.
StatusAfter(status, completed, exit) ==
    CASE exit = "0" -> status
      [] exit = "timeout" /\ completed # "CLEANUP" -> "timeout"
      [] exit = "code" /\ completed = "BODY" -> "fail"
      [] OTHER -> "error"

\* Judging decides the status and the result; it leaves the rest alone.
LEMMA JudgeFields ==
  ASSUME NEW record \in Run, NEW completed \in HookPhases, NEW exit \in Exits
  PROVE  LET new == Judge(record, completed, exit)
         IN  /\ new \in Run
             /\ new.phase = record.phase /\ new.running = record.running
             /\ new.held = record.held /\ new.attempt = record.attempt
             /\ new.log = record.log
             /\ new.status = StatusAfter(record.status, completed, exit)
             /\ completed = "BODY" \/ (completed = "SETUP" /\ record.status = "")
                  => new.result = <<completed, record.attempt>>
             /\ completed = "CLEANUP" /\ new.status # "error"
                  => new.result = record.result
             /\ completed = "CLEANUP" /\ new.status = "error"
                  => new.result = <<completed, record.attempt>>
<1>1. record.attempt \in Nat /\ <<completed, record.attempt>> \in Action
  BY DEF Run, Action
<1>2. ASSUME NEW r \in Run, r.attempt = record.attempt
      PROVE  LET named == NameResult(r, completed)
             IN  /\ named \in Run
                 /\ named.phase = r.phase /\ named.running = r.running
                 /\ named.held = r.held /\ named.attempt = r.attempt
                 /\ named.log = r.log /\ named.status = r.status
                 /\ completed = "BODY" \/ (completed = "SETUP" /\ r.status = "")
                      => named.result = <<completed, record.attempt>>
                 /\ completed = "CLEANUP" /\ r.status # "error"
                      => named.result = r.result
                 /\ completed = "CLEANUP" /\ r.status = "error"
                      => named.result = <<completed, record.attempt>>
  BY <1>1, <1>2 DEF NameResult, Run
<1>3. ASSUME NEW r \in Run
      PROVE  LET set == SetPhaseResult(r, completed, exit)
             IN  /\ set \in Run
                 /\ set.phase = r.phase /\ set.running = r.running
                 /\ set.held = r.held /\ set.attempt = r.attempt
                 /\ set.log = r.log /\ set.result = r.result
                 /\ set.status = StatusAfter(r.status, completed, exit)
  <2>1. CASE exit = "0"
    BY <2>1 DEF SetPhaseResult, StatusAfter
  <2>2. CASE exit = "timeout" /\ completed # "CLEANUP"
    BY <2>2 DEF SetPhaseResult, StatusAfter, Run, Statuses, Failures
  <2>3. CASE exit = "code" /\ completed = "BODY"
    BY <2>3 DEF SetPhaseResult, StatusAfter, Run, Statuses, Failures
  <2>4. CASE ~(\/ exit = "0"
               \/ exit = "timeout" /\ completed # "CLEANUP"
               \/ exit = "code" /\ completed = "BODY")
    BY <2>4 DEF SetPhaseResult, StatusAfter, Run, Statuses, Failures
  <2> QED
    BY <2>1, <2>2, <2>3, <2>4
<1>4. CASE completed = "CLEANUP"
  <2> DEFINE set == SetPhaseResult(record, completed, exit)
  <2>1. /\ set \in Run
        /\ set.phase = record.phase /\ set.running = record.running
        /\ set.held = record.held /\ set.attempt = record.attempt
        /\ set.log = record.log /\ set.result = record.result
        /\ set.status = StatusAfter(record.status, completed, exit)
    BY <1>3
  <2> HIDE DEF set
  <2> DEFINE new == NameResult(set, completed)
  <2>2. /\ new \in Run
        /\ new.phase = set.phase /\ new.running = set.running
        /\ new.held = set.held /\ new.attempt = set.attempt
        /\ new.log = set.log /\ new.status = set.status
        /\ set.status # "error" => new.result = set.result
        /\ set.status = "error" => new.result = <<completed, record.attempt>>
    BY <1>2, <1>4, <2>1
  <2>3. new = Judge(record, completed, exit)
    BY <1>4 DEF Judge, set
  <2> HIDE DEF new
  <2> QED
    BY <1>4, <2>1, <2>2, <2>3
<1>5. CASE completed # "CLEANUP"
  <2> DEFINE named == NameResult(record, completed)
  <2>1. /\ named \in Run
        /\ named.phase = record.phase /\ named.running = record.running
        /\ named.held = record.held /\ named.attempt = record.attempt
        /\ named.log = record.log /\ named.status = record.status
        /\ completed = "BODY" \/ (completed = "SETUP" /\ record.status = "")
             => named.result = <<completed, record.attempt>>
    BY <1>2
  <2> HIDE DEF named
  <2> DEFINE new == SetPhaseResult(named, completed, exit)
  <2>2. /\ new \in Run
        /\ new.phase = named.phase /\ new.running = named.running
        /\ new.held = named.held /\ new.attempt = named.attempt
        /\ new.log = named.log /\ new.result = named.result
        /\ new.status = StatusAfter(named.status, completed, exit)
    BY <1>3, <2>1
  <2>3. new = Judge(record, completed, exit)
    BY <1>5 DEF Judge, named
  <2> HIDE DEF new
  <2> QED
    BY <1>5, <2>1, <2>2, <2>3
<1> QED
  BY <1>4, <1>5

\* The table's verdict, once a running phase has ended in some way, is what
\* set_phase_result makes of the status; and the result is named as it should.
LEMMA JudgedRight ==
  ASSUME NEW t, NEW record, InPhase(t, record), NEW new \in Run,
         NEW exit \in Exits \ {"spawn-error"},
         new.attempt = record.attempt,
         new.status = StatusAfter(record.status, record.phase, exit),
         record.phase = "BODY" \/ (record.phase = "SETUP" /\ record.status = "")
           => new.result = <<record.phase, record.attempt>>,
         record.phase = "CLEANUP" /\ new.status # "error" => new.result = record.result,
         record.phase = "CLEANUP" /\ new.status = "error"
           => new.result = <<record.phase, record.attempt>>,
         ExitIn(new, record.phase) = exit,
         \A q \in HookPhases \ {record.phase} : ExitIn(new, q) = ExitIn(record, q)
  PROVE  StatusSoFar(new) /\ Named(new)
<1>0. /\ record \in Run /\ StatusSoFar(record)
      /\ ExitIn(record, record.phase) = "not-run"
      /\ ExitIn(record, "CLEANUP") = "not-run"
      /\ record.phase \in HookPhases
  BY ExitFresh DEF InPhase, UnderWay
<1>1. \A ph : ExitIn(record, ph) \in Exits \cup {"not-run"}
  BY <1>0, ExitType
<1>2. Verdict(record) \in {"pass", "fail", "error", "timeout"}
  BY <1>0, VerdictType
<1>3. CASE record.phase = "SETUP"
  <2>1. ExitIn(record, "BODY") = "not-run"
    BY <1>3, ExitFresh DEF InPhase
  <2>2. Verdict(record) = "pass"
    BY <1>0, <1>3, <2>1 DEF Verdict
  <2>3. record.status = ""
    BY <1>0, <2>2 DEF StatusSoFar
  <2>4. /\ ExitIn(new, "SETUP") = exit
        /\ ExitIn(new, "BODY") = "not-run"
        /\ ExitIn(new, "CLEANUP") = "not-run"
    BY <1>0, <1>3, <2>1 DEF HookPhases
  <2>5. Verdict(new) = (IF exit = "0" THEN "pass"
                        ELSE IF exit = "timeout" THEN "timeout" ELSE "error")
    BY <2>4 DEF Verdict, Exits
  <2>6. new.status = (IF exit = "0" THEN ""
                      ELSE IF exit = "timeout" THEN "timeout" ELSE "error")
    BY <1>3, <2>3 DEF StatusAfter
  <2>7. new.result[1] = "SETUP" /\ new.result[2] = new.attempt
    <3>1. new.result = <<record.phase, record.attempt>>
      BY <1>3, <2>3
    <3> QED
      BY <1>3, <3>1
  <2>8. Named(new)
    BY <2>4, <2>6, <2>7 DEF Named, Exits, ErrorExits
  <2> QED
    BY <2>5, <2>6, <2>8 DEF StatusSoFar
<1>4. CASE record.phase = "BODY"
  <2>1. record.status = ""
    BY <1>4 DEF InPhase
  <2>2. Verdict(record) = "pass"
    BY <1>0, <1>2, <2>1 DEF StatusSoFar
  <2>3. ExitIn(record, "SETUP") \in {"0", "not-run"}
    BY <1>1, <2>2 DEF Verdict, Exits
  <2>4. /\ ExitIn(new, "BODY") = exit
        /\ ExitIn(new, "SETUP") \in {"0", "not-run"}
        /\ ExitIn(new, "CLEANUP") = "not-run"
    BY <1>0, <1>4, <2>3 DEF HookPhases
  <2>5. Verdict(new) = (IF exit = "0" THEN "pass"
                        ELSE IF exit = "timeout" THEN "timeout"
                        ELSE IF exit = "code" THEN "fail" ELSE "error")
    BY <2>4 DEF Verdict, Exits
  <2>6. new.status = (IF exit = "0" THEN ""
                      ELSE IF exit = "timeout" THEN "timeout"
                      ELSE IF exit = "code" THEN "fail" ELSE "error")
    BY <1>4, <2>1 DEF StatusAfter
  <2>7. new.result[1] = "BODY" /\ new.result[2] = new.attempt
    BY <1>4
  <2>8. Named(new)
    BY <2>4, <2>6, <2>7 DEF Named, Exits, ErrorExits
  <2> QED
    BY <2>5, <2>6, <2>8 DEF StatusSoFar
<1>5. CASE record.phase = "CLEANUP"
  <2>1. /\ ExitIn(new, "CLEANUP") = exit
        /\ ExitIn(new, "SETUP") = ExitIn(record, "SETUP")
        /\ ExitIn(new, "BODY") = ExitIn(record, "BODY")
    BY <1>5 DEF HookPhases
  <2>2. CASE exit = "0"
    <3>1. new.status = record.status
      BY <2>2 DEF StatusAfter
    <3>2. Verdict(new) = Verdict(record)
      BY <1>0, <2>1, <2>2 DEF Verdict
    <3>3. record.status # "error" => new.result = record.result
      BY <1>5, <3>1
    <3>4. Named(record)
      BY <1>5 DEF InPhase
    <3>5. Named(new)
      <4>1. CASE record.status = "error"
        <5>1. new.result = <<"CLEANUP", new.attempt>>
          BY <1>5, <3>1, <4>1
        <5>2. ExitIn(new, "CLEANUP") = "0"
          BY <1>5, <2>2
        <5> QED
          BY <3>1, <4>1, <5>1, <5>2 DEF Named
      <4>2. CASE record.status # "error"
        BY <2>1, <3>1, <3>3, <3>4, <4>2 DEF Named
      <4> QED
        BY <4>1, <4>2
    <3> QED
      BY <1>0, <3>1, <3>2, <3>5 DEF StatusSoFar
  <2>3. CASE exit # "0"
    <3>1. new.status = "error"
      BY <1>5, <2>3 DEF StatusAfter
    <3>2. Verdict(new) = "error"
      BY <2>1, <2>3 DEF Verdict, Exits
    <3>3. new.result = <<record.phase, record.attempt>>
      BY <1>5, <3>1
    <3>4. ExitIn(new, "CLEANUP") = exit /\ exit \in ErrorExits("CLEANUP")
      BY <1>5, <2>3 DEF ErrorExits
    <3>5. new.result[1] = "CLEANUP" /\ new.result[2] = new.attempt
      BY <1>5, <3>3
    <3>6. Named(new)
      BY <2>3, <3>1, <3>4, <3>5 DEF Named
    <3> QED
      BY <3>1, <3>2, <3>6 DEF StatusSoFar
  <2> QED
    BY <2>2, <2>3
<1> QED
  BY <1>0, <1>3, <1>4, <1>5 DEF HookPhases

LEMMA EndPhaseEffect ==
  ASSUME NEW t, NEW record, InPhase(t, record),
         NEW exit \in Exits \ {"spawn-error"},
         NEW spawned \in [HookPhases -> BOOLEAN]
  PROVE  LET new == EndPhase(t, record, exit, spawned)
         IN  Advanced(t, new) /\ new.attempt = record.attempt
<1> DEFINE completed == record.phase
           stopped == [record EXCEPT !.running = FALSE]
           logged == LogExit(stopped, completed, exit)
           judged == Judge(logged, completed, exit)
<1>0. /\ record \in Run /\ record.held /\ record.attempt # 0
      /\ t \in Test \ Skipped
      /\ completed \in HookPhases
      /\ LoggedOnce(record) /\ LogsPast(record)
      /\ Fresh(record, completed)
  BY DEF InPhase, UnderWay
<1>1. /\ stopped \in Run /\ ~stopped.running /\ stopped.held
      /\ stopped.phase = record.phase /\ stopped.attempt = record.attempt
      /\ stopped.status = record.status /\ stopped.result = record.result
      /\ stopped.log = record.log
  BY <1>0 DEF Run
<1>2. /\ logged.log = record.log \cup
                        {[action |-> <<completed, record.attempt>>, exit |-> exit]}
      /\ logged = [stopped EXCEPT !.log = logged.log]
  <2> HIDE DEF stopped
  <2>1. /\ logged.log = stopped.log \cup
                        {[action |-> <<completed, stopped.attempt>>, exit |-> exit]}
        /\ logged = [stopped EXCEPT !.log = logged.log]
    BY <1>1, LogExitFields
  <2> QED
    BY <1>1, <2>1
<1>3. EndPhase(t, record, exit, spawned) = Advance(t, judged, completed, spawned)
  BY DEF EndPhase, Judge
<1> HIDE DEF stopped, logged
<1>4. /\ ~logged.running /\ logged.held
      /\ logged.phase = record.phase /\ logged.attempt = record.attempt
      /\ logged.status = record.status /\ logged.result = record.result
  BY <1>1, <1>2 DEF Run
<1>5. /\ logged.log \in SUBSET LogEntry
      /\ LoggedOnce(logged) /\ LogsPast(logged)
      /\ ExitIn(logged, completed) = exit
      /\ ~Fresh(logged, completed)
      /\ \A q \in HookPhases \ {completed} : /\ ExitIn(logged, q) = ExitIn(record, q)
                                             /\ Fresh(record, q) => Fresh(logged, q)
  BY <1>0, <1>2, <1>4, LogGrows
<1>6. logged \in Run
  BY <1>1, <1>2, <1>5 DEF Run
<1>e. exit \in Exits
  OBVIOUS
<1>7. /\ judged \in Run
      /\ judged.phase = logged.phase /\ judged.running = logged.running
      /\ judged.held = logged.held /\ judged.attempt = logged.attempt
      /\ judged.log = logged.log
      /\ judged.status = StatusAfter(logged.status, completed, exit)
      /\ completed = "BODY" \/ (completed = "SETUP" /\ logged.status = "")
           => judged.result = <<completed, logged.attempt>>
      /\ completed = "CLEANUP" /\ judged.status # "error"
           => judged.result = logged.result
      /\ completed = "CLEANUP" /\ judged.status = "error"
           => judged.result = <<completed, logged.attempt>>
  BY <1>0, <1>6, <1>e, JudgeFields
<1> HIDE DEF judged
<1>8. /\ LoggedOnce(judged) /\ LogsPast(judged)
      /\ \A q : /\ ExitIn(judged, q) = ExitIn(logged, q)
                /\ Fresh(judged, q) <=> Fresh(logged, q)
  BY <1>5, <1>7, LogKept
<1>9. StatusSoFar(judged) /\ Named(judged)
  <2>1. /\ judged \in Run
        /\ judged.attempt = record.attempt
        /\ judged.status = StatusAfter(record.status, record.phase, exit)
    BY <1>4, <1>7
  <2>2. record.phase = "BODY" \/ (record.phase = "SETUP" /\ record.status = "")
          => judged.result = <<record.phase, record.attempt>>
    BY <1>4, <1>7
  <2>3. record.phase = "CLEANUP" /\ judged.status # "error"
          => judged.result = record.result
    BY <1>4, <1>7
  <2>5. record.phase = "CLEANUP" /\ judged.status = "error"
          => judged.result = <<record.phase, record.attempt>>
    BY <1>4, <1>7
  <2>4. /\ ExitIn(judged, record.phase) = exit
        /\ \A q \in HookPhases \ {record.phase} : ExitIn(judged, q) = ExitIn(record, q)
    BY <1>5, <1>8
  <2> QED
    BY <2>1, <2>2, <2>3, <2>4, <2>5, JudgedRight
<1>10. UnderWay(t, judged)
  BY <1>0, <1>4, <1>7, <1>8, <1>9 DEF UnderWay
<1>11. Fresh(judged, "CLEANUP") <=> completed # "CLEANUP"
  <2>1. Fresh(record, "CLEANUP") /\ "CLEANUP" \in HookPhases
    BY DEF InPhase, HookPhases
  <2> QED
    BY <1>5, <1>8, <2>1
<1>12. Between(t, judged, completed = "CLEANUP")
  BY <1>0, <1>4, <1>7, <1>9, <1>10, <1>11 DEF Between
<1>13. completed = "SETUP" => Fresh(judged, "BODY")
  <2>1. completed = "SETUP" => Fresh(record, "BODY")
    BY DEF InPhase
  <2> QED
    BY <1>5, <1>8, <2>1 DEF HookPhases
<1>14. /\ Advanced(t, Advance(t, judged, completed, spawned))
       /\ Advance(t, judged, completed, spawned).attempt = judged.attempt
  BY <1>0, <1>12, <1>13, AdvanceEffect
<1> QED
  BY <1>3, <1>4, <1>7, <1>14

-----------------------------------------------------------------------------
\* The inductive invariant.

Sound(t, record) ==
    \/ t \in Skipped /\ record = NewRun(t)
    \/ t \in Test \ Skipped /\ (InPhase(t, record) \/ Settled(t, record))

DoneTests == {t \in Test : run[t].phase = "DONE"}

Processes ==
    /\ \A t \in Test : proc[t] \in Alive => run[t].running
    /\ stage = "returned" => \A t \in Test : proc[t] \notin Alive

Doneness ==
    /\ doneCount = Cardinality(DoneTests)
    /\ stage = "report" => DoneTests = Test

IInv ==
    /\ TypeOK
    /\ \A t \in Test : Sound(t, run[t])
    /\ Ledger
    /\ Doneness
    /\ Processes

-----------------------------------------------------------------------------
\* Counting.

LEMMA Constants ==
  /\ TestCount \in Nat /\ Jobs \in Nat \ {0}
  /\ IsFiniteSet(Test) /\ Cardinality(Test) = TestCount
  /\ \A S \in SUBSET Test : IsFiniteSet(S) /\ Cardinality(S) \in 0..TestCount
  /\ Skipped \subseteq Test
<1>1. TestCount \in Nat /\ Jobs \in Nat \ {0} /\ Skipped \subseteq Test
  BY TestAssumption
<1>2. IsFiniteSet(Test) /\ Cardinality(Test) = TestCount
  BY <1>1, FS_Interval DEF Test
<1>3. ASSUME NEW S \in SUBSET Test
      PROVE  IsFiniteSet(S) /\ Cardinality(S) \in 0..TestCount
  <2>1. IsFiniteSet(S) /\ Cardinality(S) <= TestCount
    BY <1>2, FS_Subset
  <2>2. Cardinality(S) \in Nat
    BY <2>1, FS_CardinalityType
  <2> QED
    BY <1>1, <2>1, <2>2
<1> QED
  BY <1>1, <1>2, <1>3

LEMMA ResourceBounds ==
  ASSUME NEW r \in Resource
  PROVE  /\ Capacity[r] \in Nat \ {0}
         /\ \A t \in Test : Request[t][r] \in Nat /\ Request[t][r] <= Capacity[r]
<1>1. Capacity \in [Resource -> Nat \ {0}] /\ Request \in [Test -> [Resource -> Nat]]
  BY ResourceAssumption DEF ValidTestResources
<1>2. \A t \in Test, q \in Resource : Request[t][q] <= Capacity[q]
  BY ResourceAssumption DEF ValidTestResources
<1> QED
  BY <1>1, <1>2

\* A set is what it has outside a block and what it has of the block.
LEMMA BlockSplit ==
  ASSUME NEW S, IsFiniteSet(S), NEW B
  PROVE  /\ Cardinality(S) = Cardinality(S \ B) + Cardinality(S \cap B)
         /\ Cardinality(S) \in Nat /\ Cardinality(S \ B) \in Nat
         /\ Cardinality(S \cap B) \in Nat
<1>1. Cardinality(S) \in Nat /\ Cardinality(S \cap B) \in Nat
  BY FS_Intersection, FS_CardinalityType
<1>2. Cardinality(S \ B) = Cardinality(S) - Cardinality(S \cap B)
  BY FS_Difference
<1>3. Cardinality(S \ B) \in Nat
  BY FS_Difference, FS_CardinalityType
<1> QED
  BY ONLY <1>1, <1>2, <1>3

LEMMA MemberCount ==
  ASSUME NEW S, IsFiniteSet(S), NEW T, IsFiniteSet(T), NEW x, T \ {x} = S \ {x}
  PROVE  /\ Cardinality(T) = Cardinality(S) + (IF x \in T THEN 1 ELSE 0)
                                            - (IF x \in S THEN 1 ELSE 0)
         /\ Cardinality(T) \in Nat /\ Cardinality(S) \in Nat
<1>1. ASSUME NEW U PROVE Cardinality(U \cap {x}) = IF x \in U THEN 1 ELSE 0
  <2>1. CASE x \in U
    <3>1. U \cap {x} = {x}
      BY <2>1
    <3> QED
      BY <2>1, <3>1, FS_Singleton
  <2>2. CASE x \notin U
    <3>1. U \cap {x} = {}
      BY <2>2
    <3> QED
      BY <2>2, <3>1, FS_EmptySet
  <2> QED
    BY <2>1, <2>2
<1>2. /\ Cardinality(T) = Cardinality(S) + Cardinality(T \cap {x}) - Cardinality(S \cap {x})
      /\ Cardinality(T) \in Nat /\ Cardinality(S) \in Nat
  <2> DEFINE B == {x}
  <2>1. IsFiniteSet(S) /\ IsFiniteSet(T) /\ T \ B = S \ B
    OBVIOUS
  <2> HIDE DEF B
  <2>2. /\ Cardinality(S) = Cardinality(S \ B) + Cardinality(S \cap B)
        /\ Cardinality(S) \in Nat /\ Cardinality(S \ B) \in Nat /\ Cardinality(S \cap B) \in Nat
    BY ONLY <2>1, BlockSplit
  <2>3. /\ Cardinality(T) = Cardinality(T \ B) + Cardinality(T \cap B)
        /\ Cardinality(T) \in Nat /\ Cardinality(T \cap B) \in Nat
    BY ONLY <2>1, BlockSplit
  <2>5. Cardinality(T \ B) = Cardinality(S \ B)
    BY ONLY <2>1, Zenon
  <2>4. /\ Cardinality(T) = Cardinality(S) + Cardinality(T \cap B) - Cardinality(S \cap B)
        /\ Cardinality(T) \in Nat /\ Cardinality(S) \in Nat
    BY ONLY <2>2, <2>3, <2>5
  <2> QED
    BY <2>4 DEF B
<1>3. /\ Cardinality(T \cap {x}) = IF x \in T THEN 1 ELSE 0
      /\ Cardinality(S \cap {x}) = IF x \in S THEN 1 ELSE 0
  BY <1>1
<1> QED
  BY <1>2, <1>3

\* The units of r that an attempt of t claims.
Block(t, r) == {t} \X (1..Request[t][r])

LEMMA BlockSize ==
  ASSUME NEW t \in Test, NEW r \in Resource
  PROVE  IsFiniteSet(Block(t, r)) /\ Cardinality(Block(t, r)) = Request[t][r]
<1>1. Request[t][r] \in Nat
  BY ResourceBounds
<1>2. IsFiniteSet({t}) /\ Cardinality({t}) = 1
  BY FS_Singleton
<1>3. IsFiniteSet(1..Request[t][r]) /\ Cardinality(1..Request[t][r]) = Request[t][r]
  <2> DEFINE n == Request[t][r]
  <2>1. n \in Nat
    BY <1>1
  <2> HIDE DEF n
  <2>2. IsFiniteSet(1..n) /\ Cardinality(1..n) = n
    BY <2>1, FS_Interval
  <2> QED
    BY <2>2 DEF n
<1>4. /\ IsFiniteSet(Block(t, r))
      /\ Cardinality(Block(t, r)) = Cardinality({t}) * Cardinality(1..Request[t][r])
  BY <1>2, <1>3, FS_Product DEF Block
<1> QED
  BY <1>1, <1>2, <1>3, <1>4

LEMMA UnitsFinite ==
  ASSUME NEW r \in Resource
  PROVE  /\ IsFiniteSet(Units(r)) /\ IsFiniteSet(Units(r)')
         /\ \A t \in Test : Units(r) \cap Block(t, r) = IF run[t].held THEN Block(t, r) ELSE {}
         /\ \A t \in Test : Units(r)' \cap Block(t, r) = IF run'[t].held THEN Block(t, r) ELSE {}
<1> DEFINE All == Test \X (1..Capacity[r])
<1>1. IsFiniteSet(All)
  <2>1. IsFiniteSet(Test) /\ Capacity[r] \in Int /\ 1 \in Int
    BY Constants, ResourceBounds
  <2>2. IsFiniteSet(1..Capacity[r])
    BY <2>1, FS_Interval
  <2> QED
    BY <2>1, <2>2, FS_Product
<1>2. /\ Units(r) = {u \in All : run[u[1]].held /\ u[2] <= Request[u[1]][r]}
      /\ Units(r)' = {u \in All : run'[u[1]].held /\ u[2] <= Request[u[1]][r]}
  BY DEF Units
<1>3. IsFiniteSet(Units(r)) /\ IsFiniteSet(Units(r)')
  <2>1. Units(r) \subseteq All /\ Units(r)' \subseteq All
    BY <1>2
  <2> QED
    BY <1>1, <2>1, FS_Subset
<1>4. ASSUME NEW t \in Test
      PROVE  /\ \A u \in Block(t, r) : /\ u \in All
                                       /\ u[1] = t
                                       /\ u[2] <= Request[u[1]][r]
  <2>1. Request[t][r] \in Nat /\ Request[t][r] <= Capacity[r] /\ Capacity[r] \in Nat
    BY ResourceBounds
  <2> SUFFICES ASSUME NEW k \in 1..Request[t][r]
               PROVE  k \in 1..Capacity[r] /\ k <= Request[t][r]
    BY DEF Block
  <2> QED
    BY <2>1
<1>5. ASSUME NEW t \in Test
      PROVE  /\ Units(r) \cap Block(t, r) = IF run[t].held THEN Block(t, r) ELSE {}
             /\ Units(r)' \cap Block(t, r) = IF run'[t].held THEN Block(t, r) ELSE {}
  BY <1>2, <1>4
<1> QED
  BY <1>3, <1>5

LEMMA UnitsChange ==
  ASSUME NEW r \in Resource, run \in [Test -> Run], NEW t \in Test, NEW new \in Run,
         run' = [run EXCEPT ![t] = new]
  PROVE  /\ Cardinality(Units(r)') =
              Cardinality(Units(r)) + Claim(t, new, r) - Claim(t, run[t], r)
         /\ Cardinality(Units(r)) \in Nat /\ Cardinality(Units(r)') \in Nat
<1>1. /\ IsFiniteSet(Units(r)) /\ IsFiniteSet(Units(r)')
      /\ Units(r) \cap Block(t, r) = IF run[t].held THEN Block(t, r) ELSE {}
      /\ Units(r)' \cap Block(t, r) = IF run'[t].held THEN Block(t, r) ELSE {}
  BY UnitsFinite
<1>2. run'[t] = new /\ \A s \in Test \ {t} : run'[s] = run[s]
  OBVIOUS
<1>3. Units(r)' \ Block(t, r) = Units(r) \ Block(t, r)
  <2>1. Request[t][r] \in Nat /\ Capacity[r] \in Nat
    BY ResourceBounds
  <2>2. ASSUME NEW u \in Test \X (1..Capacity[r]), u \notin Block(t, r)
        PROVE  u \in Units(r)' <=> u \in Units(r)
    <3>1. CASE u[1] = t
      <4>1. ~(u[2] <= Request[t][r])
        BY <2>1, <2>2, <3>1 DEF Block
      <4> QED
        BY <3>1, <4>1 DEF Units
    <3>2. CASE u[1] # t
      <4>1. run'[u[1]] = run[u[1]]
        BY <1>2, <3>2
      <4> QED
        BY <4>1 DEF Units
    <3> QED
      BY <3>1, <3>2
  <2>3. /\ Units(r) \subseteq Test \X (1..Capacity[r])
        /\ Units(r)' \subseteq Test \X (1..Capacity[r])
    BY DEF Units
  <2> QED
    BY <2>2, <2>3
<1>4. /\ Cardinality(Units(r) \cap Block(t, r)) = Claim(t, run[t], r)
      /\ Cardinality(Units(r)' \cap Block(t, r)) = Claim(t, new, r)
  <2>1. ASSUME NEW held \in BOOLEAN, NEW B, B = IF held THEN Block(t, r) ELSE {}
        PROVE  Cardinality(B) = IF held THEN Request[t][r] ELSE 0
    <3>1. Cardinality(Block(t, r)) = Request[t][r] /\ Cardinality({}) = 0
      BY BlockSize, FS_EmptySet
    <3> QED
      BY <2>1, <3>1
  <2>2. run[t].held \in BOOLEAN /\ run'[t].held \in BOOLEAN
    BY <1>2 DEF Run
  <2>3. /\ Cardinality(Units(r) \cap Block(t, r)) = IF run[t].held THEN Request[t][r] ELSE 0
        /\ Cardinality(Units(r)' \cap Block(t, r)) = IF run'[t].held THEN Request[t][r] ELSE 0
    BY <1>1, <2>1, <2>2, Zenon
  <2> QED
    BY <1>2, <2>3 DEF Claim
<1>5. /\ Cardinality(Units(r)') = Cardinality(Units(r))
            + Cardinality(Units(r)' \cap Block(t, r)) - Cardinality(Units(r) \cap Block(t, r))
      /\ Cardinality(Units(r)) \in Nat /\ Cardinality(Units(r)') \in Nat
  <2> DEFINE S == Units(r)
             T == Units(r)'
             B == Block(t, r)
  <2>1. IsFiniteSet(S) /\ IsFiniteSet(T) /\ T \ B = S \ B
    BY <1>1, <1>3
  <2> HIDE DEF S, T, B
  <2>2. /\ Cardinality(S) = Cardinality(S \ B) + Cardinality(S \cap B)
        /\ Cardinality(S) \in Nat /\ Cardinality(S \ B) \in Nat /\ Cardinality(S \cap B) \in Nat
    BY ONLY <2>1, BlockSplit
  <2>3. /\ Cardinality(T) = Cardinality(T \ B) + Cardinality(T \cap B)
        /\ Cardinality(T) \in Nat /\ Cardinality(T \cap B) \in Nat
    BY ONLY <2>1, BlockSplit
  <2>5. Cardinality(T \ B) = Cardinality(S \ B)
    BY ONLY <2>1, Zenon
  <2>4. /\ Cardinality(T) = Cardinality(S) + Cardinality(T \cap B) - Cardinality(S \cap B)
        /\ Cardinality(T) \in Nat /\ Cardinality(S) \in Nat
    BY ONLY <2>2, <2>3, <2>5
  <2> QED
    BY <2>4 DEF S, T, B
<1> QED
  BY <1>4, <1>5

-----------------------------------------------------------------------------
\* The steps.

LEMMA SoundRecord ==
  ASSUME NEW t \in Test, NEW record, Sound(t, record)
  PROVE  /\ record.held <=> record.running
         /\ record.held <=> record.phase \in HookPhases
         /\ record.held => InPhase(t, record)
         /\ record.phase = "PENDING" => Waiting(t, record)
<1>1. CASE t \in Skipped /\ record = NewRun(t)
  BY <1>1 DEF NewRun, HookPhases
<1>2. CASE t \in Test \ Skipped /\ InPhase(t, record)
  BY <1>2 DEF InPhase, UnderWay, HookPhases
<1>3. CASE t \in Test \ Skipped /\ Settled(t, record)
  BY <1>3 DEF Settled, Waiting, HookPhases
<1> QED
  BY <1>1, <1>2, <1>3 DEF Sound

LEMMA AdvancedRecord ==
  ASSUME NEW t \in Test \ Skipped, NEW new, Advanced(t, new)
  PROVE  /\ new \in Run
         /\ Sound(t, new)
         /\ new.held <=> new.running
         /\ new.phase = "DONE" => ~new.held
BY DEF Advanced, Sound, InPhase, UnderWay, Settled, HookPhases

LEMMA InitSound == Init => IInv
<1> SUFFICES ASSUME Init PROVE IInv
  OBVIOUS
<1> USE DEF Init
<1>1. \A t \in Test : run[t] = NewRun(t) /\ ~run[t].held /\ ~run[t].running
  BY DEF NewRun
<1>2. \A t \in Test : NewRun(t) \in Run
  BY DEF NewRun, Run, Phases, Statuses, NoAction
<1>3. /\ TestCount \in Nat /\ Jobs \in Nat \ {0}
      /\ Cardinality(Skipped) \in 0..TestCount
      /\ IsFiniteSet(Test) /\ Cardinality(Test) = TestCount
  BY Constants
<1>4. TypeOK
  <2>1. \A r \in Resource : 0 \in 0..Capacity[r]
    BY ResourceBounds
  <2>2. run \in [Test -> Run]
    BY <1>1, <1>2
  <2>3. used \in [Resource -> Int]
    OBVIOUS
  <2>4. proc \in [Test -> ProcStates]
    BY DEF ProcStates
  <2> QED
    BY <1>3, <2>1, <2>2, <2>3, <2>4 DEF TypeOK
<1>5. ASSUME NEW t \in Test PROVE Sound(t, run[t])
  <2>1. CASE t \in Skipped
    BY <1>1, <2>1 DEF Sound
  <2>2. CASE t \notin Skipped
    <3>1. Settled(t, NewRun(t))
      BY <1>2, <2>2 DEF Settled, NewRun, LoggedOnce, LogsPast
    <3> QED
      BY <1>1, <2>2, <3>1 DEF Sound
  <2> QED
    BY <2>1, <2>2
<1>6. Ledger
  <2>1. Held = {} /\ \A r \in Resource : Units(r) = {}
    BY <1>1 DEF Held, Units
  <2> QED
    BY <2>1, FS_EmptySet DEF Ledger
<1>7. Doneness
  <2>1. DoneTests = Skipped
    BY <1>1, Constants DEF DoneTests, NewRun
  <2>2. Cardinality(Skipped) = TestCount => Skipped = Test
    BY <1>3, Constants, FS_Subset
  <2> QED
    BY <1>3, <2>1, <2>2 DEF Doneness
<1>8. Processes
  BY <1>3 DEF Processes, Alive
<1> QED
  BY <1>4, <1>5, <1>6, <1>7, <1>8 DEF IInv

LEMMA HeldChange ==
  ASSUME run \in [Test -> Run], NEW t \in Test, NEW new \in Run,
         run' = [run EXCEPT ![t] = new]
  PROVE  /\ Cardinality(Held') = Cardinality(Held) + (IF new.held THEN 1 ELSE 0)
                                                   - (IF run[t].held THEN 1 ELSE 0)
         /\ Cardinality(DoneTests') = Cardinality(DoneTests)
                                        + (IF new.phase = "DONE" THEN 1 ELSE 0)
                                        - (IF run[t].phase = "DONE" THEN 1 ELSE 0)
         /\ Cardinality(Held) \in Nat /\ Cardinality(DoneTests) \in Nat
<1>1. run'[t] = new /\ \A s \in Test \ {t} : run'[s] = run[s]
  OBVIOUS
<1>2. /\ IsFiniteSet(Held) /\ IsFiniteSet(Held')
      /\ IsFiniteSet(DoneTests) /\ IsFiniteSet(DoneTests')
  BY Constants DEF Held, DoneTests
<1>3. Held' \ {t} = Held \ {t} /\ (t \in Held' <=> new.held) /\ (t \in Held <=> run[t].held)
  BY <1>1 DEF Held
<1>4. /\ DoneTests' \ {t} = DoneTests \ {t}
      /\ t \in DoneTests' <=> new.phase = "DONE"
      /\ t \in DoneTests <=> run[t].phase = "DONE"
  BY <1>1 DEF DoneTests
<1>5. /\ Cardinality(Held') = Cardinality(Held) + (IF t \in Held' THEN 1 ELSE 0)
                                                - (IF t \in Held THEN 1 ELSE 0)
      /\ Cardinality(Held) \in Nat
  BY <1>2, <1>3, MemberCount
<1>6. /\ Cardinality(DoneTests') = Cardinality(DoneTests)
              + (IF t \in DoneTests' THEN 1 ELSE 0) - (IF t \in DoneTests THEN 1 ELSE 0)
      /\ Cardinality(DoneTests) \in Nat
  BY <1>2, <1>4, MemberCount
<1> QED
  BY <1>3, <1>4, <1>5, <1>6

\* A step that replaces the record of one test by what its attempt makes of
\* it, when an attempt that is begun finds its place and its resources.
LEMMA RecordStep ==
  ASSUME IInv, NEW t \in Test \ Skipped, run[t].phase # "DONE",
         NEW new, Advanced(t, new), Record(t, new),
         ~run[t].held => holders < Jobs /\ Available(t),
         stage \in {"launch", "poll"}, stage' = stage, verdict' = verdict,
         scan <= TestCount, scan' = scan + 1
  PROVE  IInv'
<1>1. /\ new \in Run /\ Sound(t, new) /\ (new.held <=> new.running)
      /\ new.phase = "DONE" => ~new.held
  BY AdvancedRecord
<1>2. run \in [Test -> Run] /\ TypeOK /\ Ledger /\ Doneness /\ Processes
  BY DEF IInv, TypeOK
<1>3. run' = [run EXCEPT ![t] = new]
  BY DEF Record
<1>4. /\ used' = [r \in Resource |-> used[r] + Claim(t, new, r) - Claim(t, run[t], r)]
      /\ holders' = holders + (IF new.held THEN 1 ELSE 0) - (IF run[t].held THEN 1 ELSE 0)
      /\ doneCount' = doneCount + (IF new.phase = "DONE" THEN 1 ELSE 0)
  BY DEF Record, Account
<1>5. \A r \in Resource : used'[r] = Cardinality(Units(r)') /\ used'[r] \in Nat
  <2> SUFFICES ASSUME NEW r \in Resource
               PROVE  used'[r] = Cardinality(Units(r)') /\ used'[r] \in Nat
    OBVIOUS
  <2>1. used[r] = Cardinality(Units(r))
    BY <1>2 DEF Ledger
  <2>2. /\ Cardinality(Units(r)') =
             Cardinality(Units(r)) + Claim(t, new, r) - Claim(t, run[t], r)
        /\ Cardinality(Units(r)') \in Nat
    BY <1>1, <1>2, <1>3, UnitsChange
  <2>3. used'[r] = used[r] + Claim(t, new, r) - Claim(t, run[t], r)
    BY <1>4
  <2> QED
    BY <2>1, <2>2, <2>3
<1>6. /\ Cardinality(Held') = Cardinality(Held) + (IF new.held THEN 1 ELSE 0)
                                                - (IF run[t].held THEN 1 ELSE 0)
      /\ Cardinality(DoneTests') = Cardinality(DoneTests)
                                     + (IF new.phase = "DONE" THEN 1 ELSE 0)
                                     - (IF run[t].phase = "DONE" THEN 1 ELSE 0)
      /\ Cardinality(Held) \in Nat /\ Cardinality(DoneTests) \in Nat
  BY <1>1, <1>2, <1>3, HeldChange
<1>7. Ledger'
  <2>1. holders' = Cardinality(Held')
    BY <1>2, <1>4, <1>6 DEF Ledger
  <2> QED
    BY <1>5, <2>1 DEF Ledger
<1>8. Doneness'
  BY <1>2, <1>4, <1>6 DEF Doneness
<1>9. TypeOK'
  <2>1. run' \in [Test -> Run]
    BY <1>1, <1>2, <1>3
  <2>2. ASSUME NEW r \in Resource PROVE used'[r] \in 0..Capacity[r]
    <3>1. /\ used[r] \in 0..Capacity[r] /\ used'[r] \in Nat
          /\ used'[r] = used[r] + Claim(t, new, r) - Claim(t, run[t], r)
      BY <1>2, <1>4, <1>5 DEF TypeOK
    <3>2. /\ Request[t][r] \in Nat /\ Capacity[r] \in Nat
          /\ Claim(t, run[t], r) = IF run[t].held THEN Request[t][r] ELSE 0
          /\ Claim(t, new, r) = IF new.held THEN Request[t][r] ELSE 0
      BY ResourceBounds DEF Claim
    <3>3. ~run[t].held => (Request[t][r] > 0 => used[r] + Request[t][r] <= Capacity[r])
      BY DEF Available
    <3> QED
      BY <3>1, <3>2, <3>3
  <2>3. used' \in [Resource -> Int]
    <3>1. \A r \in Resource : used'[r] \in Int
      BY <1>5
    <3> QED
      BY <1>4, <3>1
  <2>4. holders' \in 0..Jobs
    <3>1. holders' \in Nat
      <4>1. Held' \in SUBSET Test
        BY DEF Held
      <4>2. Cardinality(Held') \in Nat
        BY <4>1, Constants
      <4> QED
        BY <1>7, <4>2 DEF Ledger
    <3>2. holders \in 0..Jobs /\ Jobs \in Nat
      BY <1>2, Constants DEF TypeOK
    <3> QED
      BY <1>4, <3>1, <3>2
  <2>5. doneCount' \in 0..TestCount
    <3>1. DoneTests' \in SUBSET Test
      BY DEF DoneTests
    <3>2. Cardinality(DoneTests') \in 0..TestCount
      BY <3>1, Constants
    <3> QED
      BY <1>8, <3>2 DEF Doneness
  <2>6. scan' \in 1..(TestCount + 1)
    BY <1>2, Constants DEF TypeOK
  <2>7. proc' \in [Test -> ProcStates]
    BY <1>2 DEF TypeOK, Record, ProcStates, Alive
  <2> QED
    BY <1>2, <2>1, <2>2, <2>3, <2>4, <2>5, <2>6, <2>7 DEF TypeOK
<1>10. Processes'
  <2>1. \A s \in Test : proc'[s] \in Alive => run'[s].running
    BY <1>1, <1>2, <1>3 DEF Processes, Record, Alive, TypeOK
  <2> QED
    BY <2>1 DEF Processes
<1>11. \A s \in Test : Sound(s, run'[s])
  BY <1>1, <1>2, <1>3 DEF IInv
<1> QED
  BY <1>7, <1>8, <1>9, <1>10, <1>11 DEF IInv

\* What the invariant says of one test.
LEMMA TestFacts ==
  ASSUME IInv, NEW t \in Test
  PROVE  /\ run[t] \in Run
         /\ run[t].held <=> run[t].running
         /\ run[t].held <=> run[t].phase \in HookPhases
         /\ run[t].held => InPhase(t, run[t]) /\ t \notin Skipped
         /\ run[t].phase = "PENDING" => Waiting(t, run[t])
<1>1. run[t] \in Run /\ Sound(t, run[t])
  BY DEF IInv, TypeOK
<1>2. /\ run[t].held <=> run[t].running
      /\ run[t].held <=> run[t].phase \in HookPhases
      /\ run[t].held => InPhase(t, run[t])
      /\ run[t].phase = "PENDING" => Waiting(t, run[t])
  BY <1>1, SoundRecord
<1> QED
  BY <1>1, <1>2 DEF InPhase, UnderWay

LEMMA ScanIsTest ==
  ASSUME TypeOK, scan <= TestCount
  PROVE  scan \in Test
BY TestAssumption DEF TypeOK, Test

\* The record a launching step leaves, and the one a polling step leaves.
LEMMA StartAttemptRecord ==
  ASSUME IInv, StartAttempt
  PROVE  /\ scan \in Test \ Skipped /\ ~run[scan].held /\ run[scan].phase = "PENDING"
         /\ \E new : Advanced(scan, new) /\ Record(scan, new)
<1>1. scan \in Test
  BY ScanIsTest DEF IInv, StartAttempt, Launching
<1>2. run[scan].phase = "PENDING"
  BY DEF StartAttempt, Startable
<1>3. Waiting(scan, run[scan])
  BY <1>1, <1>2, TestFacts
<1>4. PICK spawned \in [HookPhases -> BOOLEAN] :
         Record(scan, BeginAttempt(scan, run[scan], spawned))
  BY DEF StartAttempt
<1>5. Advanced(scan, BeginAttempt(scan, run[scan], spawned))
  BY <1>3, BeginAttemptEffect
<1> QED
  BY <1>2, <1>3, <1>4, <1>5 DEF Waiting

LEMMA PollEndRecord ==
  ASSUME IInv, PollEnd
  PROVE  /\ scan \in Test \ Skipped /\ run[scan].held
         /\ \E new : /\ Advanced(scan, new) /\ Record(scan, new)
                     /\ new.attempt = run[scan].attempt
<1>1. scan \in Test
  BY ScanIsTest DEF IInv, PollEnd
<1>2. run[scan].held /\ InPhase(scan, run[scan]) /\ scan \notin Skipped
  BY <1>1, TestFacts DEF PollEnd
<1> DEFINE exit == IF proc[scan] = "overdue" THEN "timeout" ELSE proc[scan]
<1>3. PICK spawned \in [HookPhases -> BOOLEAN] :
         Record(scan, EndPhase(scan, run[scan], exit, spawned))
  BY DEF PollEnd
<1>4. exit \in Exits \ {"spawn-error"}
  BY DEF PollEnd, Exited, Exits
<1> HIDE DEF exit
<1>5. /\ Advanced(scan, EndPhase(scan, run[scan], exit, spawned))
      /\ EndPhase(scan, run[scan], exit, spawned).attempt = run[scan].attempt
  BY <1>2, <1>4, EndPhaseEffect
<1> QED
  BY <1>1, <1>2, <1>3, <1>5

\* The accounts depend on the records alone.
LEMMA RecordsKept ==
  ASSUME IInv, run' = run, used' = used, holders' = holders, doneCount' = doneCount
  PROVE  /\ \A t \in Test : Sound(t, run'[t])
         /\ Ledger'
         /\ DoneTests' = DoneTests
BY DEF IInv, Ledger, Units, Held, DoneTests

LEMMA NextSound == IInv /\ [Next]_vars => IInv'
<1> SUFFICES ASSUME IInv, [Next]_vars PROVE IInv'
  OBVIOUS
<1>0. TypeOK /\ Doneness /\ Processes /\ TestCount \in Nat
  BY Constants DEF IInv
<1>1. CASE StartAttempt
  <2>1. /\ scan \in Test \ Skipped /\ run[scan].phase = "PENDING"
        /\ \E new : Advanced(scan, new) /\ Record(scan, new)
    BY <1>1, StartAttemptRecord
  <2>2. PICK new : Advanced(scan, new) /\ Record(scan, new)
    BY <2>1
  <2>3. /\ holders < Jobs /\ Available(scan) /\ stage = "launch" /\ stage' = stage
        /\ verdict' = verdict /\ scan <= TestCount /\ scan' = scan + 1
    BY <1>1 DEF StartAttempt, Launching, Startable
  <2> QED
    BY <2>1, <2>2, <2>3, RecordStep
<1>2. CASE PollEnd
  <2>1. /\ scan \in Test \ Skipped /\ run[scan].held
        /\ \E new : Advanced(scan, new) /\ Record(scan, new)
    BY <1>2, PollEndRecord
  <2>2. PICK new : Advanced(scan, new) /\ Record(scan, new)
    BY <2>1
  <2>3. run[scan].phase # "DONE"
    BY <2>1, TestFacts DEF HookPhases
  <2>4. /\ stage = "poll" /\ stage' = stage
        /\ verdict' = verdict /\ scan <= TestCount /\ scan' = scan + 1
    BY <1>2 DEF PollEnd
  <2> QED
    BY <2>1, <2>2, <2>3, <2>4, RecordStep
<1>3. ASSUME run' = run, used' = used, holders' = holders, doneCount' = doneCount,
             scan' \in 1..(TestCount + 1),
             stage' \in {"launch", "poll", "report", "returned"},
             verdict' \in {"none", "ok", "failed", "error"},
             proc' \in [Test -> ProcStates],
             stage' = "report" => DoneTests = Test,
             \A t \in Test : proc'[t] \in Alive => run[t].running,
             stage' = "returned" => \A t \in Test : proc'[t] \notin Alive
      PROVE  IInv'
  <2>1. /\ \A t \in Test : Sound(t, run'[t])
        /\ Ledger'
        /\ DoneTests' = DoneTests
    BY <1>3, RecordsKept
  <2>2. TypeOK'
    BY <1>0, <1>3 DEF TypeOK
  <2>3. Doneness' /\ Processes'
    BY <1>0, <1>3, <2>1 DEF Doneness, Processes
  <2> QED
    BY <2>1, <2>2, <2>3 DEF IInv
<1>4. CASE PassOver
  <2>1. scan' \in 1..(TestCount + 1)
    BY <1>0, <1>4 DEF PassOver, Launching, TypeOK
  <2> QED
    BY <1>0, <1>3, <1>4, <2>1 DEF PassOver, TypeOK, Doneness, Processes
<1>5. CASE LaunchDone
  <2>1. scan' \in 1..(TestCount + 1)
    BY <1>0, <1>5 DEF LaunchDone
  <2> QED
    BY <1>0, <1>3, <1>5, <2>1 DEF LaunchDone, TypeOK, Doneness, Processes
<1>6. CASE PollOn
  <2>1. scan' \in 1..(TestCount + 1)
    BY <1>0, <1>6 DEF PollOn, TypeOK
  <2> QED
    BY <1>0, <1>3, <1>6, <2>1 DEF PollOn, TypeOK, Doneness, Processes
<1>7. CASE PollError
  <2>1. proc' \in [Test -> ProcStates]
    BY <1>0, <1>7 DEF PollError, TypeOK, ProcStates
  <2>2. \A t \in Test : proc'[t] \notin Alive
    BY <1>0, <1>7 DEF PollError, Processes, Alive
  <2> QED
    BY <1>0, <1>3, <1>7, <2>1, <2>2 DEF PollError, TypeOK
<1>8. CASE PollDone
  <2>1. scan' \in 1..(TestCount + 1)
    BY <1>0, <1>8 DEF PollDone
  <2>2. stage' = "report" => DoneTests = Test
    <3>1. DoneTests \in SUBSET Test
      BY DEF DoneTests
    <3>2. Cardinality(DoneTests) = TestCount => DoneTests = Test
      BY <3>1, Constants, FS_Subset
    <3>3. stage' = "report" => ~(doneCount < TestCount)
      BY <1>8 DEF PollDone
    <3> QED
      BY <1>0, <3>2, <3>3 DEF TypeOK, Doneness
  <2>3. stage' \in {"launch", "report"} /\ stage = "poll"
    BY <1>8 DEF PollDone
  <2> QED
    BY <1>0, <1>3, <1>8, <2>1, <2>2, <2>3 DEF PollDone, TypeOK, Processes
<1>9. CASE Report
  <2>1. \A t \in Test : ~run[t].running
    <3>1. \A t \in Test : run[t].phase = "DONE"
      BY <1>0, <1>9 DEF Report, Doneness, DoneTests
    <3> QED
      BY <3>1, TestFacts DEF HookPhases
  <2>2. \A t \in Test : proc'[t] \notin Alive
    BY <1>0, <1>9, <2>1 DEF Report, Processes
  <2>3. verdict' \in {"none", "ok", "failed", "error"}
    BY <1>9 DEF Report
  <2> QED
    BY <1>0, <1>3, <1>9, <2>2, <2>3 DEF Report, TypeOK
<1>10. ASSUME NEW t \in Test, ChildExits(t) PROVE IInv'
  <2>1. stage # "returned" /\ proc[t] \in Alive /\ run[t].running
    BY <1>0, <1>10 DEF ChildExits, Processes
  <2>2. proc' \in [Test -> ProcStates]
    BY <1>0, <1>10 DEF ChildExits, TypeOK, ProcStates
  <2>3. \A s \in Test : proc'[s] \in Alive => run[s].running
    BY <1>0, <1>10, <2>1 DEF ChildExits, TypeOK, Processes
  <2> QED
    BY <1>0, <1>3, <1>10, <2>1, <2>2, <2>3 DEF ChildExits, TypeOK, Doneness
<1>11. ASSUME NEW t \in Test, ChildOverruns(t) PROVE IInv'
  <2>1. stage # "returned" /\ run[t].running
    BY <1>0, <1>11 DEF ChildOverruns, Processes, Alive
  <2>2. proc' \in [Test -> ProcStates]
    BY <1>0, <1>11 DEF ChildOverruns, TypeOK, ProcStates, Alive
  <2>3. \A s \in Test : proc'[s] \in Alive => run[s].running
    BY <1>0, <1>11, <2>1 DEF ChildOverruns, TypeOK, Processes
  <2> QED
    BY <1>0, <1>3, <1>11, <2>1, <2>2, <2>3 DEF ChildOverruns, TypeOK, Doneness
<1>12. CASE UNCHANGED vars
  BY <1>0, <1>3, <1>12 DEF vars, TypeOK, Doneness, Processes
<1> QED
  BY <1>1, <1>2, <1>4, <1>5, <1>6, <1>7, <1>8, <1>9, <1>10, <1>11, <1>12
  DEF Next, Loop, Returned

\* The invariant holds in every state of the batch.
THEOREM Invariance == Spec => []IInv
<1> QED
  BY InitSound, NextSound, PTL DEF Spec

-----------------------------------------------------------------------------
\* What follows.

LEMMA WithinLimitsOfInvariant == IInv => ResourcesKept
<1> SUFFICES ASSUME IInv PROVE ResourcesKept
  OBVIOUS
<1>1. TypeOK /\ Ledger
  BY DEF IInv
<1>2. \A r \in Resource : Cardinality(Units(r)) <= Capacity[r]
  BY <1>1, ResourceBounds DEF TypeOK, Ledger
<1>3. Cardinality(Held) <= Jobs
  BY <1>1, Constants DEF TypeOK, Ledger
<1> QED
  BY <1>1, <1>2, <1>3 DEF ResourcesKept, WithinLimits

(***************************************************************************)
(* Whatever the requests, the retries and the ways processes end: the      *)
(* batch's accounts are what the attempts under way hold, no resource is   *)
(* claimed beyond its capacity and no more than --jobs attempts overlap.   *)
(***************************************************************************)
THEOREM ResourcesAreKept == Spec => []ResourcesKept
<1> QED
  BY Invariance, WithinLimitsOfInvariant, PTL

LEMMA ReportOfInvariant == IInv => ReportIsRight
<1> SUFFICES ASSUME IInv PROVE ReportIsRight
  OBVIOUS
<1>1. ASSUME NEW t \in Test \ Skipped, run[t].phase = "DONE"
      PROVE  /\ run[t].status = Verdict(run[t])
             /\ Named(run[t])
             /\ \A ph : ExitOf(t, ph, run[t].attempt) = ExitIn(run[t], ph)
  <2>1. Sound(t, run[t])
    BY DEF IInv
  <2>2. Settled(t, run[t])
    BY <1>1, <2>1 DEF Sound, InPhase, HookPhases
  <2>3. \A ph : ExitOf(t, ph, run[t].attempt) = ExitIn(run[t], ph)
    BY DEF ExitOf, ExitIn
  <2> QED
    BY <1>1, <2>2, <2>3 DEF Settled
<1>2. StatusFollowsProtocol
  <2> SUFFICES ASSUME NEW t \in Test \ Skipped, run[t].phase = "DONE"
               PROVE  run[t].status = Judged(t, run[t].attempt)
    BY DEF StatusFollowsProtocol
  <2> QED
    BY <1>1 DEF Judged, Verdict
<1>3. ResultNamesDecision
  <2> SUFFICES ASSUME NEW t \in Test \ Skipped, run[t].phase = "DONE"
               PROVE  LET action == run[t].result
                          exit == ExitOf(t, action[1], run[t].attempt)
                      IN  /\ action[2] = run[t].attempt
                          /\ run[t].status = "error" =>
                               IF ExitOf(t, "CLEANUP", run[t].attempt) = "0"
                               THEN action[1] = "CLEANUP"
                               ELSE exit \in ErrorExits(action[1])
                          /\ run[t].status # "error" =>
                               /\ action[1] \in {"SETUP", "BODY"}
                               /\ exit = (CASE run[t].status = "pass" -> "0"
                                            [] run[t].status = "fail" -> "code"
                                            [] OTHER -> "timeout")
    BY DEF ResultNamesDecision
  <2>1. /\ Named(run[t])
        /\ run[t].status \in {"pass", "fail", "error", "timeout"}
        /\ ExitOf(t, run[t].result[1], run[t].attempt) = ExitIn(run[t], run[t].result[1])
        /\ ExitOf(t, "CLEANUP", run[t].attempt) = ExitIn(run[t], "CLEANUP")
    BY <1>1, VerdictType DEF IInv, TypeOK
  <2> QED
    BY <2>1 DEF Named
<1> QED
  BY <1>2, <1>3 DEF ReportIsRight, IInv

(***************************************************************************)
(* For every combination of hooks, exits, failed starts and retries: a     *)
(* test's final status is the protocol's verdict on its last attempt, and  *)
(* the action its result names is one that decided it: the body or the     *)
(* setup that overran, a phase whose exit is an error, and only after an   *)
(* error that a good cleanup follows that cleanup.                         *)
(***************************************************************************)
THEOREM ReportsAreRight == Spec => []ReportIsRight
<1> QED
  BY Invariance, ReportOfInvariant, PTL

(***************************************************************************)
(* A batch that has returned, with its report or because waiting for a     *)
(* child failed, has left no test process running.                         *)
(***************************************************************************)
THEOREM NoOrphansLeft == Spec => []NoOrphans
<1>1. IInv => NoOrphans
  BY DEF IInv, Processes, NoOrphans
<1> QED
  BY <1>1, Invariance, PTL

(***************************************************************************)
(* An attempt holds its resources from its first phase to the end of its   *)
(* last, its processes run only meanwhile, and the batch never waits for   *)
(* resources that nobody holds.                                            *)
(***************************************************************************)
THEOREM SpanAndNoDeadlock == Spec => [](HeldForTheWholeAttempt /\ NoResourceDeadlock)
<1>1. ASSUME IInv PROVE HeldForTheWholeAttempt
  BY <1>1, TestFacts DEF HeldForTheWholeAttempt, IInv, Processes
<1>2. ASSUME IInv PROVE NoResourceDeadlock
  <2> SUFFICES ASSUME holders = 0, NEW t \in Test, NEW r \in Resource
               PROVE  used[r] + Request[t][r] <= Capacity[r]
    BY DEF NoResourceDeadlock, Available
  <2>1. Held \in SUBSET Test /\ Cardinality(Held) = 0
    BY <1>2 DEF IInv, Ledger, Held
  <2>2. Held = {}
    BY <2>1, Constants, FS_EmptySet
  <2>3. Units(r) = {}
    BY <2>2 DEF Units, Held
  <2>4. used[r] = 0
    BY <1>2, <2>3, FS_EmptySet DEF IInv, Ledger
  <2> QED
    BY <2>4, ResourceBounds
<1>3. IInv => HeldForTheWholeAttempt /\ NoResourceDeadlock
  BY <1>1, <1>2
<1> QED
  BY <1>3, Invariance, PTL

LEMMA ReleaseAfterCleanup ==
  ASSUME IInv, [Next]_vars, NEW t \in HasCleanup, run[t].held, ~run'[t].held
  PROVE  \E e \in run'[t].log : e.action = <<"CLEANUP", run[t].attempt>>
<1>0. t \in Test /\ run \in [Test -> Run]
  BY TestAssumption DEF IInv, TypeOK
<1>1. CASE StartAttempt
  <2>1. ~run[scan].held /\ \E new : Record(scan, new)
    BY <1>1, StartAttemptRecord
  <2>2. t # scan
    BY <2>1
  <2>3. run'[t] = run[t]
    BY <1>0, <2>1, <2>2 DEF Record
  <2> QED
    BY <2>3
<1>2. CASE PollEnd
  <2>1. PICK new : /\ Advanced(scan, new) /\ Record(scan, new)
                   /\ new.attempt = run[scan].attempt
    BY <1>2, PollEndRecord
  <2>2. t = scan /\ run'[t] = new
    BY <1>0, <2>1 DEF Record
  <2>3. ~Fresh(new, "CLEANUP")
    BY <2>1, <2>2 DEF Advanced, InPhase, UnderWay
  <2> QED
    BY <2>1, <2>2, <2>3 DEF Fresh
<1>3. CASE run' = run
  BY <1>3
<1> QED
  BY <1>1, <1>2, <1>3
  DEF Next, Loop, Returned, vars, PassOver, LaunchDone, PollOn, PollError, PollDone,
      Report, ChildExits, ChildOverruns

(***************************************************************************)
(* An attempt never gives its resources back before its cleanup has been   *)
(* tried, whatever happened to its setup and its body.                     *)
(***************************************************************************)
THEOREM CleanupComesFirst == Spec => CleanupBeforeRelease
<1>1. IInv /\ [Next]_vars
        => [\A t \in HasCleanup :
              run[t].held /\ ~run'[t].held
                => \E e \in run'[t].log : e.action = <<"CLEANUP", run[t].attempt>>]_vars
  BY ReleaseAfterCleanup
<1> QED
  BY <1>1, Invariance, PTL DEF Spec, CleanupBeforeRelease
=============================================================================
