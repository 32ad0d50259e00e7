------------------------------ MODULE TestBatch ------------------------------
(***************************************************************************)
(* One batch of tests run by qstar_graph_execute_test_batch in             *)
(* src/src/test_resources.c: attempts that claim all their resources at    *)
(* once, setup, body and cleanup processes with a time limit each, retries *)
(* that give the resources back in between, and the result protocol.       *)
(*                                                                         *)
(* One thread alternates a launching pass and a polling pass over the      *)
(* tests, in order; the child processes run beside it.                     *)
(***************************************************************************)
EXTENDS Integers, FiniteSets

CONSTANTS
    TestCount,   \* the tests of the batch are 1..TestCount, in their order
    Resource,    \* the declared resources
    Capacity,    \* Capacity[r]
    Request,     \* Request[t][r]: how much of r an attempt of t claims, 0 if none
    Jobs,        \* attempts that may hold resources at once
    HasSetup,    \* tests with a setup command
    HasCleanup,  \* tests with a cleanup command
    Skipped,     \* tests skipped by declaration, or manual ones not selected
    RetryCount,  \* RetryCount[t]: attempts allowed after the first
    RetryOn      \* RetryOn[t]: the statuses that are retried

Test == 1..TestCount

Failures == {"fail", "error", "timeout"}

ASSUME TestAssumption ==
    /\ TestCount \in Nat
    /\ Jobs \in Nat \ {0}
    /\ HasSetup \subseteq Test /\ HasCleanup \subseteq Test /\ Skipped \subseteq Test
    /\ RetryCount \in [Test -> Nat]
    /\ RetryOn \in [Test -> SUBSET Failures]

\* qstar_graph_validate_test_resources, run before any batch.
ValidTestResources ==
    /\ Capacity \in [Resource -> Nat \ {0}]
    /\ Request \in [Test -> [Resource -> Nat]]
    /\ \A t \in Test, r \in Resource : Request[t][r] <= Capacity[r]

ASSUME ResourceAssumption == IsFiniteSet(Resource) /\ ValidTestResources

VARIABLES
    run,        \* run[t]: the record the batch keeps of test t
    used,       \* used[r]: how much of r is claimed
    holders,    \* attempts holding resources
    doneCount,  \* tests with a final result
    scan,       \* index of the pass
    stage,      \* "launch", "poll", "report" or "returned"
    verdict,    \* how the batch returned: "ok", "failed" or "error"
    proc        \* proc[t]: the current child of t, as the system sees it

vars == <<run, used, holders, doneCount, scan, stage, verdict, proc>>

HookPhases == {"SETUP", "BODY", "CLEANUP"}
Phases == HookPhases \cup {"PENDING", "DONE"}
Statuses == Failures \cup {"", "pass", "skip"}
Exits == {"0", "code", "signal", "timeout", "spawn-error"}
Alive == {"alive", "overdue"}
Exited == {"0", "code", "signal"}
ProcStates == Alive \cup Exited \cup {"absent", "terminated"}

\* An action is named after the phase and the attempt it belongs to; its log
\* records how it exited.
Action == HookPhases \X Nat
NoAction == <<"PENDING", 0>>
LogEntry == [action : Action, exit : Exits]

Run == [phase : Phases, running : BOOLEAN, held : BOOLEAN, attempt : Nat,
        status : Statuses, result : Action \cup {NoAction}, log : SUBSET LogEntry]

Held == {t \in Test : run[t].held}

-----------------------------------------------------------------------------
NewRun(t) ==
    [phase   |-> IF t \in Skipped THEN "DONE" ELSE "PENDING",
     running |-> FALSE,
     held    |-> FALSE,
     attempt |-> 0,
     status  |-> IF t \in Skipped THEN "skip" ELSE "",
     result  |-> NoAction,
     log     |-> {}]

Init ==
    /\ run = [t \in Test |-> NewRun(t)]
    /\ used = [r \in Resource |-> 0]
    /\ holders = 0
    /\ doneCount = Cardinality(Skipped)
    /\ scan = 1
    /\ stage = IF Cardinality(Skipped) < TestCount THEN "launch" ELSE "report"
    /\ verdict = "none"
    /\ proc = [t \in Test |-> "absent"]

-----------------------------------------------------------------------------
\* One test's record, step by step.

LogExit(record, phase, exit) ==
    [record EXCEPT !.log = @ \cup {[action |-> <<phase, record.attempt>>, exit |-> exit]}]

\* start_phase, and what its callers do when the process cannot be started.
Launch(record, phase, spawned) ==
    IF spawned
    THEN [record EXCEPT !.phase = phase, !.running = TRUE]
    ELSE LogExit([record EXCEPT !.phase = phase, !.status = "error",
                                !.result = <<phase, record.attempt>>],
                 phase, "spawn-error")

MayRetry(t, record) == record.attempt <= RetryCount[t] /\ record.status \in RetryOn[t]

\* finish_attempt: the resources are given back before anything else; a retry
\* waits its turn like a test that has not run.
FinishAttempt(t, record) ==
    IF MayRetry(t, record)
    THEN [record EXCEPT !.held = FALSE, !.phase = "PENDING", !.status = ""]
    ELSE [record EXCEPT !.held = FALSE, !.phase = "DONE"]

\* The body follows a setup that left no status.
AfterSetup(record, completed, spawned) ==
    IF completed = "SETUP" /\ record.status = ""
    THEN Launch(record, "BODY", spawned["BODY"])
    ELSE record

\* Mutation: cleanup is skipped when the attempt has already failed.
BeforeCleanupIfClean(t, record, completed, spawned) ==
    IF record.running \/ completed = "CLEANUP" \/ t \notin HasCleanup \/ record.status # ""
    THEN record
    ELSE Launch(record, "CLEANUP", spawned["CLEANUP"])

\* Cleanup follows whatever came before it, unless the body is on its way.
BeforeCleanup(t, record, completed, spawned) ==
    IF record.running \/ completed = "CLEANUP" \/ t \notin HasCleanup
    THEN record
    ELSE Launch(record, "CLEANUP", spawned["CLEANUP"])

\* advance_after_phase: what happens to the attempt once a phase is over.
Advance(t, record, completed, spawned) ==
    LET next == BeforeCleanup(t, AfterSetup(record, completed, spawned), completed, spawned)
    IN  IF next.running THEN next
        ELSE FinishAttempt(t, IF next.status = "" THEN [next EXCEPT !.status = "pass"]
                                                  ELSE next)

\* start_attempt.
BeginAttempt(t, record, spawned) ==
    LET first == IF t \in HasSetup THEN "SETUP" ELSE "BODY"
        begun == Launch([record EXCEPT !.held = TRUE, !.attempt = @ + 1], first, spawned[first])
    IN  IF begun.running THEN begun ELSE Advance(t, begun, first, spawned)

\* set_phase_result: a phase that went well leaves an earlier status alone.
SetPhaseResult(record, completed, exit) ==
    CASE exit = "0" -> record
      [] exit = "timeout" /\ completed # "CLEANUP" -> [record EXCEPT !.status = "timeout"]
      [] exit = "code" /\ completed = "BODY" -> [record EXCEPT !.status = "fail"]
      [] OTHER -> [record EXCEPT !.status = "error"]

\* Mutation: a cleanup that ends the attempt is always named as the result.
NameResultCleanup(record, completed) ==
    [record EXCEPT !.result = <<completed, record.attempt>>]

\* Before the status is updated the phase is named as the result when it is
\* the body or a setup; after it, a cleanup is when the status is an error.
NameResult(record, completed) ==
    IF \/ completed = "BODY"
       \/ completed = "SETUP" /\ record.status = ""
       \/ completed = "CLEANUP" /\ record.status = "error"
    THEN [record EXCEPT !.result = <<completed, record.attempt>>]
    ELSE record

\* The polling loop's handling of a phase that is over.
EndPhase(t, record, exit, spawned) ==
    LET completed == record.phase
        logged == LogExit([record EXCEPT !.running = FALSE], completed, exit)
        judged == IF completed = "CLEANUP"
                  THEN NameResult(SetPhaseResult(logged, completed, exit), completed)
                  ELSE SetPhaseResult(NameResult(logged, completed), completed, exit)
    IN  Advance(t, judged, completed, spawned)

-----------------------------------------------------------------------------
\* The batch's accounts.

Claim(t, record, r) == IF record.held THEN Request[t][r] ELSE 0

\* Mutation: what is given back is forgotten when the attempt is retried.
AccountLeaky(t, new) ==
    /\ used' = [r \in Resource |->
                  IF new.phase = "PENDING" THEN used[r]
                  ELSE used[r] + Claim(t, new, r) - Claim(t, run[t], r)]
    /\ holders' = holders + (IF new.held THEN 1 ELSE 0) - (IF run[t].held THEN 1 ELSE 0)
    /\ doneCount' = doneCount + (IF new.phase = "DONE" THEN 1 ELSE 0)

\* change_resources, the holder count and the done count, for test t whose
\* record becomes new.  An attempt that cannot start anything claims and
\* gives back in one go.
Account(t, new) ==
    /\ used' = [r \in Resource |-> used[r] + Claim(t, new, r) - Claim(t, run[t], r)]
    /\ holders' = holders + (IF new.held THEN 1 ELSE 0) - (IF run[t].held THEN 1 ELSE 0)
    /\ doneCount' = doneCount + (IF new.phase = "DONE" THEN 1 ELSE 0)

Record(t, new) ==
    /\ run' = [run EXCEPT ![t] = new]
    /\ proc' = [proc EXCEPT ![t] = IF new.running THEN "alive" ELSE "absent"]
    /\ Account(t, new)

\* Mutation: a resource is taken to be available while some of it is left.
AvailableInPart(t) == \A r \in Resource : Request[t][r] > 0 => used[r] < Capacity[r]

\* resources_available: all of the request, or nothing.
Available(t) == \A r \in Resource : Request[t][r] > 0 => used[r] + Request[t][r] <= Capacity[r]

-----------------------------------------------------------------------------
\* The condition of the launching loop.
Launching == scan <= TestCount /\ holders < Jobs

Startable(t) == run[t].phase = "PENDING" /\ Available(t)

StartAttempt ==
    /\ stage = "launch"
    /\ Launching
    /\ Startable(scan)
    /\ \E spawned \in [HookPhases -> BOOLEAN] :
          Record(scan, BeginAttempt(scan, run[scan], spawned))
    /\ scan' = scan + 1
    /\ UNCHANGED <<stage, verdict>>

PassOver ==
    /\ stage = "launch"
    /\ Launching
    /\ ~Startable(scan)
    /\ scan' = scan + 1
    /\ UNCHANGED <<run, used, holders, doneCount, stage, verdict, proc>>

LaunchDone ==
    /\ stage = "launch"
    /\ ~Launching
    /\ stage' = "poll"
    /\ scan' = 1
    /\ UNCHANGED <<run, used, holders, doneCount, verdict, proc>>

PollOn ==
    /\ stage = "poll"
    /\ scan <= TestCount
    /\ run[scan].running => proc[scan] = "alive"
    /\ scan' = scan + 1
    /\ UNCHANGED <<run, used, holders, doneCount, stage, verdict, proc>>

\* A child that has finished is collected, even past its limit; one that has
\* not and is past its limit is terminated.
PollEnd ==
    /\ stage = "poll"
    /\ scan <= TestCount
    /\ run[scan].running
    /\ proc[scan] \in Exited \cup {"overdue"}
    /\ LET exit == IF proc[scan] = "overdue" THEN "timeout" ELSE proc[scan]
       IN  \E spawned \in [HookPhases -> BOOLEAN] :
              Record(scan, EndPhase(scan, run[scan], exit, spawned))
    /\ scan' = scan + 1
    /\ UNCHANGED <<stage, verdict>>

\* Mutation: the running children are left alone when the batch gives up.
PollErrorDetached ==
    /\ stage = "poll"
    /\ scan <= TestCount
    /\ run[scan].running
    /\ stage' = "returned"
    /\ verdict' = "error"
    /\ UNCHANGED <<run, used, holders, doneCount, scan, proc>>

\* Waiting for a child failed: every running child is terminated and the
\* batch gives up without a report.
PollError ==
    /\ stage = "poll"
    /\ scan <= TestCount
    /\ run[scan].running
    /\ proc' = [t \in Test |-> IF run[t].running THEN "terminated" ELSE proc[t]]
    /\ stage' = "returned"
    /\ verdict' = "error"
    /\ UNCHANGED <<run, used, holders, doneCount, scan>>

PollDone ==
    /\ stage = "poll"
    /\ scan = TestCount + 1
    /\ stage' = IF doneCount < TestCount THEN "launch" ELSE "report"
    /\ scan' = 1
    /\ UNCHANGED <<run, used, holders, doneCount, verdict, proc>>

FailedTests == {t \in Test : run[t].status \in Failures}

\* The JSON and JUnit reports, which may fail to be written, and the summary.
Report ==
    /\ stage = "report"
    /\ stage' = "returned"
    /\ verdict' \in {"error", IF FailedTests = {} THEN "ok" ELSE "failed"}
    /\ UNCHANGED <<run, used, holders, doneCount, scan, proc>>

-----------------------------------------------------------------------------
ChildExits(t) ==
    /\ proc[t] \in Alive
    /\ \E how \in Exited : proc' = [proc EXCEPT ![t] = how]
    /\ UNCHANGED <<run, used, holders, doneCount, scan, stage, verdict>>

ChildOverruns(t) ==
    /\ proc[t] = "alive"
    /\ proc' = [proc EXCEPT ![t] = "overdue"]
    /\ UNCHANGED <<run, used, holders, doneCount, scan, stage, verdict>>

Loop ==
    \/ StartAttempt \/ PassOver \/ LaunchDone
    \/ PollOn \/ PollEnd \/ PollError \/ PollDone
    \/ Report

Returned == stage = "returned" /\ UNCHANGED vars

Next == Loop \/ (\E t \in Test : ChildExits(t) \/ ChildOverruns(t)) \/ Returned

\* The loop keeps running and time passes; no child is assumed to exit.
Fairness == WF_vars(Loop) /\ \A t \in Test : WF_vars(ChildOverruns(t))

Spec == Init /\ [][Next]_vars
FairSpec == Spec /\ Fairness

-----------------------------------------------------------------------------
TypeOK ==
    /\ run \in [Test -> Run]
    /\ used \in [Resource -> Int] /\ \A r \in Resource : used[r] \in 0..Capacity[r]
    /\ holders \in 0..Jobs
    /\ doneCount \in 0..TestCount
    /\ scan \in 1..(TestCount + 1)
    /\ stage \in {"launch", "poll", "report", "returned"}
    /\ verdict \in {"none", "ok", "failed", "error"}
    /\ proc \in [Test -> ProcStates]

\* The units of r that the attempts under way have claimed.
Units(r) == {u \in Test \X (1..Capacity[r]) : run[u[1]].held /\ u[2] <= Request[u[1]][r]}

(***************************************************************************)
(* The books balance: what used says is claimed is what the attempts under *)
(* way hold, through retries, failed starts and cleanups, and the holder   *)
(* count is the number of those attempts.                                  *)
(***************************************************************************)
Ledger ==
    /\ \A r \in Resource : used[r] = Cardinality(Units(r))
    /\ holders = Cardinality(Held)

(***************************************************************************)
(* Attempts that overlap in time never claim more of a resource than it    *)
(* has, and never outnumber --jobs.                                        *)
(***************************************************************************)
WithinLimits ==
    /\ \A r \in Resource : Cardinality(Units(r)) <= Capacity[r]
    /\ Cardinality(Held) <= Jobs

(***************************************************************************)
(* The bookkeeping of change_resources is right, and resources_available   *)
(* decides rightly from it.                                                *)
(***************************************************************************)
ResourcesKept == Ledger /\ WithinLimits

(***************************************************************************)
(* A test has a process only while it holds its resources, and the phases  *)
(* of an attempt are exactly the time it holds them: the span acquire,     *)
(* setup, body, cleanup, release of the scheduling contract.               *)
(***************************************************************************)
HeldForTheWholeAttempt ==
    \A t \in Test :
      /\ run[t].held <=> run[t].phase \in HookPhases
      /\ run[t].held => run[t].running
      /\ proc[t] \in Alive => run[t].held

(***************************************************************************)
(* The batch cannot wait for itself: when no attempt holds anything, every *)
(* test still to run finds its whole request available.                    *)
(***************************************************************************)
NoResourceDeadlock ==
    holders = 0 => \A t \in Test : run[t].phase = "PENDING" => Available(t)

\* How phase ph of attempt a of t exited, if it did.
ExitOf(t, ph, a) ==
    IF \E e \in run[t].log : e.action = <<ph, a>>
    THEN (CHOOSE e \in run[t].log : e.action = <<ph, a>>).exit
    ELSE "not-run"

(***************************************************************************)
(* An attempt never gives its resources back before its cleanup has been   *)
(* tried, whether setup or body failed, overran or could not be started.   *)
(***************************************************************************)
CleanupBeforeRelease ==
    [][\A t \in HasCleanup :
         run[t].held /\ ~run'[t].held
           => \E e \in run'[t].log : e.action = <<"CLEANUP", run[t].attempt>>]_vars

\* The status the result table of the protocol gives attempt a of t.
Judged(t, a) ==
    LET setup == ExitOf(t, "SETUP", a)
        body == ExitOf(t, "BODY", a)
        cleanup == ExitOf(t, "CLEANUP", a)
    IN  IF \/ cleanup \notin {"0", "not-run"}
           \/ setup \in {"code", "signal", "spawn-error"}
           \/ body \in {"signal", "spawn-error"} THEN "error"
        ELSE IF setup = "timeout" \/ body = "timeout" THEN "timeout"
        ELSE IF body = "code" THEN "fail" ELSE "pass"

(***************************************************************************)
(* The final status of a test is the one the protocol's table gives its    *)
(* last attempt, for every way its three phases can end.                   *)
(***************************************************************************)
StatusFollowsProtocol ==
    \A t \in Test \ Skipped :
      run[t].phase = "DONE" => run[t].status = Judged(t, run[t].attempt)

\* The exits of phase ph that the protocol's table calls an error.
ErrorExits(ph) ==
    CASE ph = "SETUP" -> {"code", "signal", "spawn-error"}
      [] ph = "BODY" -> {"signal", "spawn-error"}
      [] OTHER -> Exits \ {"0"}

(***************************************************************************)
(* The action a result names is one of the last attempt that decided the   *)
(* status: the body, or the setup that overran, of a test that passed,     *)
(* failed or timed out, and a phase whose exit is an error of one in       *)
(* error.  There is one exception: a cleanup that went well after an error *)
(* is named in place of the phase that failed (ResultNamesCause).          *)
(***************************************************************************)
ResultNamesDecision ==
    \A t \in Test \ Skipped :
      run[t].phase = "DONE" =>
        LET action == run[t].result
            exit == ExitOf(t, action[1], run[t].attempt)
        IN  /\ action[2] = run[t].attempt
            /\ run[t].status = "error" =>
                 IF ExitOf(t, "CLEANUP", run[t].attempt) = "0"
                 THEN action[1] = "CLEANUP"
                 ELSE exit \in ErrorExits(action[1])
            /\ run[t].status # "error" =>
                 /\ action[1] \in {"SETUP", "BODY"}
                 /\ exit = (CASE run[t].status = "pass" -> "0"
                              [] run[t].status = "fail" -> "code"
                              [] OTHER -> "timeout")

(***************************************************************************)
(* The report of a test is right: its status is the protocol's verdict on  *)
(* the last attempt, and the action it names is the one that decided it,   *)
(* but for an error that a good cleanup has followed.                      *)
(***************************************************************************)
ReportIsRight == TypeOK /\ StatusFollowsProtocol /\ ResultNamesDecision

(***************************************************************************)
(* The documentation says that a result names the phase whose failure is   *)
(* the cause, and the body otherwise: of a test in error the log of the    *)
(* named action must then show that failure.                               *)
(***************************************************************************)
ResultNamesCause ==
    \A t \in Test \ Skipped :
      run[t].phase = "DONE" /\ run[t].status = "error" =>
        ExitOf(t, run[t].result[1], run[t].result[2]) \in ErrorExits(run[t].result[1])

(***************************************************************************)
(* Whatever way the batch returns, it leaves no test process behind.       *)
(***************************************************************************)
NoOrphans == stage = "returned" => \A t \in Test : proc[t] \notin Alive

(***************************************************************************)
(* The batch returns: no test starves behind others that share a resource  *)
(* with it, and a process that hangs is overtaken by its time limit.       *)
(***************************************************************************)
Terminates == <>(stage = "returned")
=============================================================================
