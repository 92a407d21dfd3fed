----------------------------- MODULE Registrations -----------------------------
(***************************************************************************)
(* One Function or Session Run that was scheduled on this Pod: the         *)
(* reconciler that claims it, registers it with the Runtime Server in a    *)
(* goroutine, retries, ends and deletes it (function_lifecycle.go,         *)
(* session_lifecycle.go, registration_cleanup.go); the activeRun it keeps; *)
(* the Runtime Server's registry (function.go, function_entry.go); and the *)
(* proxy that invokes a Ready function (proxy_function.go).                *)
(*                                                                         *)
(* A reconcile reads the cached Run, calls the Runtime Server and writes   *)
(* the status once; ctl is the one in progress. The operations of a Ready  *)
(* Session are modelled by the module Sessions.                            *)
(***************************************************************************)
EXTENDS Naturals, FiniteSets

CONSTANTS
    Invocations,    \* InvokeFunction calls a client may make
    Scenarios       \* [mode, source, handler, attempts, calls, ends, faults]: the mode;
                    \* whether the source can be prepared and the handler is valid;
                    \* retryPolicy.maxAttempts; the calls made; what may end the Run;
                    \* the number of restarts and of failed or late calls

VARIABLES
    env,        \* the scenario
    run,        \* the Run in the API
    seen,       \* the Run in the cache
    ar,         \* the entry of activeRuns
    ctl,        \* the reconcile in progress
    job,        \* the registration goroutine
    late,       \* attempts of registration calls that their client gave up
    server,     \* the Runtime Server's registration of this Run; id 0 for none
    due,        \* the times that have passed: {"deadline", "idle"}
    inv,        \* the state of each InvokeFunction call
    outfile,    \* whose outputs the file at activeRun.outputPath holds
    tried,      \* history: registrations started, counted up to env.attempts
    contended,  \* history: calls whose outputs file another call or a release touched
    stray,      \* history: a registration call outlived the close of its activeRun or
                \* its client, or was begun for a Run the cache did not yet show ended
    lostReady,  \* history: a Ready function was found without its registration
    faults

apiVars  == <<run, seen>>
callVars == <<inv, outfile, contended>>
history  == <<tried, stray, lostReady>>
vars == <<env, run, seen, ar, ctl, job, late, server, due, inv, outfile,
          tried, contended, stray, lostReady, faults>>

Ended == {"Succeeded", "Failed", "Timeout", "Cancelled"}
IsFunction == env.mode = "Function"

\* prepareSource writes or fetches what the Run names, or fails every time.
SourcePrepared == env.source

\* validateFunctionRegistration: the directory, the handler's file and the
\* function it has to define. It says the same of every attempt.
ValidRegistration == env.handler

\* newActiveRun, before anything is registered.
Unregistered == [held |-> FALSE, reg |-> 0, registering |-> FALSE, failure |-> FALSE,
                 prepared |-> FALSE, closed |-> FALSE]
NoServer == [id |-> 0, attempt |-> 0, state |-> "none", call |-> "none", cancelled |-> FALSE]
Absent == [phase |-> "Gone", attempt |-> 0, running |-> FALSE, term |-> "none",
           deleting |-> FALSE, final |-> FALSE]
Idle == [pc |-> "idle", snap |-> Absent, phase |-> "none", then |-> "none", tmp |-> Unregistered]
NoJob == [pc |-> "none", attempt |-> 0, orphan |-> FALSE]

\* The activeRun a reconcile works on: the claimed one, or the one that
\* buildActiveRun made for it.
Mine == IF ar.held THEN ar ELSE ctl.tmp

\* An update is accepted when the object it was computed from is current.
Current == ctl.snap = run

Quiet == ctl.pc = "idle"
Handle(phases) == Quiet /\ seen.phase \in phases /\ ~seen.deleting
Return == ctl' = Idle

EndWith(phase, x) == [pc |-> "terminal", snap |-> seen, phase |-> phase, then |-> "release", tmp |-> x]
CloseThen(then, phase, x) == [pc |-> "close", snap |-> seen, phase |-> phase, then |-> then, tmp |-> x]

------------------------------------------------------------------------------
(* The Runtime Server's registry.                                           *)

\* registrationAction for a newer attempt: the invocation in flight has to
\* end before the registration is replaced.
MustDrain(attempt) == /\ IsFunction /\ server.id # 0
                      /\ attempt > server.attempt /\ server.call # "none"

Ids == 1..(Cardinality(Invocations) + 4)

\* newRegistrationID: an id that nothing still refers to stands for one that
\* was never given before.
NewId == CHOOSE i \in Ids : i \notin {ar.reg, ctl.tmp.reg, server.id} \cup {inv[q].id : q \in Invocations}

\* RegisterFunction and RegisterSession: the id the call returns, 0 for an
\* error. The same attempt is answered with its registration, an older one is
\* refused, and a Session has one registration.
RegisterResult(attempt) ==
    CASE ~ValidRegistration -> 0
      [] server.id # 0 /\ (~IsFunction \/ attempt = server.attempt) -> server.id
      [] server.id # 0 /\ attempt < server.attempt -> 0
      [] OTHER -> NewId

\* The registry after a call that returned id.
Registered(attempt, id) ==
    server' = IF id \in {0, server.id} THEN server
              ELSE [id |-> id, attempt |-> attempt, state |-> "ready",
                    call |-> "none", cancelled |-> FALSE]

\* operationMu is held while a registration is being removed or replaced.
Locked == \/ ctl.pc = "drain" \/ job.pc = "replace"
          \/ ctl.pc = "replace"

\* A call that no client waits for takes effect.
LateCall ==
    /\ \E a \in late :
          /\ ~Locked /\ ~MustDrain(a)
          /\ late' = late \ {a}
          /\ Registered(a, RegisterResult(a))
    /\ UNCHANGED <<env, apiVars, ar, ctl, job, due, callVars, history, faults>>

------------------------------------------------------------------------------
(* The registration goroutine.                                              *)

\* beginFunctionRegistration, beginSessionRegistration and the go statement.
StartJob(x) ==
    /\ ar' = [x EXCEPT !.held = TRUE, !.registering = TRUE, !.reg = 0, !.failure = FALSE]
    /\ job' = [pc |-> "prepare", attempt |-> seen.attempt, orphan |-> FALSE]
    /\ tried' = IF tried < env.attempts THEN tried + 1 ELSE tried

\* finishFunctionRegistration, finishSessionRegistration: the activeRun may
\* have been released meanwhile.
FinishJob(id) ==
    /\ job' = NoJob
    /\ ar' = IF job.orphan THEN ar
             ELSE [ar EXCEPT !.registering = FALSE, !.failure = (id = 0),
                             !.reg = IF IsFunction THEN id ELSE 0]

\* prepareFunction, prepareSession.
Prepare ==
    /\ job.pc = "prepare"
    /\ \/ /\ SourcePrepared
          /\ job' = [job EXCEPT !.pc = "call"]
          /\ ar' = IF job.orphan THEN ar ELSE [ar EXCEPT !.prepared = TRUE]
       \/ ~SourcePrepared /\ FinishJob(0)
    /\ UNCHANGED <<env, apiVars, ctl, late, server, due, callVars, history, faults>>

\* registerFunction, registerSession. The Runtime Server cancels the
\* invocation of an older registration and waits for it.
Replace ==
    /\ job.pc = "call" /\ ~Locked /\ MustDrain(job.attempt) /\ ValidRegistration
    /\ job' = [job EXCEPT !.pc = "replace"]
    /\ server' = [server EXCEPT !.cancelled = TRUE]
    /\ UNCHANGED <<env, apiVars, ar, ctl, late, due, callVars, history, faults>>

Register ==
    /\ \/ job.pc = "call" /\ ~Locked
       \/ job.pc = "replace"
    /\ ~MustDrain(job.attempt) \/ ~ValidRegistration
    /\ LET id == RegisterResult(job.attempt) IN
       Registered(job.attempt, id) /\ FinishJob(id)
    /\ UNCHANGED <<env, apiVars, ctl, late, due, callVars, history, faults>>

\* The call fails, or its deadline passes and the Runtime Server still has it.
RegisterFails ==
    /\ job.pc \in {"call", "replace"} /\ faults < env.faults /\ faults' = faults + 1
    /\ \/ UNCHANGED <<late, stray>>
       \/ job.pc = "call" /\ late' = late \cup {job.attempt} /\ stray' = TRUE
    /\ FinishJob(0)
    /\ UNCHANGED <<env, apiVars, ctl, server, due, callVars, tried, lostReady>>

------------------------------------------------------------------------------
(* Reconcile: claim and recovery.                                           *)

\* reconcileScheduled: a Run that is already ended is not claimed; the
\* finalizer is written before the claim.
Schedule ==
    /\ Handle({"Scheduled"}) /\ ~ar.held
    /\ \/ /\ seen.term = "Immediate"
          /\ ctl' = EndWith("Cancelled", Unregistered)
          /\ UNCHANGED run
       \/ /\ seen.term # "Immediate" /\ ~seen.final /\ seen = run
          /\ run' = [run EXCEPT !.final = TRUE]
          /\ ctl' = [Idle EXCEPT !.pc = "claim", !.snap = run']
       \/ /\ seen.term # "Immediate" /\ seen.final
          /\ ctl' = [Idle EXCEPT !.pc = "claim", !.snap = seen]
          /\ UNCHANGED run
    /\ UNCHANGED <<env, seen, ar, job, late, server, due, callVars, history, faults>>

Claim ==
    /\ ctl.pc = "claim"
    /\ IF Current
       THEN /\ run' = [run EXCEPT !.phase = "Running", !.running = TRUE]
            /\ ar' = [Unregistered EXCEPT !.held = TRUE]
       ELSE UNCHANGED <<run, ar>>
    /\ Return
    /\ UNCHANGED <<env, seen, job, late, server, due, callVars, history, faults>>

RunOver == run.phase \in Ended \cup {"Gone"}

\* reconcileRunningFunction and reconcileReadyFunction without an activeRun:
\* the Run is claimed again and registered again, whatever was asked of it.
RecoverFunction ==
    /\ IsFunction /\ Handle({"Running", "Ready"}) /\ ~ar.held
    /\ StartJob(Unregistered)
    /\ stray' = (stray \/ RunOver)
    /\ UNCHANGED <<env, apiVars, ctl, late, server, due, callVars, lostReady, faults>>

\* reconcileSessionRecovery: the Runtime Server says whether there is a session.
RecoverSession ==
    /\ ~IsFunction /\ Handle({"Running", "Ready", "Finalizing"}) /\ ~ar.held
    /\ \/ /\ server.id # 0
          /\ ar' = [Unregistered EXCEPT !.held = TRUE]
          /\ run' = IF seen.phase = "Running" /\ seen = run
                    THEN [run EXCEPT !.phase = "Ready"] ELSE run
          /\ UNCHANGED <<ctl, job, tried>>
       \/ /\ server.id = 0 /\ seen.phase = "Running"
          /\ StartJob(Unregistered)
          /\ UNCHANGED <<run, ctl>>
       \/ /\ server.id = 0 /\ seen.phase # "Running"
          /\ ctl' = EndWith("Failed", Unregistered)
          /\ UNCHANGED <<run, ar, job, tried>>
    /\ stray' = (stray \/ RunOver)
    /\ UNCHANGED <<env, seen, late, server, due, callVars, lostReady, faults>>

------------------------------------------------------------------------------
(* Reconcile: a claimed Run.                                                *)

Now(t) == t \in due

\* HasImmediateTermination and the deadline, checked first. A Session that is
\* still registering has no deadline.
MustEnd ==
    CASE seen.term = "Immediate" -> "Cancelled"
      [] Now("deadline") /\ IF IsFunction THEN seen.phase = "Running"
                            ELSE seen.phase = "Finalizing" \/ (seen.phase = "Ready" /\ seen.term # "Drain")
            -> "Timeout"
      [] OTHER -> "none"

\* (Mutant of EndRun: the status first, the Runtime Server best effort.)
EndRunStatusFirst ==
    /\ Handle({"Running", "Ready", "Finalizing"}) /\ ar.held /\ MustEnd # "none"
    /\ ctl' = EndWith(MustEnd, Unregistered)
    /\ UNCHANGED <<env, apiVars, ar, job, late, server, due, callVars, history, faults>>

\* closeFunctionAndApplyTerminal, closeSessionAndApplyTerminal: the Runtime
\* Server forgets the registration, then the status is written.
EndRun ==
    /\ Handle({"Running", "Ready", "Finalizing"}) /\ ar.held /\ MustEnd # "none"
    /\ ctl' = CloseThen("terminal", MustEnd, Unregistered)
    /\ UNCHANGED <<env, apiVars, ar, job, late, server, due, callVars, history, faults>>

\* beginSessionFinalization.
BeginFinalization ==
    /\ ~IsFunction /\ Handle({"Running", "Ready"}) /\ ar.held
    /\ seen.term = "Drain" /\ MustEnd # "Cancelled" /\ seen = run
    /\ run' = [run EXCEPT !.phase = "Finalizing"]
    /\ UNCHANGED <<env, seen, ar, ctl, job, late, server, due, callVars, history, faults>>

\* reconcileFinalizing, the queue being drained: close, export, Succeeded.
Finalize ==
    /\ ~IsFunction /\ Handle({"Finalizing"}) /\ ar.held /\ MustEnd = "none"
    /\ ctl' = CloseThen("terminal", "Succeeded", Unregistered)
    /\ UNCHANGED <<env, apiVars, ar, job, late, server, due, callVars, history, faults>>

Registering == /\ ar.held /\ MustEnd = "none"
               /\ ~IsFunction => seen.phase = "Running" /\ seen.term # "Drain"

\* reconcileRetryBackoff, once the backoff has passed.
Retry ==
    /\ Handle({"Running"}) /\ Registering /\ ~seen.running /\ seen = run
    /\ run' = [run EXCEPT !.running = TRUE]
    /\ UNCHANGED <<env, seen, ar, ctl, job, late, server, due, callVars, history, faults>>

Polling == Handle({"Running", "Ready"}) /\ Registering /\ (seen.phase = "Running" => seen.running)

\* reconcileFunctionRegistration, reconcileSessionRegistration: nothing is
\* registered, no failure is recorded and no goroutine is on its way.
StartRegistration ==
    /\ Polling
    /\ IF IsFunction THEN ar.reg = 0 ELSE server.id = 0
    /\ ~ar.failure /\ ~ar.registering
    /\ StartJob(ar)
    /\ UNCHANGED <<env, apiVars, ctl, late, server, due, callVars, stray, lostReady, faults>>

\* resetFunctionRegistration.
resetFunctionRegistration(x) == [x EXCEPT !.registering = FALSE, !.reg = 0, !.failure = FALSE, !.closed = FALSE]

\* applyFailure: another attempt, or Failed. A function drops its handle only
\* when the retry finds it Running.
applyFailure(x) ==
    IF seen.attempt < env.attempts
    THEN /\ run' = IF seen = run THEN [run EXCEPT !.attempt = @ + 1, !.running = FALSE] ELSE run
         /\ ar' = IF IsFunction /\ seen = run /\ seen.phase = "Running"
                  THEN resetFunctionRegistration(x) ELSE x
         /\ UNCHANGED ctl
    ELSE ar' = x /\ ctl' = EndWith("Failed", Unregistered) /\ UNCHANGED run

\* A failure the goroutine recorded is consumed and applied.
ApplyRecordedFailure ==
    /\ Polling
    /\ IF IsFunction THEN ar.reg = 0 ELSE server.id = 0
    /\ ar.failure
    /\ applyFailure([ar EXCEPT !.failure = FALSE])
    /\ UNCHANGED <<env, seen, job, late, server, due, callVars, history, faults>>

\* FunctionStatus of the handle: not found, or draining. A handle that is
\* stale is an error, and the reconcile is repeated.
ApplyLostRegistration ==
    /\ Polling /\ IsFunction /\ ar.reg # 0
    /\ server.id = 0 \/ (server.id = ar.reg /\ server.state = "draining")
    /\ lostReady' = (lostReady \/ seen.phase = "Ready")
    /\ applyFailure(ar)
    /\ UNCHANGED <<env, seen, job, late, server, due, callVars, tried, stray, faults>>

\* reconcileFunctionReadyStatus: the deadline and the idle timeout.
FunctionExpires ==
    /\ Polling /\ IsFunction /\ ar.reg # 0 /\ server.id = ar.reg /\ server.state = "ready"
    /\ Now("deadline") \/ (Now("idle") /\ server.call = "none")
    /\ ctl' = CloseThen("terminal", "Timeout", Unregistered)
    /\ UNCHANGED <<env, apiVars, ar, job, late, server, due, callVars, history, faults>>

\* applyFunctionReady, applySessionReady.
ApplyReady ==
    /\ Polling /\ seen.phase = "Running" /\ seen = run
    /\ IF IsFunction THEN ar.reg # 0 /\ server.id = ar.reg /\ server.state = "ready" /\ due = {}
                     ELSE server.id # 0
    /\ run' = [run EXCEPT !.phase = "Ready"]
    /\ UNCHANGED <<env, seen, ar, ctl, job, late, server, due, callVars, history, faults>>

------------------------------------------------------------------------------
(* Closing the registration, the terminal status, and deletion.             *)

\* reconcileDeletingRegistration: the Runtime Server's state has to go first.
BeginDeletion ==
    /\ Quiet /\ seen.deleting /\ seen.phase # "Gone"
    /\ ctl' = CloseThen("finalize", "none", Unregistered)
    /\ stray' = (stray \/ run.phase = "Gone")
    /\ UNCHANGED <<env, apiVars, ar, job, late, server, due, callVars, tried, lostReady, faults>>

\* The close returned an error: a terminal Run is released nevertheless
\* (bestEffortReleaseRuntimeServerState), any other is tried again.
CloseFailed ==
    IF ctl.then = "release" THEN [ctl EXCEPT !.pc = "release"] ELSE Idle

\* functionClosed or sessionClosed is set and the reconcile goes on.
Closed(x) ==
    LET next == [ctl EXCEPT !.pc = IF ctl.then = "terminal" THEN "terminal" ELSE "release"]
    IN IF ar.held THEN ar' = [x EXCEPT !.closed = TRUE] /\ ctl' = next
                  ELSE ar' = ar /\ ctl' = [next EXCEPT !.tmp = [x EXCEPT !.closed = TRUE]]

\* ensureActiveSessionClosed: CloseSession, whatever the goroutine is doing.
CloseSession ==
    /\ ctl.pc = "close" /\ ~IsFunction
    /\ server' = IF Mine.closed THEN server ELSE NoServer
    /\ Closed(Mine)
    /\ stray' = (stray \/ job.pc # "none")
    /\ UNCHANGED <<env, apiVars, job, late, due, callVars, tried, lostReady, faults>>

\* ensureActiveFunctionClosed without a handle: not while the goroutine runs;
\* otherwise the function is prepared and registered to learn its id.
RecoverHandle ==
    /\ ctl.pc \in {"close", "replace"} /\ IsFunction /\ ~Mine.closed /\ Mine.reg = 0
    /\ LET x == [Mine EXCEPT !.prepared = SourcePrepared]
           id == RegisterResult(ctl.snap.attempt)
       IN \/ /\ Mine.registering \/ ~(Mine.prepared \/ SourcePrepared) \/ ~ValidRegistration
             /\ ctl' = CloseFailed
             /\ UNCHANGED <<ar, server>>
          \/ /\ ~Mine.registering /\ (Mine.prepared \/ SourcePrepared) /\ ValidRegistration
             /\ IF MustDrain(ctl.snap.attempt)
                THEN /\ ctl.pc = "close"
                     /\ ctl' = [ctl EXCEPT !.pc = "replace"]
                     /\ server' = [server EXCEPT !.cancelled = TRUE]
                     /\ UNCHANGED ar
                ELSE /\ Registered(ctl.snap.attempt, id)
                     /\ IF id = 0 THEN ctl' = CloseFailed /\ UNCHANGED ar
                        ELSE IF ar.held
                        THEN ar' = [x EXCEPT !.reg = id] /\ ctl' = [ctl EXCEPT !.pc = "close"]
                        ELSE ar' = ar /\ ctl' = [ctl EXCEPT !.pc = "close", !.tmp = [x EXCEPT !.reg = id]]
    /\ UNCHANGED <<env, apiVars, job, late, due, callVars, history, faults>>

\* (Mutant of BeginDrain: a registration that is not found is an error.)
BeginDrainStrict ==
    /\ ctl.pc = "close" /\ IsFunction /\ (Mine.reg # 0 \/ Mine.closed)
    /\ \/ /\ Mine.closed \/ server.id # Mine.reg
          /\ IF Mine.closed THEN Closed(Mine) ELSE ctl' = CloseFailed /\ UNCHANGED ar
          /\ UNCHANGED server
       \/ /\ ~Mine.closed /\ server.id = Mine.reg /\ server.id # 0 /\ job.pc # "replace"
          /\ server' = [server EXCEPT !.state = "draining", !.cancelled = TRUE]
          /\ ctl' = [ctl EXCEPT !.pc = "drain"] /\ UNCHANGED ar
    /\ UNCHANGED <<env, apiVars, job, late, due, callVars, history, faults>>

\* UnregisterFunction: nothing to remove, another registration, or a drain
\* that cancels the invocation in flight.
BeginDrain ==
    /\ ctl.pc = "close" /\ IsFunction /\ (Mine.reg # 0 \/ Mine.closed)
    /\ \/ /\ Mine.closed \/ server.id # Mine.reg
          /\ IF Mine.closed \/ server.id = 0 THEN Closed(Mine) ELSE ctl' = CloseFailed /\ UNCHANGED ar
          /\ UNCHANGED server
       \/ /\ ~Mine.closed /\ server.id = Mine.reg /\ server.id # 0 /\ job.pc # "replace"
          /\ server' = [server EXCEPT !.state = "draining", !.cancelled = TRUE]
          /\ ctl' = [ctl EXCEPT !.pc = "drain"] /\ UNCHANGED ar
    /\ UNCHANGED <<env, apiVars, job, late, due, callVars, history, faults>>

\* (Mutant of Unregister: the invocation in flight is not waited for.)
UnregisterAtOnce ==
    /\ ctl.pc = "drain"
    /\ server' = NoServer /\ Closed(Mine)
    /\ UNCHANGED <<env, apiVars, job, late, due, callVars, history, faults>>

\* waitForFunction, then the registration is removed.
Unregister ==
    /\ ctl.pc = "drain" /\ server.call = "none"
    /\ server' = NoServer /\ Closed(Mine)
    /\ UNCHANGED <<env, apiVars, job, late, due, callVars, history, faults>>

\* The close call fails or is not answered in time; a drain that was begun
\* stays begun.
CloseCallFails ==
    /\ ctl.pc \in {"close", "drain", "replace"} /\ ~Mine.closed
    /\ faults < env.faults /\ faults' = faults + 1
    /\ ctl' = CloseFailed
    /\ UNCHANGED <<env, apiVars, ar, job, late, server, due, callVars, history>>

\* applyTerminal: the status, and then cleanup, which closes once more.
ApplyTerminal ==
    /\ ctl.pc = "terminal"
    /\ IF Current
       THEN /\ run' = [run EXCEPT !.phase = ctl.phase, !.running = FALSE]
            /\ ctl' = [ctl EXCEPT !.pc = "close", !.then = "release"]
       ELSE UNCHANGED run /\ ctl' = Idle
    /\ UNCHANGED <<env, seen, ar, job, late, server, due, callVars, history, faults>>

\* The calls that rely on the outputs file.
Sharing == {q \in Invocations : inv[q].pc \in {"reset", "running", "answered"}}

\* releaseLocalRunState: the claim and the files. The goroutine keeps the
\* activeRun it was started with.
Release ==
    /\ ctl.pc = "release"
    /\ ar' = Unregistered
    /\ job' = IF job.pc = "none" THEN job ELSE [job EXCEPT !.orphan = TRUE]
    /\ stray' = (stray \/ job.pc # "none")
    /\ outfile' = "none" /\ contended' = contended \cup Sharing
    /\ ctl' = IF ctl.then = "finalize" THEN [ctl EXCEPT !.pc = "finalize"] ELSE Idle
    /\ UNCHANGED <<env, apiVars, late, server, due, inv, tried, lostReady, faults>>

\* RemoveFinalizer and Update: the Run is gone.
RemoveFinalizer ==
    /\ ctl.pc = "finalize"
    /\ run' = IF Current THEN Absent ELSE run
    /\ Return
    /\ UNCHANGED <<env, seen, ar, job, late, server, due, callVars, history, faults>>

------------------------------------------------------------------------------
(* InvokeFunction on the owner: proxy, Runtime Server, outputs file.        *)

SetCall(q, x) == inv' = [inv EXCEPT ![q] = x]

\* functionRun and the lookup of the handle.
Route(q) ==
    /\ q \in env.calls /\ inv[q].pc = "idle"
    /\ SetCall(q, IF seen.phase = "Ready" /\ ar.held /\ ar.reg # 0 /\ ~Now("deadline")
                  THEN [inv[q] EXCEPT !.pc = "routed", !.id = ar.reg]
                  ELSE [inv[q] EXCEPT !.pc = "refused", !.id = 0])
    /\ UNCHANGED <<env, apiVars, ar, ctl, job, late, server, due, outfile, contended, history, faults>>

\* resetFunctionInvocationOutputs, before the Runtime Server admits the call.
Reset(q) ==
    /\ inv[q].pc = "routed"
    /\ outfile' = "none"
    /\ SetCall(q, [inv[q] EXCEPT !.pc = "reset"])
    /\ contended' = contended \cup (IF Sharing = {} THEN {} ELSE Sharing \cup {q})
    /\ UNCHANGED <<env, apiVars, ar, ctl, job, late, server, due, history, faults>>

\* matchFunction and startInvocation: the registration of the handle, ready,
\* one call at a time.
Admissible(q) == server.id = inv[q].id /\ server.state = "ready" /\ server.call = "none"

Admit(q) ==
    /\ inv[q].pc = "reset" /\ ~Locked
    /\ \/ /\ Admissible(q)
          /\ server' = [server EXCEPT !.call = q, !.cancelled = FALSE]
          /\ SetCall(q, [inv[q] EXCEPT !.pc = "running"])
          /\ due' = due \ {"idle"}
       \/ /\ ~Admissible(q)
          /\ SetCall(q, [inv[q] EXCEPT !.pc = "refused", !.id = 0])
          /\ UNCHANGED <<server, due>>
    /\ UNCHANGED <<env, apiVars, ar, ctl, job, late, outfile, contended, history, faults>>

\* The handler writes its outputs, or does not.
Write(q) ==
    /\ inv[q].pc = "running" /\ ~inv[q].wrote
    /\ outfile' = q
    /\ SetCall(q, [inv[q] EXCEPT !.wrote = TRUE])
    /\ UNCHANGED <<env, apiVars, ar, ctl, job, late, server, due, contended, history, faults>>

\* invokeBashFunction returns, or its context was cancelled; finishInvocation.
Finish(q) ==
    /\ inv[q].pc = "running"
    /\ SetCall(q, [inv[q] EXCEPT !.pc = IF server.cancelled THEN "refused" ELSE "answered", !.id = 0])
    /\ server' = IF server.call = q THEN [server EXCEPT !.call = "none"] ELSE server
    /\ due' = due \ {"idle"}
    /\ UNCHANGED <<env, apiVars, ar, ctl, job, late, outfile, contended, history, faults>>

\* readOutputs, after the Runtime Server has answered.
Read(q) ==
    /\ inv[q].pc = "answered"
    /\ SetCall(q, [inv[q] EXCEPT !.pc = "done", !.id = 0, !.out = outfile])
    /\ UNCHANGED <<env, apiVars, ar, ctl, job, late, server, due, outfile, contended, history, faults>>

------------------------------------------------------------------------------
(* The environment.                                                         *)

Observe ==
    /\ seen # run /\ seen' = run
    /\ UNCHANGED <<env, run, ar, ctl, job, late, server, due, callVars, history, faults>>

\* spec.termination: monotonic, Immediate after Drain.
Terminate ==
    /\ run.phase # "Gone"
    /\ \/ /\ "Immediate" \in env.ends /\ run.term # "Immediate"
          /\ run' = [run EXCEPT !.term = "Immediate"]
       \/ /\ "Drain" \in env.ends /\ run.term = "none"
          /\ run' = [run EXCEPT !.term = "Drain"]
    /\ UNCHANGED <<env, seen, ar, ctl, job, late, server, due, callVars, history, faults>>

Delete ==
    /\ "Delete" \in env.ends /\ run.phase # "Gone" /\ ~run.deleting
    /\ run' = IF run.final THEN [run EXCEPT !.deleting = TRUE] ELSE Absent
    /\ UNCHANGED <<env, seen, ar, ctl, job, late, server, due, callVars, history, faults>>

TimePasses ==
    /\ \E t \in env.ends \cap {"deadline", "idle"} :
          t \notin due /\ due' = due \cup {t}
    /\ UNCHANGED <<env, apiVars, ar, ctl, job, late, server, callVars, history, faults>>

\* runtimed dies; a call it had made may still take effect, and the context
\* of an invocation is cancelled.
Restart ==
    /\ faults < env.faults /\ faults' = faults + 1
    /\ ar' = Unregistered /\ job' = NoJob /\ ctl' = Idle
    /\ \/ UNCHANGED <<late, stray>>
       \/ /\ job.pc = "call" /\ late' = late \cup {job.attempt} /\ stray' = TRUE
    /\ inv' = [q \in Invocations |->
                 IF inv[q].pc \in {"routed", "reset", "answered"}
                 THEN [inv[q] EXCEPT !.pc = "refused", !.id = 0] ELSE inv[q]]
    /\ server' = [server EXCEPT !.cancelled = server.call # "none"]
    /\ UNCHANGED <<env, apiVars, due, outfile, contended, tried, lostReady>>

\* The Runtime Server's container restarts: its registry is in memory.
ServerRestart ==
    /\ faults < env.faults /\ faults' = faults + 1
    /\ server' = NoServer /\ late' = {}
    /\ ctl' = IF ctl.pc \in {"drain", "replace"} THEN CloseFailed ELSE ctl
    /\ IF job.pc = "replace" THEN FinishJob(0) ELSE UNCHANGED <<job, ar>>
    /\ inv' = [q \in Invocations |->
                 IF inv[q].pc = "running" THEN [inv[q] EXCEPT !.pc = "refused", !.id = 0] ELSE inv[q]]
    /\ UNCHANGED <<env, apiVars, due, outfile, contended, history>>

------------------------------------------------------------------------------
Init ==
    /\ env \in Scenarios
    /\ run = [phase |-> "Scheduled", attempt |-> 1, running |-> FALSE, term |-> "none",
              deleting |-> FALSE, final |-> FALSE]
    /\ seen = run
    /\ ar = Unregistered /\ ctl = Idle /\ job = NoJob /\ late = {}
    /\ server = NoServer /\ due = {}
    /\ inv = [q \in Invocations |-> [pc |-> "idle", id |-> 0, wrote |-> FALSE, out |-> "none"]]
    /\ outfile = "none"
    /\ tried = 0 /\ contended = {} /\ stray = FALSE /\ lostReady = FALSE
    /\ faults = 0

Goroutine == Prepare \/ Replace \/ Register
Reconcile ==
    \/ Schedule \/ Claim \/ RecoverFunction \/ RecoverSession
    \/ EndRun \/ BeginFinalization \/ Finalize \/ Retry
    \/ StartRegistration \/ ApplyRecordedFailure \/ ApplyLostRegistration
    \/ FunctionExpires \/ ApplyReady \/ BeginDeletion
    \/ CloseSession \/ RecoverHandle \/ BeginDrain \/ Unregister
    \/ ApplyTerminal \/ Release \/ RemoveFinalizer
Calls == \E q \in Invocations : Route(q) \/ Reset(q) \/ Admit(q) \/ Write(q) \/ Finish(q) \/ Read(q)
Handlers == \E q \in Invocations : Admit(q) \/ Finish(q) \/ Read(q)
Environment == Terminate \/ Delete \/ TimePasses
Faults == RegisterFails \/ CloseCallFails \/ Restart \/ ServerRestart

Next == Goroutine \/ Reconcile \/ Calls \/ LateCall \/ Observe \/ Environment \/ Faults

Spec == Init /\ [][Next]_vars

\* The goroutine runs, the queue hands the Run out again (every branch
\* requeues or the change is watched), the cache catches up, and a handler
\* ends (its context has a deadline).
FairSpec == /\ Spec
            /\ WF_vars(Goroutine) /\ WF_vars(Reconcile) /\ WF_vars(Observe)
            /\ WF_vars(Handlers)

------------------------------------------------------------------------------
(* Properties.                                                              *)

ArType == [held : BOOLEAN, reg : Ids \cup {0}, registering : BOOLEAN, failure : BOOLEAN,
           prepared : BOOLEAN, closed : BOOLEAN]
RunType == [phase : {"Scheduled", "Running", "Ready", "Finalizing", "Gone"} \cup Ended,
            attempt : 0..env.attempts, running : BOOLEAN,
            term : {"none", "Drain", "Immediate"}, deleting : BOOLEAN, final : BOOLEAN]

\* The types, and that the claim's flag registering is set exactly while its
\* goroutine runs: beginFunctionRegistration admits one at a time.
TypeOK ==
    /\ env \in Scenarios
    /\ run \in RunType /\ seen \in RunType
    /\ ar \in ArType
    /\ ctl.pc \in {"idle", "claim", "close", "replace", "drain", "terminal", "release", "finalize"}
    /\ ctl.tmp \in ArType
    /\ server.id \in Ids \cup {0} /\ server.call \in Invocations \cup {"none"}
    /\ ar.registering <=> (job.pc # "none" /\ ~job.orphan)
    /\ faults \in 0..env.faults

\* InvokeFunction, RegisterFunction and UnregisterFunction share the lifecycle
\* barrier operationMu: a handler runs only for the registration that is
\* current, alone, and a registration that was replaced or removed has no
\* handler still running.
HandlerFenced ==
    \A q \in Invocations : inv[q].pc = "running" => server.id = inv[q].id /\ server.call = q

\* reconcileDeletingRegistration: a Run that was registered is gone only once
\* the Runtime Server has no registration of it, unless a registration call was under way when
\* it was closed or was begun after it.
DeletedLeavesNothing ==
    (run.phase = "Gone" /\ tried > 0 /\ ~stray) => server.id = 0

\* closeFunctionAndApplyTerminal, closeSessionAndApplyTerminal: a Run that was
\* registered and is cancelled or timed out serves no invocation, and its
\* Runtime Server has nothing of it, with the same exception, until its
\* deletion registers it once more to unregister it.
EndedUnserved ==
    (run.phase \in Ended \ {"Failed"} /\ tried > 0 /\ ~run.deleting /\ ~stray)
        => server.id = 0 /\ \A q \in Invocations : inv[q].pc # "running"

\* resetFunctionInvocationOutputs and readOutputs: an answered call returns
\* the outputs its own handler wrote, unless another call or the release of the
\* Run was at the outputs file meanwhile.
OutputsUnlessContended ==
    \A q \in Invocations \ contended :
        inv[q].pc = "done" => inv[q].out = IF inv[q].wrote THEN q ELSE "none"

\* A call is served by the registration it was made to, and answered with its
\* own outputs; claims and goroutines agree on who is registering.
CallsSound == TypeOK /\ HandlerFenced /\ OutputsUnlessContended

\* applyFunctionRegistrationFailure: a function that fails has used its attempts,
\* and for each of them a registration was started, unless the registration
\* was lost while the Run was Ready.
AttemptsTried ==
    (IsFunction /\ run.phase = "Failed" /\ ~lostReady) => tried >= run.attempt

\* A Run that ends leaves nothing that serves, and fails only after it has tried.
EndsClean == DeletedLeavesNothing /\ EndedUnserved /\ AttemptsTried

Registrable == SourcePrepared /\ ValidRegistration

\* What cannot be closed: a function that cannot be registered, once it has
\* to be unregistered.
Unclosable == IsFunction /\ ~Registrable /\ (run.deleting \/ run.term = "Immediate" \/ due # {})

\* Every registration settles: a Running Run becomes Ready, retries until it
\* fails, or ends, unless it is one that cannot be closed or a stray call
\* left runtimed with the handle of an older registration.
RegistrationSettles == run.phase = "Running" ~> (run.phase # "Running" \/ Unclosable \/ stray)

\* A deletion ends, for a Run whose source and handler can be registered (an
\* unregistration registers a function first when runtimed has no handle).
DeletionEnds == (Registrable /\ run.deleting) ~> (run.phase = "Gone" \/ stray)

\* So does a cancellation of a claimed Run.
CancellationEnds ==
    (Registrable /\ run.term = "Immediate" /\ run.phase # "Gone") ~> (RunOver \/ stray)

\* Whatever fails on the way, a registration, a deletion and a cancellation end.
RegistrationsSettle == RegistrationSettles /\ DeletionEnds /\ CancellationEnds

\* Too strong: a deletion ends whatever the function is. One that cannot be
\* registered cannot be unregistered either, and keeps its finalizer for ever.
DeletionAlwaysEnds == run.deleting ~> run.phase = "Gone"

\* Too strong: the outputs a call returns are its own. A call that is refused
\* admission has already reset the file of the one in progress.
OutputsOwn ==
    \A q \in Invocations : inv[q].pc = "done" => inv[q].out = IF inv[q].wrote THEN q ELSE "none"
==============================================================================
