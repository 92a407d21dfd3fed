------------------------------- MODULE Sessions -------------------------------
(***************************************************************************)
(* One Ready Session Run on its owner runtimed: the FIFO queue of its      *)
(* operations (SessionOperationQueue), the durable journal of each         *)
(* operation (sessionOperationStore), the proxy handlers that submit or    *)
(* resume an operation (sessionRuntimeProxy), the Runtime Server's session *)
(* and the reconciler that drains, closes, exports and ends the Run.       *)
(*                                                                         *)
(* A request is one StreamSessionOperation call. Requests with the same    *)
(* OpOf carry the same idempotency key and the same payload. An event is   *)
(* its sequence number and its kind; what it carries is abstracted.        *)
(***************************************************************************)
EXTENDS Naturals, Sequences

CONSTANTS
    Requests,        \* StreamSessionOperation calls
    Scenarios,       \* what the environment may do: [requests, drops, ends, faults]
    OpOf,            \* the idempotency key each of them carries
    Peer,            \* requests that reach a Pod that is not the owner
    QueueSize,       \* capacity of the channel entry.jobs
    SubscriberSize,  \* sessionOperationSubscriberSize
    MaxOutputs       \* most output events of each operation

ASSUME SessionAssumption == QueueSize \in Nat /\ SubscriberSize \in Nat

Ops == {OpOf[r] : r \in Requests}
Terminal == {"Succeeded", "Failed", "Timeout", "Cancelled"}
LastKinds == {"completed", "failed"}

VARIABLES
    run,        \* the Run in the API: [phase, term]; term is spec.termination.mode
    seen,       \* the Run in runtimed's cache
    claim,      \* activeRuns: [held, closed]; closed is activeRun.sessionClosed
    ctl,        \* the reconcile in progress: [pc, outcome]
    server,     \* the Runtime Server has the session
    current,    \* q.sessions[uid]: index of the entry, 0 for none
    entries,    \* the queue entries created so far, each with its goroutine
    journal,    \* durable journals: key -> sequence of [n, kind], for the keys begun
    active,     \* sessionOperationStore.active
    env,        \* the scenario: the requests made, the ones whose client may leave,
                \* the ends (Drain, Immediate, Lease), the number of restarts and of
                \* failed or unanswered calls
    req,        \* the state of each request and of its job
    busy,       \* operations whose processes run in the Runtime Server's container
    started,    \* history: executions of each operation on the Runtime Server
    unanswered, \* history: operations with an event stored by a call that failed
    faults

queueVars == <<current, entries>>
storeVars == <<journal, active, unanswered>>
ctlVars   == <<run, seen, claim, ctl, server>>
serverOps == <<busy, started, env>>
vars == <<run, seen, claim, ctl, server, current, entries, journal, active, env, req,
          busy, started, unanswered, faults>>

NoEntry == [state |-> "open", pending |-> 0, jobs |-> <<>>, job |-> <<>>]

NewRequest == [pc |-> "idle", cursor |-> 0, got |-> <<>>, gone |-> FALSE,
               seq |-> 0, n |-> 0, entry |-> 0, admitted |-> FALSE, cancelled |-> FALSE,
               work |-> "none", wn |-> 0, wkind |-> "none", outs |-> 0, result |-> "none",
               sub |-> "none", buf |-> <<>>]

Begun(o) == o \in DOMAIN journal
Ended(o) == Begun(o) /\ journal[o] # <<>> /\ journal[o][Len(journal[o])].kind \in LastKinds

------------------------------------------------------------------------------
(* The store.                                                               *)

\* appendStoredSessionOperationEvent: what the journal accepts.
Contiguous(o, n) == ~Ended(o) /\ n = Len(journal[o]) + 1

\* The number of the last event a client was sent.
Latest(got) == IF got = <<>> THEN 0 ELSE got[Len(got)]

\* server.Send to a client that listens. A request that came through another
\* Pod is relayed there by forwardSessionOperationEvents, which counts from 0
\* and fails on the first event that is not the next one.
Send(r, x, n) ==
    IF x.gone THEN x
    ELSE IF r \in Peer /\ n # Latest(x.got) + 1
         THEN [x EXCEPT !.gone = TRUE, !.cancelled = TRUE]
         ELSE [x EXCEPT !.got = Append(@, n)]

\* (Mutant of broadcastLocked: a full channel drops the event and stays.)
BroadcastLossy(o, n, last) ==
    [r \in Requests |->
        LET x == req[r] IN
        IF OpOf[r] # o \/ x.sub # "open" THEN x
        ELSE [x EXCEPT !.buf = IF Len(@) < SubscriberSize THEN Append(@, n) ELSE @,
                       !.sub = IF last THEN "closed" ELSE "open"]]

\* (Mutant of broadcastLocked: the terminal event leaves the channels open.)
BroadcastOpen(o, n, last) ==
    [r \in Requests |->
        LET x == req[r] IN
        IF OpOf[r] # o \/ x.sub # "open" THEN x
        ELSE IF Len(x.buf) < SubscriberSize THEN [x EXCEPT !.buf = Append(@, n)]
             ELSE [x EXCEPT !.sub = "closed"]]

\* broadcastLocked: a subscriber whose channel is full is detached, and the
\* terminal event detaches all.
broadcastLocked(o, n, last) ==
    [r \in Requests |->
        LET x == req[r] IN
        IF OpOf[r] # o \/ x.sub # "open" THEN x
        ELSE IF Len(x.buf) < SubscriberSize
             THEN [x EXCEPT !.buf = Append(@, n), !.sub = IF last THEN "closed" ELSE "open"]
             ELSE [x EXCEPT !.sub = "closed"]]

\* Append: the event is stored and then broadcast, under store.mu.
Store(o, n, kind) ==
    /\ Contiguous(o, n)
    /\ journal' = [journal EXCEPT ![o] = Append(@, [n |-> n, kind |-> kind])]
    /\ active' = IF kind \in LastKinds THEN active \ {o} ELSE active
    /\ UNCHANGED unanswered

\* Append fails: the journal refuses the event, the API refuses the update, or
\* the update is applied and its answer is lost (nothing is broadcast then).
StoreFails(o, n, kind) ==
    \/ ~Contiguous(o, n) /\ UNCHANGED <<storeVars, faults>>
    \/ /\ Contiguous(o, n) /\ faults < env.faults /\ faults' = faults + 1
       /\ UNCHANGED storeVars
    \/ /\ Contiguous(o, n) /\ faults < env.faults /\ faults' = faults + 1
       /\ journal' = [journal EXCEPT ![o] = Append(@, [n |-> n, kind |-> kind])]
       /\ unanswered' = unanswered \cup {o}
       /\ UNCHANGED active

------------------------------------------------------------------------------
(* The handler of a request: route, Begin, ExecuteWithAdmission.            *)

\* route: the cached Run must be Ready.
Route(r) ==
    /\ r \in env.requests /\ req[r].pc = "idle"
    /\ req' = [req EXCEPT ![r].pc = IF seen.phase = "Ready" THEN "routed" ELSE "done"]
    /\ UNCHANGED <<ctlVars, queueVars, storeVars, serverOps, faults>>

\* Begin creates the journal, or finds it: only its creator submits the work.
Begin(r) ==
    /\ req[r].pc = "routed"
    /\ LET o == OpOf[r] IN
       IF Begun(o)
       THEN /\ req' = [req EXCEPT ![r].pc = "resuming"]
            /\ UNCHANGED <<journal, active>>
       ELSE /\ journal' = [k \in DOMAIN journal \cup {o} |-> IF k = o THEN <<>> ELSE journal[k]]
            /\ active' = active \cup {o}
            /\ req' = [req EXCEPT ![r].pc = "begun"]
    /\ UNCHANGED <<ctlVars, queueVars, unanswered, serverOps, faults>>

\* Create is not answered: the request fails, the journal may be there, and the
\* store does not know the operation as active.
BeginFails(r) ==
    /\ req[r].pc = "routed" /\ faults < env.faults /\ faults' = faults + 1
    /\ req' = [req EXCEPT ![r].pc = "done"]
    /\ \/ UNCHANGED journal
       \/ /\ ~Begun(OpOf[r])
          /\ journal' = [k \in DOMAIN journal \cup {OpOf[r]} |->
                            IF k = OpOf[r] THEN <<>> ELSE journal[k]]
    /\ UNCHANGED <<ctlVars, queueVars, active, unanswered, serverOps>>

\* (Mutant of Admit: the entry of the Session is not found.)
AdmitApart(r) ==
    /\ req[r].pc = "begun"
    /\ entries' = Append(entries, [NoEntry EXCEPT !.pending = 1, !.jobs = <<r>>])
    /\ current' = Len(entries) + 1
    /\ req' = [req EXCEPT ![r].pc = "admitting", ![r].entry = Len(entries) + 1]
    /\ UNCHANGED <<ctlVars, storeVars, serverOps, faults>>

\* ExecuteWithAdmission under q.mu: a missing entry is created, a draining one
\* refuses, a full channel refuses, else the job is queued.
Admit(r) ==
    /\ req[r].pc = "begun"
    /\ LET all == IF current = 0 THEN Append(entries, NoEntry) ELSE entries
           e   == IF current = 0 THEN Len(all) ELSE current
       IN /\ current' = e
          /\ IF all[e].state = "open" /\ Len(all[e].jobs) < QueueSize
             THEN /\ entries' = [all EXCEPT ![e].pending = @ + 1,
                                            ![e].jobs = Append(@, r)]
                  /\ req' = [req EXCEPT ![r].pc = "admitting", ![r].entry = e]
             ELSE /\ entries' = all
                  /\ req' = [req EXCEPT ![r].pc = "done"]
    /\ UNCHANGED <<ctlVars, storeVars, serverOps, faults>>

\* onAdmitted: event 1 is stored and sent, then the job is released. When the
\* client is gone the send fails after the event was stored.
Accepted(r) ==
    /\ req[r].pc = "admitting"
    /\ Store(OpOf[r], 1, "accepted")
    /\ LET all == broadcastLocked(OpOf[r], 1, FALSE)
           x   == [all[r] EXCEPT !.seq = 1, !.admitted = TRUE]
       IN req' = [all EXCEPT ![r] = IF x.gone
                                    THEN [x EXCEPT !.cancelled = TRUE, !.pc = "done"]
                                    ELSE [Send(r, x, 1) EXCEPT !.pc = "waiting"]]
    /\ UNCHANGED <<ctlVars, queueVars, serverOps, faults>>

AcceptedFails(r) ==
    /\ req[r].pc = "admitting"
    /\ StoreFails(OpOf[r], 1, "accepted")
    /\ req' = [req EXCEPT ![r].seq = 1, ![r].admitted = TRUE, ![r].cancelled = TRUE,
                          ![r].pc = "done"]
    /\ UNCHANGED <<ctlVars, queueVars, serverOps>>

\* The handler takes the job's result, or leaves because its client has gone.
\* Leaving cancels the job. After an error it numbers a failure event; while
\* the worker is numbering one of its own the counter is read in a race.
Returns(r) ==
    /\ req[r].pc = "waiting"
    /\ \/ /\ req[r].result = "ok"
          /\ req' = [req EXCEPT ![r].pc = "done", ![r].cancelled = TRUE]
       \/ /\ req[r].result = "err" \/ req[r].gone
          /\ \E n \in IF req[r].work = "storing" THEN {req[r].seq, req[r].seq + 1}
                                                 ELSE {req[r].seq + 1} :
                req' = [req EXCEPT ![r].pc = "failing", ![r].cancelled = TRUE,
                                   ![r].n = n, ![r].seq = n]
    /\ UNCHANGED <<ctlVars, queueVars, storeVars, serverOps, faults>>

\* persistAndSend(sessionOperationFailure(...)), and the handler returns.
FailureStored(r) ==
    /\ req[r].pc = "failing"
    /\ Store(OpOf[r], req[r].n, "failed")
    /\ LET all == broadcastLocked(OpOf[r], req[r].n, TRUE)
       IN req' = [all EXCEPT ![r] = [Send(r, @, req[r].n) EXCEPT !.pc = "done"]]
    /\ UNCHANGED <<ctlVars, queueVars, serverOps, faults>>

FailureLost(r) ==
    /\ req[r].pc = "failing"
    /\ StoreFails(OpOf[r], req[r].n, "failed")
    /\ req' = [req EXCEPT ![r].pc = "done"]
    /\ UNCHANGED <<ctlVars, queueVars, serverOps>>

\* The client cancels, or its connection breaks: the request's context ends.
Disconnect(r) ==
    /\ r \in env.drops /\ req[r].pc \notin {"idle", "done"} /\ ~req[r].gone
    /\ req' = [req EXCEPT ![r].gone = TRUE, ![r].cancelled = TRUE]
    /\ UNCHANGED <<ctlVars, queueVars, storeVars, serverOps, faults>>

------------------------------------------------------------------------------
(* The handler of a request whose journal exists: resumeSessionOperation.   *)

\* The client resumes after the last event it has, of those the requests with
\* the same key have been sent.
Known(o) == UNION {{req[r].got[i] : i \in 1..Len(req[r].got)} : r \in {q \in Requests : OpOf[q] = o}}
Cursors(o) == {c \in {0} \cup Known(o) : \A m \in Known(o) : m <= c}

\* An operation that is not active in this process and has no terminal event
\* was interrupted by a restart.
Resume(r) ==
    /\ req[r].pc = "resuming"
    /\ \E c \in Cursors(OpOf[r]) :
          LET o == OpOf[r]
              x == [req[r] EXCEPT !.cursor = c, !.n = Len(journal[o]) + 1] IN
          req' = [req EXCEPT ![r] =
                     [x EXCEPT !.pc = IF o \in active \/ Ended(o) THEN "subscribing"
                                                                  ELSE "interrupted"]]
    /\ UNCHANGED <<ctlVars, queueVars, storeVars, serverOps, faults>>

Interrupted(r) ==
    /\ req[r].pc = "interrupted"
    /\ Store(OpOf[r], req[r].n, "failed")
    /\ req' = [broadcastLocked(OpOf[r], req[r].n, TRUE) EXCEPT ![r].pc = "subscribing"]
    /\ UNCHANGED <<ctlVars, queueVars, serverOps, faults>>

InterruptFails(r) ==
    /\ req[r].pc = "interrupted"
    /\ StoreFails(OpOf[r], req[r].n, "failed")
    /\ req' = [req EXCEPT ![r].pc = "done"]
    /\ UNCHANGED <<ctlVars, queueVars, serverOps>>

\* The events from..to, one after the other: only the first can fail to be the next.
SendAll(r, x, from, to) ==
    IF x.gone \/ to < from THEN x
    ELSE IF r \in Peer /\ from # Latest(x.got) + 1
         THEN [x EXCEPT !.gone = TRUE, !.cancelled = TRUE]
         ELSE [x EXCEPT !.got = @ \o [i \in 1..(to + 1 - from) |-> from + i - 1]]

\* Subscribe: what is retained after the cursor, and a channel for the rest.
Subscribe(r) ==
    /\ req[r].pc = "subscribing"
    /\ LET o == OpOf[r]
           x == SendAll(r, req[r], req[r].cursor + 1, Len(journal[o]))
       IN req' = [req EXCEPT ![r] = [x EXCEPT !.pc = "following",
                                              !.sub = IF Ended(o) THEN "closed" ELSE "open"]]
    /\ UNCHANGED <<ctlVars, queueVars, storeVars, serverOps, faults>>

\* The loop on updates, until the channel is closed or the client has gone.
Follow(r) ==
    /\ req[r].pc = "following"
    /\ LET x == req[r] IN
       \/ /\ x.gone
          /\ req' = [req EXCEPT ![r].pc = "done", ![r].sub = "closed", ![r].buf = <<>>]
       \/ /\ ~x.gone /\ x.buf # <<>>
          /\ req' = [req EXCEPT ![r] = [Send(r, x, Head(x.buf)) EXCEPT !.buf = Tail(x.buf)]]
       \/ /\ ~x.gone /\ x.buf = <<>> /\ x.sub = "closed"
          /\ req' = [req EXCEPT ![r].pc = "done"]
    /\ UNCHANGED <<ctlVars, queueVars, storeVars, serverOps, faults>>

------------------------------------------------------------------------------
(* The goroutine of queue entry e: one job at a time, in order.             *)

\* The next job of the channel; a closed channel still gives what it holds.
Take(e) ==
    /\ entries[e].job = <<>> /\ entries[e].jobs # <<>>
    /\ entries' = [entries EXCEPT ![e].job = <<Head(entries[e].jobs)>>,
                                  ![e].jobs = Tail(entries[e].jobs)]
    /\ UNCHANGED <<ctlVars, current, storeVars, req, serverOps, faults>>

\* complete(), and back to the channel.
Complete(e) == [entries EXCEPT ![e].job = <<>>, ![e].pending = @ - 1]

\* The job waits for its admission. It is answered at once when its context has
\* ended, the entry is closed, or the Runtime Server has no session.
Start(e) ==
    /\ entries[e].job # <<>>
    /\ LET r == entries[e].job[1]
           x == req[r] IN
       /\ x.work = "none" /\ (x.admitted \/ x.cancelled)
       /\ IF x.cancelled \/ entries[e].state = "closed" \/ ~server
          THEN /\ req' = [req EXCEPT ![r].work = "ended", ![r].result = "err"]
               /\ entries' = Complete(e)
               /\ UNCHANGED serverOps
          ELSE /\ req' = [req EXCEPT ![r].work = "running"]
               /\ busy' = busy \cup {OpOf[r]}
               /\ started' = [started EXCEPT ![OpOf[r]] = @ + 1]
               /\ UNCHANGED entries
    /\ UNCHANGED <<ctlVars, current, storeVars, env, faults>>

\* forwardSessionOperationEvents numbers the next event of the Runtime Server:
\* some output, or the completion.
Event(e) ==
    /\ entries[e].job # <<>>
    /\ LET r == entries[e].job[1]
           x == req[r] IN
       /\ x.work = "running" /\ x.wkind # "completed" /\ OpOf[r] \in busy
       /\ \E kind \in {"output", "completed"} :
             /\ kind = "output" => x.outs < MaxOutputs[OpOf[r]]
             /\ req' = [req EXCEPT ![r].work = "storing", ![r].seq = @ + 1,
                                   ![r].wn = x.seq + 1, ![r].wkind = kind,
                                   ![r].outs = IF kind = "output" THEN @ + 1 ELSE @]
             /\ busy' = IF kind = "completed" THEN busy \ {OpOf[r]} ELSE busy
    /\ UNCHANGED <<ctlVars, queueVars, storeVars, started, env, faults>>

\* persistAndSend of that event.
EventStored(e) ==
    /\ entries[e].job # <<>>
    /\ LET r == entries[e].job[1]
           x == req[r] IN
       /\ x.work = "storing"
       /\ Store(OpOf[r], x.wn, x.wkind)
       /\ LET all == broadcastLocked(OpOf[r], x.wn, x.wkind = "completed")
          IN IF x.gone
             THEN /\ req' = [all EXCEPT ![r].work = "ended", ![r].result = "err"]
                  /\ entries' = Complete(e)
             ELSE /\ req' = [all EXCEPT ![r] = [Send(r, @, x.wn) EXCEPT !.work = "running"]]
                  /\ UNCHANGED entries
    /\ UNCHANGED <<ctlVars, current, serverOps, faults>>

EventFails(e) ==
    /\ entries[e].job # <<>>
    /\ LET r == entries[e].job[1]
           x == req[r] IN
       /\ x.work = "storing"
       /\ StoreFails(OpOf[r], x.wn, x.wkind)
       /\ req' = [req EXCEPT ![r].work = "ended", ![r].result = "err"]
       /\ entries' = Complete(e)
    /\ UNCHANGED <<ctlVars, current, serverOps>>

\* The Runtime Server's stream ends: after the completion, or with an error when
\* the context was cancelled, the operation timeout has passed, or it died. The
\* client side of a cancelled stream ends at once, the process does not.
Stop(e) ==
    /\ entries[e].job # <<>>
    /\ LET r == entries[e].job[1]
           x == req[r] IN
       /\ x.work = "running"
       /\ \E result \in IF x.wkind = "completed" /\ ~x.cancelled THEN {"ok"} ELSE {"err"} :
             req' = [req EXCEPT ![r].work = "ended", ![r].result = result]
       /\ entries' = Complete(e)
    /\ UNCHANGED <<ctlVars, current, storeVars, serverOps, faults>>

\* terminateProcessGroupAndWait: a process whose stream is gone ends at the
\* latest after the termination grace.
Terminate(o) ==
    /\ o \in busy
    /\ \A r \in Requests : OpOf[r] = o => req[r].work \notin {"running", "storing"}
    /\ busy' = busy \ {o}
    /\ UNCHANGED <<ctlVars, queueVars, storeVars, req, started, env, faults>>

------------------------------------------------------------------------------
(* The reconciler of the Run (one worker) and the API.                      *)

Idle == [pc |-> "idle", outcome |-> "none"]

\* The user asks for the end of the Session; Immediate may follow Drain.
RequestEnd(mode) ==
    /\ mode \in env.ends /\ run.phase \notin Terminal /\ run.term # "Immediate" /\ run.term # mode
    /\ run' = [run EXCEPT !.term = mode]
    /\ UNCHANGED <<seen, claim, ctl, server, queueVars, storeVars, req, serverOps, faults>>

Observe ==
    /\ seen # run /\ seen' = run
    /\ UNCHANGED <<run, claim, ctl, server, queueVars, storeVars, req, serverOps, faults>>

Reconciles == ctl.pc = "idle" /\ claim.held

\* beginSessionFinalization; the update is refused when the cache is behind.
BeginFinalization ==
    /\ Reconciles /\ seen = [phase |-> "Ready", term |-> "Drain"]
    /\ run = seen /\ run' = [run EXCEPT !.phase = "Finalizing"]
    /\ UNCHANGED <<seen, claim, ctl, server, queueVars, storeVars, req, serverOps, faults>>

\* (Mutant of Drained: accepted work in progress is not waited for.)
NothingQueued == current = 0 \/ entries[current].jobs = <<>>

\* Drain: no accepted operation is left; a missing entry is drained.
Drained == current = 0 \/ entries[current].pending = 0

\* reconcileFinalizing: the entry stops accepting, and once it is drained the
\* session is closed.
Drain ==
    /\ Reconciles /\ seen = [phase |-> "Finalizing", term |-> "Drain"]
    /\ entries' = IF current = 0 \/ entries[current].state # "open" THEN entries
                  ELSE [entries EXCEPT ![current].state = "draining"]
    /\ ctl' = IF Drained THEN [pc |-> "closing", outcome |-> "Succeeded"] ELSE ctl
    /\ UNCHANGED <<run, seen, claim, server, current, storeVars, req, serverOps, faults>>

\* Immediate termination of a Ready or a Finalizing Session.
EndNow ==
    /\ Reconciles /\ seen.phase \in {"Ready", "Finalizing"} /\ seen.term = "Immediate"
    /\ ctl' = [pc |-> "closing", outcome |-> "Cancelled"]
    /\ UNCHANGED <<run, seen, claim, server, queueVars, storeVars, req, serverOps, faults>>

\* The lease of a Ready Session has run out. The queue entry holds the last
\* heartbeat: without an entry there is no lease deadline.
LeaseExpires ==
    /\ "Lease" \in env.ends
    /\ Reconciles /\ seen = [phase |-> "Ready", term |-> "none"] /\ current # 0
    /\ ctl' = [pc |-> "closing", outcome |-> "Timeout"]
    /\ UNCHANGED <<run, seen, claim, server, queueVars, storeVars, req, serverOps, faults>>

\* closeRuntimeSession, first half: SessionOperations.Close forgets the entry,
\* closes its channel and cancels the operation in progress. An activeRun
\* whose session is closed skips both halves.
CloseQueue ==
    /\ ctl.pc = "closing"
    /\ IF claim.closed \/ current = 0
       THEN UNCHANGED <<queueVars, req>>
       ELSE /\ current' = 0
            /\ entries' = [entries EXCEPT ![current].state = "closed"]
            /\ req' = [r \in Requests |->
                         IF <<r>> = entries[current].job /\ req[r].work \in {"running", "storing"}
                         THEN [req[r] EXCEPT !.cancelled = TRUE] ELSE req[r]]
    /\ ctl' = [ctl EXCEPT !.pc = "queueClosed"]
    /\ UNCHANGED <<run, seen, claim, server, storeVars, serverOps, faults>>

\* Second half: CloseSession removes the session and waits for no process. A
\* call that fails, answered or not, leaves the Run for another attempt.
CloseServer ==
    /\ ctl.pc = "queueClosed"
    /\ \/ /\ server' = FALSE /\ claim' = [claim EXCEPT !.closed = TRUE]
          /\ ctl' = [ctl EXCEPT !.pc = IF ctl.outcome = "Succeeded" THEN "exporting" ELSE "ending"]
          /\ UNCHANGED faults
       \/ /\ faults < env.faults /\ faults' = faults + 1
          /\ server' \in {server, FALSE}
          /\ ctl' = Idle /\ UNCHANGED claim
    /\ UNCHANGED <<run, seen, queueVars, storeVars, req, serverOps>>

\* completeFinalizingSession: collectArtifacts uploads, fails and is tried
\* again, or finds an invalid artifact.
Export ==
    /\ ctl.pc = "exporting"
    /\ \/ /\ ctl' \in {[pc |-> "ending", outcome |-> "Succeeded"], [pc |-> "ending", outcome |-> "Failed"]}
          /\ UNCHANGED faults
       \/ faults < env.faults /\ faults' = faults + 1 /\ ctl' = Idle
    /\ UNCHANGED <<run, seen, claim, server, queueVars, storeVars, req, serverOps>>

\* applyTerminal: the status update, then the cleanup of the claim (the session
\* is closed already). A conflict leaves the Run to the next reconcile.
ApplyTerminal ==
    /\ ctl.pc = "ending" /\ ctl' = Idle
    /\ IF seen = run
       THEN /\ run' = [run EXCEPT !.phase = ctl.outcome]
            /\ claim' = [held |-> FALSE, closed |-> FALSE]
       ELSE UNCHANGED <<run, claim>>
    /\ UNCHANGED <<seen, server, queueVars, storeVars, req, serverOps, faults>>

\* reconcileSessionRecovery for a Ready or Finalizing Run: the Runtime Server
\* still has the session, or the Run is lost.
Recover ==
    /\ ctl.pc = "idle" /\ ~claim.held /\ seen.phase \in {"Ready", "Finalizing"}
    /\ IF server
       THEN /\ claim' = [held |-> TRUE, closed |-> FALSE]
            /\ IF current = 0
               THEN /\ entries' = Append(entries, NoEntry) /\ current' = Len(entries) + 1
               ELSE UNCHANGED queueVars
            /\ UNCHANGED run
       ELSE /\ run = seen /\ run' = [run EXCEPT !.phase = "Failed"]
            /\ UNCHANGED <<claim, queueVars>>
    /\ UNCHANGED <<seen, ctl, server, storeVars, req, serverOps, faults>>

------------------------------------------------------------------------------
(* Crashes.                                                                 *)

\* runtimed restarts: its maps, goroutines and connections are gone, the Runtime
\* Server in the other container keeps its session.
Restart ==
    /\ faults < env.faults /\ faults' = faults + 1
    /\ claim' = [held |-> FALSE, closed |-> FALSE] /\ ctl' = Idle
    /\ current' = 0 /\ entries' = <<>> /\ active' = {}
    /\ req' = [r \in Requests |->
                  IF req[r].pc = "idle" THEN req[r]
                  ELSE [req[r] EXCEPT !.pc = "done", !.work = "ended", !.sub = "closed",
                                      !.buf = <<>>, !.gone = TRUE, !.cancelled = TRUE]]
    /\ seen' = run
    /\ UNCHANGED <<run, server, journal, unanswered, serverOps>>

\* The Runtime Server's container restarts: its sessions and processes are gone.
ServerRestart ==
    /\ server /\ faults < env.faults /\ faults' = faults + 1
    /\ server' = FALSE /\ busy' = {}
    /\ req' = [r \in Requests |-> IF req[r].work = "running"
                                  THEN [req[r] EXCEPT !.cancelled = TRUE] ELSE req[r]]
    /\ UNCHANGED <<run, seen, claim, ctl, queueVars, storeVars, started, env>>

------------------------------------------------------------------------------
Init ==
    /\ run = [phase |-> "Ready", term |-> "none"] /\ seen = run
    /\ claim = [held |-> TRUE, closed |-> FALSE] /\ ctl = Idle /\ server = TRUE
    /\ current = 1 /\ entries = <<NoEntry>>
    /\ journal = <<>> /\ active = {} /\ unanswered = {}
    /\ env \in Scenarios /\ req = [r \in Requests |-> NewRequest]
    /\ busy = {} /\ started = [o \in Ops |-> 0]
    /\ faults = 0

\* What runtimed and the Runtime Server do once they have something to do.
Progress ==
    \/ \E r \in Requests :
          \/ Begin(r) \/ Admit(r) \/ Accepted(r) \/ AcceptedFails(r) \/ Returns(r)
          \/ FailureStored(r) \/ FailureLost(r)
          \/ Resume(r) \/ Interrupted(r) \/ InterruptFails(r) \/ Subscribe(r) \/ Follow(r)
    \/ \E e \in 1..Len(entries) :
          Take(e) \/ Start(e) \/ Event(e) \/ EventStored(e) \/ EventFails(e) \/ Stop(e)
    \/ \E o \in Ops : Terminate(o)
    \/ BeginFinalization \/ Drain \/ EndNow
    \/ CloseQueue \/ CloseServer \/ Export \/ ApplyTerminal \/ Recover

Next ==
    \/ Progress \/ Observe \/ LeaseExpires
    \/ \E r \in Requests : Route(r) \/ BeginFails(r) \/ Disconnect(r)
    \/ \E mode \in {"Drain", "Immediate"} : RequestEnd(mode)
    \/ Restart \/ ServerRestart

Spec == Init /\ [][Next]_vars

\* Goroutines run, operations have a timeout and the informer delivers.
FairSpec == Spec /\ WF_vars(Progress) /\ WF_vars(Observe)

\* As well, no client sends a heartbeat: a lease with a deadline runs out.
LeaseSpec == FairSpec /\ WF_vars(LeaseExpires)

------------------------------------------------------------------------------
(* Properties.                                                              *)

Working == {"running", "storing"}

\* The shape of the queue, the journals and the handlers; a request holds a job
\* only between its admission and its end.
TypeOK ==
    /\ run \in [phase : {"Ready", "Finalizing"} \cup Terminal, term : {"none", "Drain", "Immediate"}]
    /\ seen.phase \in {"Ready", "Finalizing"} \cup Terminal
    /\ ctl.pc \in {"idle", "closing", "queueClosed", "exporting", "ending"}
    /\ current \in 0..Len(entries) /\ active \subseteq DOMAIN journal /\ busy \subseteq Ops
    /\ \A e \in 1..Len(entries) :
          /\ entries[e].state \in {"open", "draining", "closed"}
          /\ Len(entries[e].jobs) <= QueueSize
          /\ entries[e].pending = Len(entries[e].jobs) + Len(entries[e].job)
    /\ \A r \in Requests : Len(req[r].buf) <= SubscriberSize

\* An operation is executed at most once, whatever its client retries and
\* whichever of runtimed's calls fail: only the creator of the journal submits it.
RunOnce == \A o \in Ops : started[o] <= 1

\* A journal is numbered without gaps and says the end once, as its last word,
\* though the handler, the queue's goroutine and resuming handlers all write it.
JournalSound ==
    \A o \in DOMAIN journal : \A i \in 1..Len(journal[o]) :
        /\ journal[o][i].n = i
        /\ journal[o][i].kind \in LastKinds => i = Len(journal[o])

\* A client sees events that are stored, in order and each once, and without a
\* gap after its cursor unless a stored event was taken for lost.
Delivered ==
    \A r \in Requests : LET got == req[r].got IN
        \A i \in 1..Len(got) :
            /\ got[i] <= Len(journal[OpOf[r]])
            /\ got[i] > (IF i = 1 THEN req[r].cursor ELSE got[i - 1])
            /\ \/ OpOf[r] \in unanswered
               \/ got[i] = (IF i = 1 THEN req[r].cursor ELSE got[i - 1]) + 1

\* What a client can rely on: the journal of its operation is sound, and its
\* stream is a faithful copy, across late subscriptions, full buffers and resumes.
StreamFaithful == JournalSound /\ Delivered

\* When a drained Session is about to be closed, exported and ended, every
\* operation its queue had accepted has been answered.
DrainedFirst ==
    (ctl = [pc |-> "closing", outcome |-> "Succeeded"]
       /\ current # 0 /\ entries[current].state = "draining") =>
        \A r \in Requests : req[r].entry = current => req[r].work = "ended"

\* Two operations run at the same time only when one of them was cancelled and
\* its process is not gone yet.
SerialUnlessCancelled ==
    \A q, r \in Requests :
        (OpOf[q] # OpOf[r] /\ {OpOf[q], OpOf[r]} \subseteq busy
           /\ req[q].work \in Working /\ req[r].work \in Working)
        => (req[q].cancelled \/ req[r].cancelled)

\* Operations run once and in turn, in queues that count what they hold.
ExecutedInTurn == TypeOK /\ RunOnce /\ SerialUnlessCancelled

\* A Session whose end was requested ends.
SessionsEnd == (run.term # "none") ~> (run.phase \in Terminal)

\* The operation is marked active and nobody is left to end its journal.
Abandoned(o) ==
    /\ o \in active
    /\ \A r \in Requests : OpOf[r] = o =>
          req[r].pc \notin {"begun", "admitting", "waiting", "failing", "interrupted"}

\* A handler that has begun returns, and one that follows the journal of an
\* operation returns unless the operation was abandoned.
HandlersReturn ==
    \A r \in Requests :
        /\ (req[r].pc \in {"begun", "admitting", "waiting", "failing"}) ~> (req[r].pc = "done")
        /\ (req[r].pc = "following") ~> (req[r].pc = "done" \/ Abandoned(OpOf[r]))

\* Nothing hangs: the Session ends when asked to, and so do its handlers.
SessionsSettle == SessionsEnd /\ HandlersReturn

\* Too strong: "Lease expiry is also terminal" (docs/design/session-mode.md). When
\* CloseSession fails, the entry that held the lease is already gone, and nothing
\* closes the session a second time.
LeaseHonoured == (ctl = [pc |-> "closing", outcome |-> "Timeout"]) ~> (run.phase \in Terminal)

\* Too strong: "Only one mutation runs at a time." (docs/design/session-mode.md).
\* The next one starts while the process of a cancelled one is being terminated.
OneMutationAtATime == \A o, p \in busy : o = p
==============================================================================
