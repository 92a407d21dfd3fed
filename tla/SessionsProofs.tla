--------------------------- MODULE SessionsProofs ---------------------------
(***************************************************************************)
(* Theorems about the operations of a Session for every set of requests,   *)
(* every assignment of keys and peers, every size of queue and buffer, and *)
(* any number of faults. The inductive invariant IInv has three parts:     *)
(*   BaseInv  one request holds an operation from the moment it creates    *)
(*            the journal; its job is in its queue entry until it ends;    *)
(*   FlowInv  what a client has seen and what is in its buffer is a line   *)
(*            of stored events, complete while the subscription is live;   *)
(*   CtlInv   the reconciler closes a draining queue with nothing pending. *)
(* There is one lemma per action, which first says what the action does to *)
(* the requests and then why each part stays.                              *)
(***************************************************************************)
EXTENDS Sessions, TLAPS

\* Where a leaf names no prover it is Zenon's.
USE Zenon

Pcs == {"idle", "routed", "begun", "admitting", "waiting", "failing", "resuming",
        "interrupted", "subscribing", "following", "done"}
Works == {"none", "running", "storing", "ended"}
Subs == {"none", "open", "closed"}
Kinds == {"none", "accepted", "output", "completed", "failed"}
Results == {"none", "ok", "err"}

Request == [pc : Pcs, cursor : Nat, got : Seq(Nat), gone : BOOLEAN,
            seq : Nat, n : Nat, entry : Nat, admitted : BOOLEAN, cancelled : BOOLEAN,
            work : Works, wn : Nat, wkind : Kinds, outs : Nat, result : Results,
            sub : Subs, buf : Seq(Nat)]
Entry == [state : {"open", "draining", "closed"}, pending : Nat,
          jobs : Seq(Requests), job : Seq(Requests)]
Stored == [n : Nat, kind : Kinds]
RunType == [phase : {"Ready", "Finalizing"} \cup Terminal, term : {"none", "Drain", "Immediate"}]

\* What two states of a request have in common: the stream its client sees, and
\* the place of its job. A client and a context that have gone stay gone.
SameLine(x, y) == y.cursor = x.cursor /\ y.got = x.got /\ y.sub = x.sub /\ y.buf = x.buf
Goes(x, y) == /\ y \in Request /\ SameLine(x, y) /\ y.entry = x.entry /\ y.gone = x.gone
              /\ x.cancelled => y.cancelled

------------------------------------------------------------------------------
(* The ways a request changes.                                              *)

\* The fields of a request.
LEMMA Fields ==
    ASSUME NEW x \in Request
    PROVE  /\ x.pc \in Pcs /\ x.cursor \in Nat /\ x.got \in Seq(Nat) /\ x.gone \in BOOLEAN
           /\ x.seq \in Nat /\ x.n \in Nat /\ x.entry \in Nat /\ x.cancelled \in BOOLEAN
           /\ x.work \in Works /\ x.wn \in Nat /\ x.wkind \in Kinds /\ x.outs \in Nat
           /\ x.sub \in Subs /\ x.buf \in Seq(Nat)
BY DEF Request

\* Its client goes.
LEMMA Leaves ==
    ASSUME NEW x \in Request, NEW y, y = [x EXCEPT !.gone = TRUE, !.cancelled = TRUE]
    PROVE  /\ y \in Request /\ SameLine(x, y) /\ y.pc = x.pc /\ y.entry = x.entry
           /\ y.work = x.work /\ y.gone /\ y.cancelled
BY DEF Request, SameLine

\* What sending event n does: nothing to a client that is gone, and it may lose a
\* client behind a peer.
Sends(x, y, n) ==
    /\ y \in Request /\ y.cursor = x.cursor /\ y.sub = x.sub /\ y.buf = x.buf
    /\ y.entry = x.entry /\ (x.cancelled => y.cancelled) /\ (x.gone => y.gone)
    /\ \/ y.gone /\ y.got = x.got
       \/ ~x.gone /\ ~y.gone /\ y.got = Append(x.got, n)

\* An event is sent.
LEMMA SendEffect ==
    ASSUME NEW x \in Request, NEW n \in Nat, NEW r, NEW y, y = Send(r, x, n)
    PROVE  Sends(x, y, n) /\ y.pc = x.pc /\ y.work = x.work
<1>1. CASE y = x /\ x.gone
  BY <1>1 DEF Sends
<1>2. CASE y = [x EXCEPT !.gone = TRUE, !.cancelled = TRUE]
  BY <1>2, Leaves DEF Sends, SameLine
<1>3. CASE ~x.gone /\ y = [x EXCEPT !.got = Append(@, n)]
  <2>1. Append(x.got, n) \in Seq(Nat)
    BY Fields, SMT
  <2> DEFINE s == Append(x.got, n)
  <2> HIDE DEF s
  <2>2. y = [x EXCEPT !.got = s]
    BY <1>3 DEF s
  <2>3. s \in Seq(Nat)
    BY <2>1 DEF s
  <2>4. /\ y \in Request /\ y.pc = x.pc /\ y.cursor = x.cursor /\ y.got = s
        /\ y.sub = x.sub /\ y.buf = x.buf /\ y.entry = x.entry /\ y.work = x.work
        /\ y.gone = x.gone /\ y.cancelled = x.cancelled
    BY <2>2, <2>3 DEF Request
  <2> QED
    BY <1>3, <2>4 DEF Sends, s
<1> QED
  BY <1>1, <1>2, <1>3 DEF Send

\* What a broadcast of event n does to a request that listens.
Hears(x, y, n) ==
    /\ y \in Request /\ y.pc = x.pc /\ y.cursor = x.cursor /\ y.got = x.got
    /\ y.entry = x.entry /\ y.work = x.work /\ y.gone = x.gone /\ y.cancelled = x.cancelled
    /\ \/ y.buf = x.buf /\ y.sub = "closed"
       \/ /\ Len(x.buf) < SubscriberSize /\ y.buf = Append(x.buf, n)
          /\ y.sub \in {"open", "closed"}

------------------------------------------------------------------------------
(* The shape of the state, and what each step does to the requests.         *)

ReqOK == req \in [Requests -> Request]
CtlShape(c) == /\ c \in [pc : {"idle", "closing", "queueClosed", "exporting", "ending"},
                         outcome : Terminal \cup {"none"}]
               /\ c.pc # "idle" => c.outcome \in Terminal
CtlOK == run \in RunType /\ seen \in RunType /\ CtlShape(ctl)

Only(r) == \A q \in Requests : q # r => req'[q] = req[q]

\* One request is changed.
LEMMA Put ==
    ASSUME ReqOK, NEW r \in Requests, NEW y \in Request, req' = [req EXCEPT ![r] = y]
    PROVE  ReqOK' /\ req'[r] = y /\ Only(r)
BY DEF ReqOK, Only

\* Those that listen to o hear a broadcast; the others are left alone.
LEMMA Broadcast ==
    ASSUME ReqOK, NEW o, NEW n \in Nat, NEW last \in BOOLEAN, NEW q \in Requests
    PROVE  LET y == broadcastLocked(o, n, last)[q]
           IN /\ y \in Request
              /\ OpOf[q] = o /\ req[q].sub = "open" => Hears(req[q], y, n)
              /\ ~(OpOf[q] = o /\ req[q].sub = "open") => y = req[q]
<1> DEFINE x == req[q]
           y == broadcastLocked(o, n, last)[q]
           s == IF last THEN "closed" ELSE "open"
<1>1. x \in Request
  BY DEF ReqOK
<1>2. CASE OpOf[q] # o \/ x.sub # "open"
  BY <1>1, <1>2 DEF broadcastLocked
<1>3. CASE OpOf[q] = o /\ x.sub = "open" /\ Len(x.buf) < SubscriberSize
  <2>1. y = [x EXCEPT !.buf = Append(x.buf, n), !.sub = s]
    BY <1>3 DEF broadcastLocked
  <2>2. Append(x.buf, n) \in Seq(Nat)
    BY <1>1, Fields, SMT
  <2>3. s \in {"open", "closed"} /\ s \in Subs
    BY DEF Subs
  <2> DEFINE b == Append(x.buf, n)
  <2> HIDE DEF b, s, y, x
  <2>4. b \in Seq(Nat) /\ y = [x EXCEPT !.buf = b, !.sub = s]
    BY <2>1, <2>2 DEF b
  <2>5. /\ y \in Request /\ y.pc = x.pc /\ y.cursor = x.cursor /\ y.got = x.got
        /\ y.sub = s /\ y.buf = b /\ y.entry = x.entry /\ y.work = x.work
        /\ y.gone = x.gone /\ y.cancelled = x.cancelled
    BY <1>1, <2>3, <2>4 DEF Request
  <2>6. Hears(x, y, n)
    BY <1>3, <2>3, <2>5 DEF Hears, b
  <2> QED
    BY <1>3, <2>5, <2>6 DEF x, y
<1>4. CASE OpOf[q] = o /\ x.sub = "open" /\ ~(Len(x.buf) < SubscriberSize)
  <2>1. y = [x EXCEPT !.sub = "closed"]
    BY <1>4 DEF broadcastLocked
  <2> HIDE DEF y, x
  <2>2. /\ y \in Request /\ y.pc = x.pc /\ y.cursor = x.cursor /\ y.got = x.got
        /\ y.sub = "closed" /\ y.buf = x.buf /\ y.entry = x.entry /\ y.work = x.work
        /\ y.gone = x.gone /\ y.cancelled = x.cancelled
    BY <1>1, <2>1 DEF Request, Subs
  <2> QED
    BY <1>4, <2>2 DEF Hears, x, y
<1> QED
  BY <1>2, <1>3, <1>4

\* The handler of r goes on.
LEMMA MoveEffect ==
    ASSUME ReqOK, NEW r \in Requests, NEW c \in Pcs, req' = [req EXCEPT ![r].pc = c]
    PROVE  /\ ReqOK' /\ Only(r) /\ Goes(req[r], req'[r])
           /\ req'[r].work = req[r].work /\ req'[r].pc = c
<1> DEFINE y == [req[r] EXCEPT !.pc = c]
<1>1. Goes(req[r], y) /\ y.pc = c /\ y.work = req[r].work
  <2>1. req[r] \in Request
    BY DEF ReqOK
  <2> QED
    BY <2>1 DEF Goes, SameLine, Request
<1> HIDE DEF y
<1>2. y \in Request /\ req' = [req EXCEPT ![r] = y]
  BY <1>1 DEF y, Goes
<1> QED
  BY <1>1, <1>2, Put

\* The entry a job is offered to, after a missing one was made.
Offered == IF current = 0 THEN Append(entries, NoEntry) ELSE entries
Target == IF current = 0 THEN Len(Offered) ELSE current

\* A step of r that stores event n of o and broadcasts it.
Echo(r, o, n) ==
    \A q \in Requests : q # r =>
        /\ OpOf[q] = o /\ req[q].sub = "open" => Hears(req[q], req'[q], n)
        /\ ~(OpOf[q] = o /\ req[q].sub = "open") => req'[q] = req[q]

\* A request is changed and the others hear of it.
LEMMA PutAll ==
    ASSUME ReqOK, NEW o, NEW n \in Nat, NEW last \in BOOLEAN, NEW r \in Requests,
           NEW y \in Request, req' = [broadcastLocked(o, n, last) EXCEPT ![r] = y]
    PROVE  ReqOK' /\ req'[r] = y /\ Echo(r, o, n)
<1> DEFINE all == broadcastLocked(o, n, last)
<1>1. all = [q \in Requests |-> all[q]]
  BY DEF broadcastLocked
<1>2. \A q \in Requests :
         /\ all[q] \in Request
         /\ OpOf[q] = o /\ req[q].sub = "open" => Hears(req[q], all[q], n)
         /\ ~(OpOf[q] = o /\ req[q].sub = "open") => all[q] = req[q]
  BY Broadcast
<1> HIDE DEF all
<1>3. req' = [all EXCEPT ![r] = y]
  BY DEF all
<1>4. \A q \in Requests : q # r => req'[q] = all[q]
  BY <1>1, <1>3
<1>5. req'[r] = y /\ ReqOK'
  BY <1>1, <1>2, <1>3 DEF ReqOK
<1> QED
  BY <1>2, <1>4, <1>5 DEF Echo

\* What a subscriber is sent at once: what is retained after its cursor.
Catches(x, y, m) ==
    /\ y \in Request /\ y.cursor = x.cursor /\ y.buf = x.buf
    /\ y.entry = x.entry /\ y.work = x.work
    /\ (x.cancelled => y.cancelled) /\ (x.gone => y.gone)
    /\ \/ y.gone /\ y.got = x.got
       \/ ~x.gone /\ ~y.gone /\ m < x.cursor + 1 /\ y.got = x.got
       \/ /\ ~x.gone /\ ~y.gone /\ ~(m < x.cursor + 1)
          /\ y.got = x.got \o [i \in 1..(m + 1 - (x.cursor + 1)) |-> (x.cursor + 1) + i - 1]

------------------------------------------------------------------------------
(* The queue: entries es, the current one c, and the requests R.            *)

\* Entry x, the e-th one, counts its jobs, which are distinct, are its own and have
\* not been started, but for the one its goroutine works on. Only the current one
\* may be open.
Counted(x) ==
    Len(x.jobs) <= QueueSize /\ Len(x.job) <= 1 /\ x.pending = Len(x.jobs) + Len(x.job)
Distinct(s) == \A i, j \in 1..Len(s) : s[i] = s[j] => i = j
Waits(x, R, e, i) == /\ R[x.jobs[i]].entry = e /\ R[x.jobs[i]].work = "none"
                     /\ x.job # <<>> => x.jobs[i] # x.job[1]
AllWait(x, R, e) == \A i \in 1..Len(x.jobs) : Waits(x, R, e, i)
Serves(x, R, e) == x.job # <<>> => R[x.job[1]].entry = e /\ R[x.job[1]].work # "ended"
EntryOK(x, c, R, e) ==
    /\ x.state # "closed" => e = c
    /\ Counted(x) /\ Distinct(x.jobs) /\ AllWait(x, R, e) /\ Serves(x, R, e)

\* Entry x works on the job of r, or has it in its channel.
WorksOn(x, r) == x.job # <<>> /\ x.job[1] = r
Holds(x, r) == WorksOn(x, r) \/ \E i \in 1..Len(x.jobs) : x.jobs[i] = r

\* The job of r is in its entry until it has ended; while it is executed and not
\* cancelled it is the one the current entry works on.
Queued(es, c, R, r) ==
    /\ R[r].entry # 0 /\ R[r].work # "ended" =>
          R[r].entry \in 1..Len(es) /\ Holds(es[R[r].entry], r)
    /\ R[r].entry = 0 => R[r].work \notin Working
    /\ R[r].work \in Working /\ ~R[r].cancelled => c # 0 /\ WorksOn(es[c], r)

Queue(es, c, R) ==
    /\ es \in Seq(Entry) /\ c \in 0..Len(es)
    /\ \A e \in 1..Len(es) : EntryOK(es[e], c, R, e)
    /\ \A r \in Requests : Queued(es, c, R, r)

\* A request's job stays where it is, and is not started and does not end.
Calm(x, y) ==
    /\ y.entry = x.entry /\ (x.cancelled => y.cancelled)
    /\ y.work = x.work \/ {x.work, y.work} \subseteq Working

\* Only r, only entry e.
Apart(R, S, r) == \A q \in Requests : q # r => S[q] = R[q]
Differs(es, fs, e) == /\ fs \in Seq(Entry) /\ Len(fs) = Len(es)
                      /\ \A f \in 1..Len(es) : f # e => fs[f] = es[f]

\* The fields of an entry.
LEMMA EntryFields ==
    ASSUME NEW x \in Entry
    PROVE  /\ x.state \in {"open", "draining", "closed"} /\ x.pending \in Nat
           /\ x.jobs \in Seq(Requests) /\ x.job \in Seq(Requests)
           /\ Len(x.jobs) \in Nat /\ Len(x.job) \in Nat
           /\ \A i \in 1..Len(x.jobs) : x.jobs[i] \in Requests
           /\ x.job # <<>> => x.job[1] \in Requests
<1>1. /\ x.state \in {"open", "draining", "closed"} /\ x.pending \in Nat
      /\ x.jobs \in Seq(Requests) /\ x.job \in Seq(Requests)
  BY DEF Entry
<1> QED
  BY <1>1, SMT

\* The entries of a queue.
LEMMA Entries ==
    ASSUME NEW es, NEW c, NEW R, Queue(es, c, R)
    PROVE  /\ Len(es) \in Nat /\ es \in Seq(Entry) /\ c \in 0..Len(es)
           /\ \A e \in 1..Len(es) : es[e] \in Entry /\ e # 0 /\ EntryOK(es[e], c, R, e)
           /\ \A r \in Requests : Queued(es, c, R, r)
<1>1. es \in Seq(Entry)
  BY DEF Queue
<1>2. Len(es) \in Nat /\ \A e \in 1..Len(es) : es[e] \in Entry /\ e # 0
  BY <1>1, SMT
<1> QED
  BY <1>1, <1>2 DEF Queue

\* Steps that are calm for every request keep the queue.
LEMMA CalmQueue ==
    ASSUME NEW es, NEW c, NEW R, NEW S, Queue(es, c, R),
           \A r \in Requests : Calm(R[r], S[r])
    PROVE  Queue(es, c, S)
<1>1. ASSUME NEW e \in 1..Len(es)
      PROVE  EntryOK(es[e], c, S, e)
  <2> DEFINE x == es[e]
  <2>1. EntryOK(x, c, R, e) /\ x \in Entry
    BY Entries
  <2> HIDE DEF x
  <2>2. AllWait(x, S, e)
    <3>1. ASSUME NEW i \in 1..Len(x.jobs)
          PROVE  Waits(x, S, e, i)
      <4>1. Waits(x, R, e, i) /\ x.jobs[i] \in Requests
        BY <2>1, EntryFields DEF EntryOK, AllWait
      <4>2. Calm(R[x.jobs[i]], S[x.jobs[i]])
        BY <4>1
      <4> QED
        BY <4>1, <4>2 DEF Waits, Calm, Working
    <3> QED
      BY <3>1 DEF AllWait
  <2>3. Serves(x, S, e)
    BY <2>1, EntryFields DEF EntryOK, Serves, Calm, Working
  <2> QED
    BY <2>1, <2>2, <2>3 DEF EntryOK, x
<1>2. ASSUME NEW r \in Requests
      PROVE  Queued(es, c, S, r)
  <2>1. Queued(es, c, R, r) /\ Calm(R[r], S[r])
    BY DEF Queue
  <2> QED
    BY <2>1 DEF Queued, Calm, Working
<1> QED
  BY <1>1, <1>2 DEF Queue

\* A new entry.
LEMMA OpenQueue ==
    ASSUME NEW es, NEW R, Queue(es, 0, R)
    PROVE  /\ Queue(Append(es, NoEntry), Len(es) + 1, R)
           /\ Len(Append(es, NoEntry)) = Len(es) + 1
           /\ Append(es, NoEntry)[Len(es) + 1] = NoEntry
<1> DEFINE fs == Append(es, NoEntry)
           c == Len(es) + 1
<1>1. es \in Seq(Entry) /\ QueueSize \in Nat
  BY SessionAssumption DEF Queue
<1>2. NoEntry \in Entry
  <2>1. <<>> \in Seq(Requests) /\ 0 \in Nat
    BY SMT
  <2> QED
    BY <2>1 DEF NoEntry, Entry
<1>3. /\ fs \in Seq(Entry) /\ Len(fs) = c /\ fs[c] = NoEntry /\ Len(es) \in Nat
      /\ \A e \in 1..Len(es) : fs[e] = es[e]
  BY <1>1, <1>2, SMT
<1>4. /\ NoEntry.state = "open" /\ NoEntry.pending = 0
      /\ NoEntry.jobs = <<>> /\ NoEntry.job = <<>>
  BY DEF NoEntry
<1> HIDE DEF fs
<1>5. ASSUME NEW e \in 1..c
      PROVE  EntryOK(fs[e], c, R, e)
  <2>1. CASE e = c
    <3>1. Len(<<>>) = 0 /\ 0 <= QueueSize /\ 0 <= 1 /\ 0 = 0 + 0 /\ 1..0 = {}
      BY <1>1, SMT
    <3> QED
      BY <1>3, <1>4, <2>1, <3>1 DEF EntryOK, Counted, Serves, AllWait, Distinct
  <2>2. CASE e # c
    <3>1. e \in 1..Len(es)
      BY <1>3, <2>2, SMT
    <3>2. EntryOK(es[e], 0, R, e) /\ e # 0 /\ fs[e] = es[e]
      BY <1>3, <3>1, Entries
    <3> QED
      BY <3>2 DEF EntryOK
  <2> QED
    BY <2>1, <2>2
<1>6. ASSUME NEW r \in Requests
      PROVE  Queued(fs, c, R, r)
  <2>1. Queued(es, 0, R, r)
    BY DEF Queue
  <2>2. 1..Len(es) \subseteq 1..Len(fs)
    BY <1>3, SMT
  <2> QED
    BY <1>3, <2>1, <2>2 DEF Queued
<1>7. c \in 0..Len(fs)
  BY <1>3, SMT
<1> QED
  BY <1>3, <1>5, <1>6, <1>7 DEF Queue, fs

\* A request that is left alone, where the entry that changed still has its job.
LEMMA OtherQueued ==
    ASSUME NEW es, NEW fs, NEW c, NEW R, NEW S, NEW e, NEW q \in Requests,
           Queued(es, c, R, q), Differs(es, fs, e), S[q] = R[q],
           Len(es) \in Nat, c \in 0..Len(es),
           Holds(es[e], q) => Holds(fs[e], q), WorksOn(es[e], q) => WorksOn(fs[e], q)
    PROVE  Queued(fs, c, S, q)
<1>1. \A f \in 1..Len(es) : /\ Holds(es[f], q) => Holds(fs[f], q)
                            /\ WorksOn(es[f], q) => WorksOn(fs[f], q)
  BY DEF Differs
<1>2. c # 0 => c \in 1..Len(es)
  BY SMT
<1>3. Len(fs) = Len(es)
  BY DEF Differs
<1> QED
  BY <1>1, <1>2, <1>3 DEF Queued

\* Entry y still has what x had, but for r.
Keeps(x, y, r) == \A q \in Requests : q # r => /\ Holds(x, q) => Holds(y, q)
                                               /\ WorksOn(x, q) => WorksOn(y, q)

\* What one changed entry and one changed request leave to show.
LEMMA OneEntry ==
    ASSUME NEW es, NEW fs, NEW c, NEW R, NEW S, NEW e \in 1..Len(es), NEW r \in Requests,
           Queue(es, c, R), Differs(es, fs, e), Apart(R, S, r), R[r].entry \in {0, e},
           EntryOK(fs[e], c, S, e), Queued(fs, c, S, r),
           Keeps(es[e], fs[e], r)
    PROVE  Queue(fs, c, S)
<1>other. ASSUME NEW x \in Entry, NEW d, NEW P, NEW Q, NEW g, EntryOK(x, d, P, g),
                 \A q \in Requests : P[q].entry = g => Q[q] = P[q]
          PROVE  EntryOK(x, d, Q, g)
  <2> USE <1>other
  <2>1. AllWait(x, Q, g)
    <3>1. ASSUME NEW i \in 1..Len(x.jobs)
          PROVE  Waits(x, Q, g, i)
      <4>1. Waits(x, P, g, i) /\ x.jobs[i] \in Requests
        BY EntryFields DEF EntryOK, AllWait
      <4>2. Q[x.jobs[i]] = P[x.jobs[i]]
        BY <4>1 DEF Waits
      <4> QED
        BY <4>1, <4>2 DEF Waits
    <3> QED
      BY <3>1 DEF AllWait
  <2>2. Serves(x, Q, g)
    BY EntryFields DEF EntryOK, Serves
  <2> QED
    BY <2>1, <2>2 DEF EntryOK
<1>1. Len(es) \in Nat /\ c \in 0..Len(es) /\ fs \in Seq(Entry) /\ Len(fs) = Len(es)
  BY Entries DEF Differs
<1>2. ASSUME NEW f \in 1..Len(es), f # e
      PROVE  EntryOK(fs[f], c, S, f)
  <2>1. EntryOK(es[f], c, R, f) /\ es[f] \in Entry /\ f # 0
    BY Entries
  <2>2. \A q \in Requests : R[q].entry = f => S[q] = R[q]
    BY <1>2, <2>1 DEF Apart
  <2>3. EntryOK(es[f], c, S, f)
    BY <2>1, <2>2, <1>other
  <2> QED
    BY <1>2, <2>3 DEF Differs
<1>3. ASSUME NEW q \in Requests, q # r
      PROVE  Queued(fs, c, S, q)
  <2>1. Queued(es, c, R, q) /\ S[q] = R[q]
    BY <1>3, Entries DEF Apart
  <2> QED
    BY <1>1, <1>3, <2>1, OtherQueued DEF Keeps
<1> QED
  BY <1>1, <1>2, <1>3 DEF Queue

\* A job joins an entry.
Joins(x, y, r) == /\ x.state = "open" /\ Len(x.jobs) < QueueSize
                  /\ y.state = x.state /\ y.pending = x.pending + 1
                  /\ y.jobs = Append(x.jobs, r) /\ y.job = x.job

\* An entry takes its next job.
Takes(x, y) == /\ x.job = <<>> /\ x.jobs # <<>>
               /\ y.state = x.state /\ y.pending = x.pending
               /\ y.job = <<Head(x.jobs)>> /\ y.jobs = Tail(x.jobs)

\* An entry has done with its job.
Finishes(x, y) == /\ x.job # <<>> /\ y.state = x.state /\ y.jobs = x.jobs
                  /\ y.job = <<>> /\ y.pending = x.pending - 1

\* The job an entry works on ends.
LEMMA FinishQueue ==
    ASSUME NEW es, NEW fs, NEW c, NEW R, NEW S, NEW e \in 1..Len(es), NEW r \in Requests,
           Queue(es, c, R), Differs(es, fs, e), Finishes(es[e], fs[e]), WorksOn(es[e], r),
           Apart(R, S, r), S[r].work = "ended"
    PROVE  Queue(fs, c, S)
<1>finish. ASSUME NEW x \in Entry, NEW y, NEW d, NEW P, NEW Q, NEW f, NEW q \in Requests,
                  EntryOK(x, d, P, f), Finishes(x, y), WorksOn(x, q), Apart(P, Q, q)
           PROVE  /\ EntryOK(y, d, Q, f) /\ P[q].entry = f
                  /\ Keeps(x, y, q)
  <2> USE <1>finish
  <2>1. /\ x.job # <<>> /\ y.jobs = x.jobs /\ y.job = <<>> /\ x.job[1] = q
        /\ y.state = x.state
    BY DEF Finishes, WorksOn
  <2>2. Counted(y)
    <3>1. x.job \in Seq(Requests) /\ Len(x.job) \in Nat /\ Len(x.jobs) \in Nat
      BY EntryFields
    <3>2. Len(x.job) # 0 /\ Len(<<>>) = 0
      BY <2>1, <3>1, SMT
    <3>3. /\ Len(x.job) <= 1 /\ x.pending = Len(x.jobs) + Len(x.job) /\ Len(x.jobs) <= QueueSize
          /\ y.pending = x.pending - 1
      BY DEF EntryOK, Counted, Finishes
    <3> DEFINE k == Len(x.job)
               n == Len(x.jobs)
    <3>4. k \in Nat /\ n \in Nat /\ k # 0 /\ k <= 1
      BY <3>1, <3>2, <3>3
    <3> HIDE DEF k, n
    <3>5. (n + k) - 1 = n + 0 /\ 0 <= 1
      BY <3>4, SMT
    <3> QED
      BY <2>1, <3>2, <3>3, <3>5 DEF Counted, k, n
  <2>3. AllWait(y, Q, f)
    <3>1. ASSUME NEW i \in 1..Len(x.jobs)
          PROVE  Waits(y, Q, f, i)
      <4>1. Waits(x, P, f, i) /\ x.jobs[i] \in Requests
        BY EntryFields DEF EntryOK, AllWait
      <4>2. Q[x.jobs[i]] = P[x.jobs[i]]
        BY <2>1, <4>1 DEF Waits, Apart
      <4> QED
        BY <2>1, <4>1, <4>2 DEF Waits
    <3> QED
      BY <2>1, <3>1 DEF AllWait
  <2>4. Serves(y, Q, f) /\ Distinct(y.jobs) /\ P[q].entry = f
    BY <2>1 DEF Serves, EntryOK
  <2>5. EntryOK(y, d, Q, f)
    BY <2>1, <2>2, <2>3, <2>4 DEF EntryOK
  <2>6. Keeps(x, y, q)
    BY <2>1 DEF Keeps, Holds, WorksOn
  <2> QED
    BY <2>4, <2>5, <2>6
<1> DEFINE x == es[e]
           y == fs[e]
<1>1. x \in Entry /\ EntryOK(x, c, R, e)
  BY Entries
<1>2. EntryOK(y, c, S, e) /\ R[r].entry = e /\ Keeps(x, y, r)
  <2>1. Finishes(x, y) /\ WorksOn(x, r)
    OBVIOUS
  <2> HIDE DEF x, y
  <2> QED
    BY <1>1, <2>1, <1>finish
<1>3. Queued(fs, c, S, r)
  BY DEF Queued, Working
<1> QED
  BY <1>2, <1>3, OneEntry

\* A job is started: in the current entry, which is the only one not closed.
LEMMA StartQueue ==
    ASSUME NEW es, NEW c, NEW R, NEW S, NEW e \in 1..Len(es), NEW r \in Requests,
           Queue(es, c, R), WorksOn(es[e], r), es[e].state # "closed", Apart(R, S, r),
           R[r].work = "none", S[r].work = "running", S[r].entry = R[r].entry
    PROVE  Queue(es, c, S)
<1> DEFINE x == es[e]
<1>1. x \in Entry /\ EntryOK(x, c, R, e) /\ e = c /\ e # 0 /\ es \in Seq(Entry)
  BY Entries DEF EntryOK
<1>2. R[r].entry = e /\ WorksOn(x, r) /\ x.job # <<>> /\ x.job[1] = r
  BY <1>1 DEF EntryOK, Serves, WorksOn
<1> HIDE DEF x
<1>3. AllWait(x, S, e)
  <2>1. ASSUME NEW i \in 1..Len(x.jobs)
        PROVE  Waits(x, S, e, i)
    <3>1. Waits(x, R, e, i) /\ x.jobs[i] \in Requests
      BY <1>1, EntryFields DEF EntryOK, AllWait
    <3>2. S[x.jobs[i]] = R[x.jobs[i]]
      BY <1>2, <3>1 DEF Waits, Apart
    <3> QED
      BY <3>1, <3>2 DEF Waits
  <2> QED
    BY <2>1 DEF AllWait
<1>4. Serves(x, S, e)
  BY <1>2 DEF Serves
<1>5. EntryOK(x, c, S, e)
  BY <1>1, <1>3, <1>4 DEF EntryOK
<1>6. Queued(es, c, S, r)
  BY <1>1, <1>2 DEF Queued, Holds, x
<1>7. Differs(es, es, e) /\ Keeps(x, x, r)
  BY <1>1 DEF Differs, Keeps
<1> QED
  BY <1>2, <1>5, <1>6, <1>7, OneEntry DEF x

\* A restart leaves no entry and no job.
LEMMA NoQueue ==
    ASSUME NEW S, \A q \in Requests : S[q].work = "ended" \/ (S[q].entry = 0 /\ S[q].work = "none")
    PROVE  Queue(<<>>, 0, S)
<1>1. <<>> \in Seq(Entry) /\ 0 \in 0..Len(<<>>) /\ 1..Len(<<>>) = {}
  BY SMT
<1>2. \A q \in Requests : Queued(<<>>, 0, S, q)
  BY DEF Queued, Working
<1> QED
  BY <1>1, <1>2 DEF Queue

------------------------------------------------------------------------------
(* The handler and its request.                                             *)

Fresh == {"idle", "routed", "begun", "resuming"}
Resuming == {"interrupted", "subscribing"}
Submits == {"admitting", "waiting", "failing"}
Reads == {"resuming", "interrupted", "subscribing", "following"}

\* A request has a place in the queue from its admission on, and only one that has
\* none listens to the journal; it has seen nothing before it submits or follows.
Own(x) ==
    /\ x.pc \in Fresh => x.entry = 0 /\ x.work = "none" /\ x.cursor = 0
    /\ x.pc \in Fresh \cup Resuming => x.sub = "none" /\ x.buf = <<>> /\ x.got = <<>>
    /\ x.pc \in Resuming \cup {"following"} => x.entry = 0
    /\ x.pc \in Submits => x.entry # 0
    /\ x.entry # 0 => x.sub # "open" /\ x.buf = <<>> /\ x.cursor = 0
    /\ Len(x.buf) <= SubscriberSize
OwnInv == \A q \in Requests : Own(req[q])

\* The request that created the journal of its operation.
Held(x) == x.entry # 0 \/ x.pc = "begun"

\* What every request goes through, but for the step that creates or finds the journal.
Forward(x, y) ==
    /\ Held(y) => Held(x)
    /\ x.entry # 0 => y.entry # 0
    /\ x.work # "none" => y.work # "none"
    /\ y.pc \in Reads => x.pc \in Reads

\* The steps of a handler that leave the place of its request.
Onward(a, b) ==
    /\ b \in Fresh => a \in Fresh
    /\ b \in Resuming => a \in Fresh \cup Resuming
    /\ b = "following" => a = "following"
    /\ b \in Submits => a \in Submits
    /\ b = "begun" => a = "begun"
    /\ b \in Reads => a \in Reads

\* A request whose handler goes on.
LEMMA GoesOn ==
    ASSUME NEW x, NEW y, Own(x), Goes(x, y), Onward(x.pc, y.pc), y.work = x.work
    PROVE  Own(y) /\ Forward(x, y) /\ Calm(x, y)
<1>1. Own(y)
  BY SMT DEF Own, Goes, SameLine, Onward, Fresh, Resuming, Submits
<1> QED
  BY <1>1 DEF Forward, Calm, Held, Goes, Onward

\* A request whose job goes on.
LEMMA JobGoesOn ==
    ASSUME NEW x, NEW y, Own(x), Goes(x, y), y.pc = x.pc, x.entry # 0, y.work # "none"
    PROVE  Own(y) /\ Forward(x, y)
<1>1. Own(y)
  BY SMT DEF Own, Goes, SameLine, Fresh, Resuming, Submits
<1> QED
  BY <1>1 DEF Forward, Held, Goes

\* A submitting request that is sent an event.
LEMMA SendsOn ==
    ASSUME NEW x, NEW y, NEW n, Own(x), Sends(x, y, n), x.entry # 0,
           y.pc = x.pc \/ y.pc \in {"waiting", "done"}, x.work # "none" => y.work # "none"
    PROVE  Own(y) /\ Forward(x, y)
<1>1. x.pc \notin Fresh /\ x.pc \notin Resuming /\ x.pc # "following"
  BY DEF Own
<1>2. y.pc \notin Fresh /\ y.pc \notin Resuming /\ y.pc # "following"
  BY <1>1 DEF Fresh, Resuming
<1>3. Own(y)
  BY <1>2 DEF Own, Sends
<1> QED
  BY <1>2, <1>3 DEF Forward, Held, Sends, Fresh, Resuming, Reads

\* Every request is left alone or goes on as r does.
AllGoOn == OwnInv' /\ \A q \in Requests : Forward(req[q], req'[q])
AllCalm == \A q \in Requests : Calm(req[q], req'[q])

\* A step that leaves the requests alone.
LEMMA SameRequests ==
    ASSUME OwnInv, req' = req
    PROVE  AllGoOn
BY DEF AllGoOn, OwnInv, Forward, Held

\* A step of one request.
LEMMA Alone ==
    ASSUME OwnInv, NEW r \in Requests, Only(r), Own(req'[r]), Forward(req[r], req'[r])
    PROVE  AllGoOn /\ (Calm(req[r], req'[r]) => AllCalm)
<1>1. ASSUME NEW q \in Requests, q # r
      PROVE  Own(req'[q]) /\ Forward(req[q], req'[q]) /\ Calm(req[q], req'[q])
  BY <1>1 DEF OwnInv, Only, Forward, Calm, Held
<1> QED
  BY <1>1 DEF AllGoOn, AllCalm, OwnInv

\* A step of one request that others hear of.
LEMMA Together ==
    ASSUME ReqOK, OwnInv, NEW r \in Requests, NEW o, NEW n, Echo(r, o, n),
           Own(req'[r]), Forward(req[r], req'[r])
    PROVE  AllGoOn /\ (Calm(req[r], req'[r]) => AllCalm)
<1>hears. ASSUME NEW x \in Request, NEW y, NEW k, Own(x), x.sub = "open", Hears(x, y, k)
          PROVE  Own(y) /\ Forward(x, y) /\ Calm(x, y) /\ x.entry = 0
  <2> USE <1>hears
  <2>1. x.entry = 0 /\ x.pc \notin Fresh \cup Resuming
    BY DEF Own
  <2>2. Len(y.buf) <= SubscriberSize
    <3>1. CASE y.buf = x.buf
      BY <3>1 DEF Own
    <3>2. CASE Len(x.buf) < SubscriberSize /\ y.buf = Append(x.buf, k)
      <4>1. x.buf \in Seq(Nat) /\ SubscriberSize \in Nat
        BY Fields, SessionAssumption
      <4> QED
        BY <3>2, <4>1, SMT
    <3> QED
      BY <3>1, <3>2 DEF Hears
  <2>3. Own(y)
    BY <2>1, <2>2 DEF Own, Hears
  <2> QED
    BY <2>1, <2>3 DEF Forward, Calm, Held, Hears
<1>1. ASSUME NEW q \in Requests, q # r
      PROVE  Own(req'[q]) /\ Forward(req[q], req'[q]) /\ Calm(req[q], req'[q])
  <2>1. CASE OpOf[q] = o /\ req[q].sub = "open"
    <3>1. Hears(req[q], req'[q], n) /\ Own(req[q]) /\ req[q] \in Request
      BY <1>1, <2>1 DEF Echo, OwnInv, ReqOK
    <3> QED
      BY <2>1, <3>1, <1>hears
  <2>2. CASE ~(OpOf[q] = o /\ req[q].sub = "open")
    <3>1. req'[q] = req[q] /\ Own(req[q])
      BY <1>1, <2>2 DEF Echo, OwnInv
    <3> QED
      BY <3>1 DEF Forward, Calm, Held
  <2> QED
    BY <2>1, <2>2
<1> QED
  BY <1>1 DEF AllGoOn, AllCalm, OwnInv

------------------------------------------------------------------------------
(* The journals.                                                            *)

\* A journal is numbered without gaps and says the end once, as its last word.
Sound(j) ==
    /\ j \in Seq(Stored)
    /\ \A i \in 1..Len(j) : j[i].n = i /\ (j[i].kind \in LastKinds => i = Len(j))
JournalInv == /\ DOMAIN journal \subseteq Ops /\ active \subseteq DOMAIN journal
              /\ \A o \in DOMAIN journal : Sound(journal[o])

\* The number of events of o that are stored.
Count(o) == IF Begun(o) THEN Len(journal[o]) ELSE 0

\* What a step does to the journals: one is created, one is appended to, or none changes.
Creates(o) == /\ o \in Ops /\ ~Begun(o)
              /\ journal' = [k \in DOMAIN journal \cup {o} |-> IF k = o THEN <<>> ELSE journal[k]]
Appends(o, n, kind) ==
    /\ Begun(o) /\ Contiguous(o, n) /\ kind \in Kinds
    /\ journal' = [journal EXCEPT ![o] = Append(@, [n |-> n, kind |-> kind])]

\* The counts are natural numbers.
LEMMA Counts ==
    ASSUME JournalInv
    PROVE  \A o : Count(o) \in Nat /\ (Begun(o) => Count(o) = Len(journal[o]))
<1>1. \A o \in DOMAIN journal : Len(journal[o]) \in Nat
  <2>1. \A o \in DOMAIN journal : journal[o] \in Seq(Stored)
    BY DEF JournalInv, Sound
  <2> QED
    BY <2>1, SMT
<1> QED
  BY <1>1 DEF Count, Begun

\* A new journal is empty.
LEMMA CreateJournal ==
    ASSUME JournalInv, NEW o, Creates(o), active' \subseteq active \cup {o}
    PROVE  /\ JournalInv' /\ DOMAIN journal' = DOMAIN journal \cup {o}
           /\ \A p : Count(p)' = Count(p) /\ (Ended(p)' <=> Ended(p))
<1>1. /\ DOMAIN journal' = DOMAIN journal \cup {o} /\ journal'[o] = <<>>
      /\ \A p \in DOMAIN journal : journal'[p] = journal[p] /\ p # o
  BY DEF Creates, Begun
<1>2. <<>> \in Seq(Stored) /\ 1..Len(<<>>) = {} /\ Len(<<>>) = 0
  BY SMT
<1>3. Sound(<<>>)
  BY <1>2 DEF Sound
<1>4. JournalInv'
  BY <1>1, <1>3 DEF JournalInv, Creates
<1>5. ASSUME NEW p
      PROVE  Count(p)' = Count(p) /\ (Ended(p)' <=> Ended(p))
  <2>1. CASE p = o
    <3>1. ~Begun(o) /\ Begun(o)'
      BY <1>1 DEF Begun, Creates
    <3>2. Count(o) = 0 /\ Count(o)' = 0
      BY <1>1, <1>2, <3>1 DEF Count
    <3>3. ~Ended(o) /\ ~Ended(o)'
      BY <1>1, <3>1 DEF Ended
    <3> QED
      BY <2>1, <3>2, <3>3
  <2>2. CASE p # o
    BY <1>1, <2>2 DEF Count, Ended, Begun
  <2> QED
    BY <2>1, <2>2
<1> QED
  BY <1>1, <1>4, <1>5

\* One journal has one more event.
LEMMA AppendJournal ==
    ASSUME JournalInv, NEW o, NEW n, NEW kind, Appends(o, n, kind), active' \subseteq active
    PROVE  /\ JournalInv' /\ DOMAIN journal' = DOMAIN journal /\ Begun(o) /\ ~Ended(o)
           /\ n = Count(o) + 1 /\ n \in Nat /\ Count(o)' = n /\ (Ended(o)' <=> kind \in LastKinds)
           /\ \A p : p # o => Count(p)' = Count(p) /\ (Ended(p)' <=> Ended(p))
<1>sound. ASSUME NEW j, Sound(j), NEW l, NEW kd \in Kinds, l = Len(j) + 1,
                 \A i \in 1..Len(j) : j[i].kind \notin LastKinds
          PROVE  /\ Sound(Append(j, [n |-> l, kind |-> kd]))
                 /\ Len(Append(j, [n |-> l, kind |-> kd])) = l /\ l \in Nat
  <2> USE <1>sound
  <2> DEFINE v == [n |-> l, kind |-> kd]
             m == Len(j)
             k == Append(j, v)
  <2>1. j \in Seq(Stored) /\ m \in Nat /\ l \in Nat /\ l = m + 1
    <3>1. j \in Seq(Stored)
      BY DEF Sound
    <3> QED
      BY <3>1, SMT
  <2>2. v \in Stored /\ v.n = l /\ v.kind = kd
    BY <2>1 DEF Stored
  <2> HIDE DEF v
  <2>3. /\ k \in Seq(Stored) /\ Len(k) = l /\ k[l] = v
        /\ \A i \in 1..m : k[i] = j[i]
        /\ \A i \in 1..l : i \in 1..m \/ i = l
    BY <2>1, <2>2, SMT
  <2> HIDE DEF k, m
  <2>4. ASSUME NEW i \in 1..l
        PROVE  k[i].n = i /\ (k[i].kind \in LastKinds => i = l)
    BY <2>2, <2>3 DEF Sound, m
  <2> QED
    BY <2>1, <2>3, <2>4 DEF Sound, v, k
<1> DEFINE j == journal[o]
           v == [n |-> n, kind |-> kind]
           k == Append(j, v)
<1>1. /\ o \in DOMAIN journal /\ Sound(j) /\ ~Ended(o) /\ n = Len(j) + 1 /\ kind \in Kinds
      /\ Count(o) = Len(j) /\ Begun(o)
  BY DEF Appends, Contiguous, JournalInv, Count, Begun
<1>2. /\ DOMAIN journal' = DOMAIN journal /\ journal'[o] = k
      /\ \A p \in DOMAIN journal : p # o => journal'[p] = journal[p]
  BY <1>1 DEF Appends
<1>3. \A i \in 1..Len(j) : j[i].kind \notin LastKinds
  <2>1. \A i \in 1..Len(j) : j # <<>> /\ (j[i].kind \in LastKinds => i = Len(j))
    <3>1. j \in Seq(Stored)
      BY <1>1 DEF Sound
    <3> HIDE DEF j
    <3>2. \A i \in 1..Len(j) : j # <<>>
      BY <3>1, SMT
    <3> QED
      BY <1>1, <3>2 DEF Sound
  <2> QED
    BY <1>1, <2>1 DEF Ended, Begun
<1> HIDE DEF j
<1>4. Sound(k) /\ Len(k) = n /\ n \in Nat
  BY <1>1, <1>3, <1>sound
<1>5. k # <<>> /\ k[n].kind = kind
  <2>1. j \in Seq(Stored) /\ v.kind = kind
    BY <1>1 DEF Sound
  <2>2. n # 0 /\ Len(<<>>) = 0
    BY <1>1, <2>1, SMT
  <2> HIDE DEF v
  <2>3. k[n] = v
    BY <1>1, <2>1, SMT
  <2> HIDE DEF k
  <2> QED
    BY <1>4, <2>1, <2>2, <2>3
<1> HIDE DEF k
<1>6. JournalInv'
  BY <1>2, <1>4 DEF JournalInv
<1>7. Count(o)' = n /\ (Ended(o)' <=> kind \in LastKinds)
  BY <1>1, <1>2, <1>4, <1>5 DEF Count, Ended, Begun
<1>8. \A p : p # o => Count(p)' = Count(p) /\ (Ended(p)' <=> Ended(p))
  BY <1>2 DEF Count, Ended, Begun
<1> QED
  BY <1>1, <1>2, <1>4, <1>6, <1>7, <1>8

------------------------------------------------------------------------------
(* Who holds an operation, and the steps that keep the queue.               *)

\* A journal has at most one creator, and nobody reads a journal that is not there.
HoldInv ==
    /\ \A r \in Requests : Held(req[r]) \/ req[r].pc \in Reads => Begun(OpOf[r])
    /\ \A q, r \in Requests : Held(req[q]) /\ Held(req[r]) /\ OpOf[q] = OpOf[r] => q = r

\* An operation that was started was started once, for the request that holds it.
StartInv ==
    /\ started \in [Ops -> Nat]
    /\ \A o \in Ops : started[o] # 0 =>
          started[o] = 1 /\ \E r \in Requests : OpOf[r] = o /\ req[r].entry # 0 /\ req[r].work # "none"

QueueInv == Queue(entries, current, req)
BaseInv == ReqOK /\ OwnInv /\ QueueInv /\ HoldInv /\ StartInv /\ JournalInv

\* Steps that start nothing.
LEMMA Carry ==
    ASSUME BaseInv, ReqOK', AllGoOn, QueueInv', JournalInv',
           DOMAIN journal \subseteq DOMAIN journal', started' = started
    PROVE  BaseInv' /\ AllGoOn
<1>1. \A q \in Requests : Forward(req[q], req'[q])
  BY DEF AllGoOn
<1>2. HoldInv'
  <2>1. \A r \in Requests : Held(req'[r]) \/ req'[r].pc \in Reads => Begun(OpOf[r])'
    BY <1>1 DEF BaseInv, HoldInv, Forward, Begun
  <2>2. \A q, r \in Requests : Held(req'[q]) /\ Held(req'[r]) /\ OpOf[q] = OpOf[r] => q = r
    BY <1>1 DEF BaseInv, HoldInv, Forward
  <2> QED
    BY <2>1, <2>2 DEF HoldInv
<1>3. StartInv'
  BY <1>1 DEF BaseInv, StartInv, Forward
<1> QED
  BY <1>2, <1>3 DEF BaseInv, AllGoOn

\* Steps that do not touch the queue either.
LEMMA CarryCalm ==
    ASSUME BaseInv, ReqOK', AllGoOn, AllCalm, entries' = entries, current' = current,
           JournalInv', DOMAIN journal \subseteq DOMAIN journal', started' = started
    PROVE  BaseInv' /\ AllGoOn
<1>1. QueueInv'
  BY CalmQueue DEF BaseInv, QueueInv, AllCalm
<1> QED
  BY <1>1, Carry

\* The store: what a call that stores does to the journals.
LEMMA StoreJournal ==
    ASSUME BaseInv, NEW o, NEW n, NEW kind \in Kinds, Begun(o), Store(o, n, kind)
    PROVE  /\ Appends(o, n, kind) /\ active' \subseteq active /\ JournalInv'
           /\ DOMAIN journal \subseteq DOMAIN journal'
<1>1. Appends(o, n, kind) /\ active' \subseteq active
  BY DEF Store, Appends
<1> QED
  BY <1>1, AppendJournal DEF BaseInv

\* A call that fails leaves the journals alone, or has stored the event.
LEMMA StoreFailsJournal ==
    ASSUME BaseInv, NEW o, NEW n, NEW kind \in Kinds, Begun(o), StoreFails(o, n, kind)
    PROVE  /\ JournalInv' /\ DOMAIN journal \subseteq DOMAIN journal' /\ active' = active
           /\ \/ journal' = journal /\ unanswered' = unanswered
              \/ Appends(o, n, kind) /\ unanswered' = unanswered \cup {o}
<1>1. CASE journal' = journal /\ unanswered' = unanswered /\ active' = active
  BY <1>1 DEF BaseInv, JournalInv
<1>2. CASE Appends(o, n, kind) /\ unanswered' = unanswered \cup {o} /\ active' = active
  BY <1>2, AppendJournal DEF BaseInv
<1> QED
  BY <1>1, <1>2 DEF StoreFails, storeVars, Appends

\* The place of an entry is taken by another.
LEMMA PutEntry ==
    ASSUME NEW es \in Seq(Entry), NEW e \in 1..Len(es), NEW y \in Entry
    PROVE  Differs(es, [es EXCEPT ![e] = y], e) /\ [es EXCEPT ![e] = y][e] = y
<1> DEFINE fs == [es EXCEPT ![e] = y]
<1>1. fs \in Seq(Entry) /\ Len(fs) = Len(es) /\ fs[e] = y
  BY SMT
<1>2. \A f \in 1..Len(es) : f # e => fs[f] = es[f]
  BY SMT
<1> QED
  BY <1>1, <1>2 DEF Differs

\* complete() of the goroutine of entry e.
LEMMA CompleteEntry ==
    ASSUME QueueInv, NEW e \in 1..Len(entries), entries[e].job # <<>>
    PROVE  Differs(entries, Complete(e), e) /\ Finishes(entries[e], Complete(e)[e])
<1> DEFINE x == entries[e]
           k == x.pending - 1
           y == [x EXCEPT !.job = <<>>, !.pending = k]
<1>1. x \in Entry /\ EntryOK(x, current, req, e) /\ entries \in Seq(Entry)
  BY Entries DEF QueueInv
<1>2. k \in Nat
  <2>1. /\ x.pending = Len(x.jobs) + Len(x.job) /\ Len(x.jobs) \in Nat /\ Len(x.job) \in Nat
        /\ x.job \in Seq(Requests)
    BY <1>1, EntryFields DEF EntryOK, Counted
  <2>2. Len(x.job) # 0
    BY <2>1, SMT
  <2> HIDE DEF x
  <2> DEFINE a == Len(x.jobs)
             b == Len(x.job)
  <2>3. a \in Nat /\ b \in Nat /\ b # 0 /\ x.pending = a + b
    BY <2>1, <2>2
  <2> HIDE DEF a, b
  <2> QED
    BY <2>3, SMT
<1>3. Complete(e) = [entries EXCEPT ![e] = y]
  BY DEF Complete
<1>4. <<>> \in Seq(Requests)
  BY SMT
<1>5. x.job # <<>> /\ k = x.pending - 1
  OBVIOUS
<1> HIDE DEF x, k
<1>6. y \in Entry /\ y.state = x.state /\ y.jobs = x.jobs /\ y.job = <<>> /\ y.pending = k
  BY <1>1, <1>2, <1>4 DEF Entry
<1> HIDE DEF y
<1>7. Differs(entries, Complete(e), e) /\ Complete(e)[e] = y
  <2>1. Differs(entries, [entries EXCEPT ![e] = y], e) /\ [entries EXCEPT ![e] = y][e] = y
    BY <1>1, <1>6, PutEntry
  <2> QED
    BY <1>3, <2>1
<1> QED
  BY <1>5, <1>6, <1>7 DEF Finishes, x

\* What the invariants say of one request.
LEMMA OfRequest ==
    ASSUME BaseInv, NEW r \in Requests
    PROVE  /\ req[r] \in Request /\ Own(req[r]) /\ OpOf[r] \in Ops
           /\ req[r].pc \in Submits \/ req[r].entry # 0 \/ req[r].pc \in Reads => Begun(OpOf[r])
           /\ req[r].pc \in Submits \/ req[r].pc = "interrupted" => req[r].sub # "open"
BY DEF BaseInv, ReqOK, OwnInv, Own, HoldInv, Held, Ops, Resuming

\* A handler that goes on, with the journals.
LEMMA HandlerKeeps ==
    ASSUME BaseInv, NEW r \in Requests, ReqOK', Only(r), Goes(req[r], req'[r]),
           req'[r].work = req[r].work, Onward(req[r].pc, req'[r].pc),
           entries' = entries, current' = current, started' = started,
           JournalInv', DOMAIN journal \subseteq DOMAIN journal'
    PROVE  BaseInv' /\ AllGoOn
<1>1. Own(req'[r]) /\ Forward(req[r], req'[r]) /\ Calm(req[r], req'[r])
  BY OfRequest, GoesOn
<1>2. AllGoOn /\ AllCalm
  BY <1>1, Alone DEF BaseInv
<1> QED
  BY <1>2, CarryCalm

\* A step that leaves the journals alone.
LEMMA SameJournal ==
    ASSUME BaseInv, journal' = journal, active' = active
    PROVE  JournalInv' /\ DOMAIN journal \subseteq DOMAIN journal'
BY DEF BaseInv, JournalInv

\* Admit: the entry is there, made if need be.
LEMMA OfferedQueue ==
    ASSUME QueueInv
    PROVE  /\ Queue(Offered, Target, req) /\ Target \in 1..Len(Offered) /\ Target \in Nat
           /\ Len(entries) \in Nat
<1>1. Len(entries) \in Nat /\ current \in 0..Len(entries)
  BY Entries DEF QueueInv
<1>2. CASE current = 0
  <2>1. /\ Queue(Append(entries, NoEntry), Len(entries) + 1, req)
        /\ Len(Append(entries, NoEntry)) = Len(entries) + 1
    BY <1>2, OpenQueue DEF QueueInv
  <2>2. Len(entries) + 1 \in 1..(Len(entries) + 1) /\ Len(entries) + 1 \in Nat
    BY <1>1, SMT
  <2> QED
    BY <1>1, <1>2, <2>1, <2>2 DEF Offered, Target
<1>3. CASE current # 0
  <2>1. current \in 1..Len(entries) /\ current \in Nat
    BY <1>1, <1>3, SMT
  <2> QED
    BY <1>1, <1>3, <2>1 DEF Offered, Target, QueueInv
<1> QED
  BY <1>2, <1>3

\* Whom entry e works for.
LEMMA JobFacts ==
    ASSUME BaseInv, NEW e \in 1..Len(entries), entries[e].job # <<>>, NEW r, r = entries[e].job[1]
    PROVE  /\ r \in Requests /\ WorksOn(entries[e], r) /\ req[r].entry = e /\ req[r].entry # 0
           /\ req[r].work # "ended" /\ Own(req[r]) /\ req[r] \in Request /\ req[r].sub # "open"
           /\ OpOf[r] \in Ops /\ Begun(OpOf[r])
<1>job. ASSUME entries \in Seq(Entry), NEW f \in 1..Len(entries), entries[f].job # <<>>
        PROVE  entries[f].job[1] \in Requests
  <2> USE <1>job
  <2>1. entries[f] \in Entry
    BY SMT
  <2>2. entries[f].job \in Seq(Requests)
    BY <2>1 DEF Entry
  <2> QED
    BY <2>2, SMT
<1>1. entries \in Seq(Entry) /\ e # 0 /\ EntryOK(entries[e], current, req, e)
  BY Entries DEF BaseInv, QueueInv
<1>2. r \in Requests /\ WorksOn(entries[e], r) /\ req[r].entry = e /\ req[r].work # "ended"
  BY <1>1, <1>job DEF WorksOn, EntryOK, Serves
<1> QED
  BY <1>1, <1>2, OfRequest DEF Own

------------------------------------------------------------------------------
(* Lines of events.                                                         *)

\* Event b comes after event a: right after it, unless an event was taken for lost.
Follows(a, b, o, U) == b > a /\ (o \in U \/ b = a + 1)

\* A line s that starts after c, of an operation o with m events; U are those with
\* an event taken for lost.
Prev(c, s, i) == IF i = 1 THEN c ELSE s[i - 1]
Ordered(c, s, m, o, U) == \A i \in 1..Len(s) : s[i] <= m /\ Follows(Prev(c, s, i), s[i], o, U)
End(c, s) == IF s = <<>> THEN c ELSE s[Len(s)]

\* A line with every event after c.
Full(c, s, m, o, U) == c <= m /\ Ordered(c, s, m, o, U) /\ (o \in U \/ End(c, s) = m)

\* The next event.
LEMMA OrderedNext ==
    ASSUME NEW c \in Nat, NEW s \in Seq(Nat), NEW m \in Nat, NEW k, NEW o, NEW U,
           Full(c, s, m, o, U), k = m + 1
    PROVE  Full(c, Append(s, k), k, o, U)
<1>bound. ASSUME NEW d \in Nat, NEW u \in Seq(Nat), NEW l \in Nat, NEW p, NEW W, d <= l, Ordered(d, u, l, p, W)
          PROVE  End(d, u) \in Nat /\ End(d, u) <= l
  <2> USE <1>bound
  <2>1. CASE u = <<>>
    BY <2>1 DEF End
  <2>2. CASE u # <<>>
    <3>1. Len(u) \in 1..Len(u) /\ u[Len(u)] \in Nat
      BY <2>2, SMT
    <3> QED
      BY <2>2, <3>1 DEF End, Ordered
  <2> QED
    BY <2>1, <2>2
<1> DEFINE t == Append(s, k)
           n == Len(s)
<1>1. /\ End(c, s) \in Nat /\ End(c, s) <= m /\ c <= m /\ Ordered(c, s, m, o, U)
      /\ o \in U \/ End(c, s) = m
  BY <1>bound DEF Full
<1>2. /\ k \in Nat /\ t \in Seq(Nat) /\ n \in Nat /\ Len(t) = n + 1 /\ t[n + 1] = k /\ t # <<>>
      /\ \A i \in 1..n : t[i] = s[i] /\ (i # 1 => t[i - 1] = s[i - 1])
      /\ n # 0 => t[(n + 1) - 1] = s[n] /\ n + 1 # 1
      /\ n = 0 <=> s = <<>>
      /\ m <= k /\ c <= k
  <2>1. k \in Nat /\ m <= k /\ n \in Nat /\ c <= k
    BY <1>1, SMT
  <2>2. t \in Seq(Nat) /\ Len(t) = n + 1 /\ t[n + 1] = k
    BY <2>1, SMT
  <2>3. t # <<>> /\ (n = 0 <=> s = <<>>)
    BY <2>1, <2>2, SMT
  <2>4. \A i \in 1..n : t[i] = s[i] /\ (i # 1 => t[i - 1] = s[i - 1])
    BY <2>1, SMT
  <2>5. n # 0 => t[(n + 1) - 1] = s[n] /\ n + 1 # 1
    BY <2>1, SMT
  <2> QED
    BY <2>1, <2>2, <2>3, <2>4, <2>5
<1> HIDE DEF t
<1>3. Ordered(c, s, k, o, U)
  <2>1. \A i \in 1..Len(s) : s[i] <= m => s[i] <= k
    BY <1>2, SMT
  <2> QED
    BY <1>1, <2>1 DEF Ordered
<1>4. ASSUME NEW i \in 1..n
      PROVE  t[i] <= k /\ Follows(Prev(c, t, i), t[i], o, U)
  BY <1>2, <1>3 DEF Ordered, Prev
<1>5. Prev(c, t, n + 1) = End(c, s)
  <2>1. 0 + 1 = 1
    BY SMT
  <2> QED
    BY <1>2, <2>1 DEF Prev, End
<1>6. Follows(End(c, s), k, o, U)
  <2> DEFINE z == End(c, s)
  <2>1. z \in Nat /\ z <= m /\ (o \in U \/ z = m)
    BY <1>1
  <2> HIDE DEF z
  <2>2. k > z /\ (z = m => k = z + 1)
    BY <2>1, SMT
  <2> QED
    BY <2>1, <2>2 DEF Follows, z
<1>7. ASSUME NEW i \in 1..Len(t)
      PROVE  t[i] <= k /\ Follows(Prev(c, t, i), t[i], o, U)
  <2>1. i \in 1..n \/ i = n + 1
    BY <1>2, SMT
  <2>2. k <= k
    BY <1>2, SMT
  <2> QED
    BY <1>2, <1>4, <1>5, <1>6, <2>1, <2>2
<1>8. End(c, t) = k
  BY <1>2 DEF End
<1> QED
  BY <1>2, <1>7, <1>8 DEF Full, Ordered, t

\* An event is added to the end of a line.
LEMMA AppendLast ==
    ASSUME NEW a \in Seq(Nat), NEW b \in Seq(Nat), NEW n \in Nat
    PROVE  a \o Append(b, n) = Append(a \o b, n)
BY SMT

\* An event goes from the front of one line to the end of another.
LEMMA MoveHead ==
    ASSUME NEW a \in Seq(Nat), NEW b \in Seq(Nat), b # <<>>
    PROVE  Append(a, Head(b)) \o Tail(b) = a \o b
<1>1. /\ Append(a, Head(b)) \o Tail(b) \in Seq(Nat) /\ a \o b \in Seq(Nat)
      /\ Len(Append(a, Head(b)) \o Tail(b)) = Len(a \o b)
  BY SMT
<1>2. \A i \in 1..Len(a \o b) : (Append(a, Head(b)) \o Tail(b))[i] = (a \o b)[i]
  BY SMT
<1> QED
  BY <1>1, <1>2, SMT

------------------------------------------------------------------------------
(* The streams.                                                             *)

\* What the client of a request has seen and will see, as long as it is there.
Line(x) == IF x.gone THEN x.got ELSE x.got \o x.buf

\* A request with its client that is told of every event of its operation.
Live(x) == (Held(x) \/ x.sub = "open") /\ ~x.gone

\* The line of x is in order and, while x is live, complete.
StreamOK(x, m, o, U) ==
    /\ x.cursor <= m /\ Ordered(x.cursor, Line(x), m, o, U)
    /\ Live(x) /\ o \notin U => End(x.cursor, Line(x)) = m
StreamInv == \A q \in Requests : StreamOK(req[q], Count(OpOf[q]), OpOf[q], unanswered)

\* A request whose line is left alone, but for what its client no longer sees.
Quiet(x, y) == /\ y.cursor = x.cursor /\ (Live(y) => Live(x))
               /\ Line(y) = Line(x) \/ (y.gone /\ y.got = x.got)

\* The line of a request.
LEMMA LineType ==
    ASSUME NEW x \in Request
    PROVE  /\ x.cursor \in Nat /\ Line(x) \in Seq(Nat) /\ x.got \in Seq(Nat) /\ x.buf \in Seq(Nat)
           /\ x.buf = <<>> => Line(x) = x.got
<1>1. x.cursor \in Nat /\ x.got \in Seq(Nat) /\ x.buf \in Seq(Nat)
  BY Fields
<1> DEFINE g == x.got
           b == x.buf
<1> HIDE DEF g, b
<1>2. g \in Seq(Nat) /\ b \in Seq(Nat)
  BY <1>1 DEF g, b
<1>3. g \o b \in Seq(Nat) /\ (b = <<>> => g \o b = g)
  BY <1>2, SMT
<1> QED
  BY <1>1, <1>3 DEF Line, g, b

\* What the client has seen is in order.
LEMMA GotOrdered ==
    ASSUME NEW x \in Request, NEW m \in Nat, NEW o, NEW U, StreamOK(x, m, o, U)
    PROVE  Ordered(x.cursor, x.got, m, o, U)
<1>prefix. ASSUME NEW c \in Nat, NEW a \in Seq(Nat), NEW b \in Seq(Nat), NEW l \in Nat, NEW p, NEW W,
                  Ordered(c, a \o b, l, p, W)
           PROVE  Ordered(c, a, l, p, W)
  <2> USE <1>prefix
  <2> DEFINE s == a \o b
  <2>1. ASSUME NEW i \in 1..Len(a)
        PROVE  i \in 1..Len(s) /\ s[i] = a[i] /\ (i # 1 => s[i - 1] = a[i - 1])
    BY SMT
  <2>2. Ordered(c, s, l, p, W)
    OBVIOUS
  <2> HIDE DEF s
  <2>3. ASSUME NEW i \in 1..Len(a)
        PROVE  Prev(c, s, i) = Prev(c, a, i)
    BY <2>1 DEF Prev
  <2> QED
    BY <2>1, <2>2, <2>3 DEF Ordered
<1> DEFINE c == x.cursor
           s == Line(x)
           g == x.got
<1>1. c \in Nat /\ g \in Seq(Nat) /\ Ordered(c, s, m, o, U)
  BY LineType DEF StreamOK
<1>2. CASE x.gone
  BY <1>1, <1>2 DEF Line
<1>3. CASE ~x.gone
  <2> DEFINE b == x.buf
  <2>1. s = g \o b /\ b \in Seq(Nat)
    BY <1>3, LineType DEF Line
  <2> HIDE DEF s, g, b, c
  <2>2. Ordered(c, g, m, o, U)
    BY <1>1, <2>1, <1>prefix
  <2> QED
    BY <2>2 DEF c, g
<1> QED
  BY <1>2, <1>3

\* A line that is left alone stays in order.
LEMMA QuietStream ==
    ASSUME NEW x \in Request, NEW y \in Request, NEW m \in Nat, NEW k \in Nat, NEW o, NEW U, NEW V,
           StreamOK(x, m, o, U), Quiet(x, y), m <= k, o \in U => o \in V, Live(y) => k = m \/ o \in V
    PROVE  StreamOK(y, k, o, V)
<1>grow. ASSUME NEW c \in Nat, NEW s \in Seq(Nat), NEW l \in Nat, NEW j \in Nat, NEW p, NEW W, NEW X,
                Ordered(c, s, l, p, W), l <= j, p \in W => p \in X
         PROVE  Ordered(c, s, j, p, X)
  <2> USE <1>grow
  <2>1. ASSUME NEW i \in 1..Len(s)
        PROVE  s[i] <= j /\ Follows(Prev(c, s, i), s[i], p, X)
    <3>1. s[i] <= l /\ Follows(Prev(c, s, i), s[i], p, W)
      BY DEF Ordered
    <3>2. s[i] <= j
      <4>1. s[i] \in Nat
        BY SMT
      <4> QED
        BY <3>1, <4>1, SMT
    <3> QED
      BY <3>1, <3>2 DEF Follows
  <2> QED
    BY <2>1 DEF Ordered
<1> DEFINE c == x.cursor
           s == Line(x)
           g == x.got
<1>1. /\ c \in Nat /\ s \in Seq(Nat) /\ g \in Seq(Nat) /\ c <= m /\ Ordered(c, s, m, o, U)
      /\ Live(x) /\ o \notin U => End(c, s) = m
  BY LineType DEF StreamOK
<1>2. Ordered(c, g, m, o, U)
  BY GotOrdered
<1>3. c <= k
  <2> HIDE DEF c
  <2> QED
    BY <1>1, SMT
<1>4. Line(y) = s \/ (Line(y) = g /\ ~Live(y))
  BY DEF Quiet, Line, Live
<1>5. y.cursor = c /\ (Live(y) => Live(x))
  BY DEF Quiet
<1> HIDE DEF c, s, g
<1>6. Ordered(c, s, k, o, V) /\ Ordered(c, g, k, o, V)
  BY <1>1, <1>2, <1>grow
<1>7. Ordered(c, Line(y), k, o, V)
  BY <1>4, <1>6
<1>8. Live(y) /\ o \notin V => End(c, Line(y)) = k
  BY <1>1, <1>4, <1>5
<1> QED
  BY <1>3, <1>5, <1>7, <1>8 DEF StreamOK

\* The next event joins the line of a live request.
LEMMA NextStream ==
    ASSUME NEW x \in Request, NEW y \in Request, NEW m \in Nat, NEW k, NEW o, NEW U, k = m + 1,
           StreamOK(x, m, o, U), Live(x), y.cursor = x.cursor, Line(y) = Append(Line(x), k)
    PROVE  StreamOK(y, k, o, U)
<1> DEFINE c == x.cursor
           s == Line(x)
<1>1. c \in Nat /\ s \in Seq(Nat) /\ Full(c, s, m, o, U)
  BY LineType DEF StreamOK, Full
<1>2. y.cursor = c /\ Line(y) = Append(s, k)
  OBVIOUS
<1> HIDE DEF c, s
<1>3. Full(c, Append(s, k), k, o, U)
  BY <1>1, OrderedNext
<1> QED
  BY <1>2, <1>3 DEF StreamOK, Full

\* A request whose client is there is marked active until its operation has ended,
\* and a handler that takes the operation for interrupted found it not to be.
Active(x, o) == /\ Held(x) /\ ~x.gone /\ ~Ended(o) => o \in active
                /\ x.pc = "interrupted" => o \notin active
ActiveInv == \A q \in Requests : Active(req[q], OpOf[q])
FlowInv == StreamInv /\ ActiveInv

\* What a step may do to an operation none of whose listeners hears anything.
Settled(o) == /\ Count(o) <= Count(o)' /\ (o \in unanswered => o \in unanswered')
              /\ Count(o)' = Count(o) \/ o \in unanswered'
Remains(o) == /\ Ended(o) => Ended(o)'
              /\ o \in active' => o \in active
              /\ o \in active => o \in active' \/ Ended(o)'
Steady == \A q \in Requests : Settled(OpOf[q]) /\ Remains(OpOf[q])

\* What it may do to a request.
Ages(x, y) == /\ (Held(y) => Held(x)) /\ (x.gone => y.gone)
              /\ y.pc = "interrupted" => x.pc = "interrupted"
Stays(x, y) == Quiet(x, y) /\ Ages(x, y)
AllStay == \A q \in Requests : Stays(req[q], req'[q])

\* The streams in a quiet step.
LEMMA StreamQuiet ==
    ASSUME ReqOK, ReqOK', JournalInv, JournalInv', StreamInv, NEW q \in Requests,
           Quiet(req[q], req'[q]), Settled(OpOf[q])
    PROVE  StreamOK(req'[q], Count(OpOf[q])', OpOf[q], unanswered')
<1> DEFINE x == req[q]
           y == req'[q]
           o == OpOf[q]
           m == Count(o)
           k == Count(o)'
<1>1. m \in Nat /\ k \in Nat
  <2>1. \A p : Count(p) \in Nat
    BY Counts
  <2>2. \A p : Count(p)' \in Nat
    <3>1. \A p \in DOMAIN journal' : journal'[p] \in Seq(Stored)
      BY DEF JournalInv, Sound
    <3>2. \A p \in DOMAIN journal' : Len(journal'[p]) \in Nat
      BY <3>1, SMT
    <3> QED
      BY <3>2 DEF Count, Begun
  <2> QED
    BY <2>1, <2>2
<1>2. /\ x \in Request /\ y \in Request /\ StreamOK(x, m, o, unanswered) /\ Quiet(x, y)
      /\ m <= k /\ (o \in unanswered => o \in unanswered') /\ (k = m \/ o \in unanswered')
  BY DEF ReqOK, StreamInv, Settled
<1> HIDE DEF x, y, o, m, k
<1>3. StreamOK(y, k, o, unanswered')
  BY <1>1, <1>2, QuietStream
<1> QED
  BY <1>3 DEF x, y, o, m, k

\* What is active in a step that only ages the requests.
LEMMA ActiveAges ==
    ASSUME ActiveInv, NEW q \in Requests, Ages(req[q], req'[q]), Remains(OpOf[q])
    PROVE  Active(req[q], OpOf[q])'
BY DEF ActiveInv, Active, Ages, Remains

\* A quiet step.
LEMMA FlowQuiet ==
    ASSUME BaseInv, BaseInv', FlowInv, AllStay, Steady
    PROVE  FlowInv'
<1>1. ASSUME NEW q \in Requests
      PROVE  StreamOK(req'[q], Count(OpOf[q])', OpOf[q], unanswered')
  <2>1. Quiet(req[q], req'[q]) /\ Settled(OpOf[q])
    BY DEF AllStay, Stays, Steady
  <2> QED
    BY <2>1, StreamQuiet DEF BaseInv, FlowInv
<1>2. ASSUME NEW q \in Requests
      PROVE  Active(req[q], OpOf[q])'
  BY ActiveAges DEF FlowInv, AllStay, Stays, Steady
<1> QED
  BY <1>1, <1>2 DEF FlowInv, StreamInv, ActiveInv

\* The line of one request is left alone, or its client goes.
LEMMA LineStays ==
    ASSUME NEW x, NEW y, SameLine(x, y), Held(y) => Held(x),
           y.gone = x.gone \/ y.gone, y.pc = "interrupted" => x.pc = "interrupted"
    PROVE  Stays(x, y)
<1>1. Line(y) = Line(x) \/ (y.gone /\ y.got = x.got)
  BY DEF Line, SameLine
<1> QED
  BY <1>1 DEF Stays, Ages, Quiet, Live, SameLine

\* Steps that store nothing.
LEMMA SameStore ==
    ASSUME JournalInv, \A p : Count(p)' = Count(p) /\ (Ended(p)' <=> Ended(p)),
           active' = active, unanswered' = unanswered
    PROVE  Steady
<1>1. \A p : Count(p) <= Count(p)
  <2>1. \A p : Count(p) \in Nat
    BY Counts
  <2>2. \A n \in Nat : n <= n
    BY SMT
  <2> QED
    BY <2>1, <2>2
<1> QED
  BY <1>1 DEF Steady, Settled, Remains

\* Steps that leave the journals alone.
LEMMA StillStore ==
    ASSUME JournalInv, journal' = journal, active' = active, unanswered' = unanswered
    PROVE  Steady
<1>1. \A p : Count(p)' = Count(p) /\ (Ended(p)' <=> Ended(p))
  BY DEF Count, Ended, Begun
<1> QED
  BY <1>1, SameStore

\* Calls that fail.
LEMMA LostStore ==
    ASSUME BaseInv, NEW o, NEW n, NEW kind \in Kinds, Begun(o), StoreFails(o, n, kind)
    PROVE  Steady
<1>1. /\ active' = active
      /\ \/ journal' = journal /\ unanswered' = unanswered
         \/ Appends(o, n, kind) /\ unanswered' = unanswered \cup {o}
  BY StoreFailsJournal
<1>2. CASE journal' = journal /\ unanswered' = unanswered
  BY <1>1, <1>2, StillStore DEF BaseInv
<1>3. CASE Appends(o, n, kind) /\ unanswered' = unanswered \cup {o}
  <2>1. /\ ~Ended(o) /\ n = Count(o) + 1 /\ Count(o)' = n
        /\ \A p : p # o => Count(p)' = Count(p) /\ (Ended(p)' <=> Ended(p))
    BY <1>1, <1>3, AppendJournal DEF BaseInv
  <2>2. \A p : Count(p) \in Nat
    BY Counts DEF BaseInv
  <2>3. \A k \in Nat : k <= k /\ k <= k + 1
    BY SMT
  <2>4. ASSUME NEW p
        PROVE  Settled(p) /\ Remains(p)
    <3>1. CASE p = o
      <4>1. Count(o) <= Count(o)'
        BY <2>1, <2>2, <2>3
      <4>2. Settled(o)
        BY <1>3, <4>1 DEF Settled
      <4>3. Remains(o)
        BY <1>1, <2>1 DEF Remains
      <4> QED
        BY <3>1, <4>2, <4>3
    <3>2. CASE p # o
      <4>1. Count(p)' = Count(p) /\ (Ended(p)' <=> Ended(p)) /\ Count(p) <= Count(p)
        BY <2>1, <2>2, <2>3, <3>2
      <4> QED
        BY <1>1, <1>3, <4>1 DEF Settled, Remains
    <3> QED
      BY <3>1, <3>2
  <2> QED
    BY <2>4 DEF Steady
<1> QED
  BY <1>1, <1>2, <1>3

\* A holder is sent the next event.
LEMMA SendStream ==
    ASSUME NEW x \in Request, NEW y, NEW n, NEW m \in Nat, NEW o, NEW U, Own(x), x.entry # 0,
           Sends(x, y, n), n = m + 1, StreamOK(x, m, o, U), y.pc # "interrupted"
    PROVE  StreamOK(y, n, o, U) /\ Ages(x, y)
<1>1. /\ y \in Request /\ y.cursor = x.cursor /\ x.buf = <<>> /\ y.buf = <<>> /\ Held(x)
      /\ Ages(x, y)
      /\ (y.gone /\ y.got = x.got) \/ (~x.gone /\ ~y.gone /\ y.got = Append(x.got, n))
  BY DEF Sends, Own, Held, Ages
<1>2. CASE y.gone /\ y.got = x.got
  <2>1. n \in Nat /\ m <= n
    BY SMT
  <2>2. Quiet(x, y) /\ ~Live(y)
    BY <1>1, <1>2 DEF Quiet, Live
  <2> QED
    BY <1>1, <2>1, <2>2, QuietStream
<1>3. CASE ~x.gone /\ y.got = Append(x.got, n)
  <2>1. Line(y) = Append(Line(x), n) /\ Live(x)
    BY <1>1, <1>3, LineType DEF Live
  <2> QED
    BY <1>1, <2>1, NextStream
<1> QED
  BY <1>1, <1>2, <1>3

\* No other request than r and the listeners of o is to be told.
Sole(r, o) == \A q \in Requests : q # r /\ OpOf[q] = o /\ req[q].sub # "open" => ~Live(req[q])

\* An event is stored: its listeners hear it, and who stores it is told.
LEMMA FlowStored ==
    ASSUME BaseInv, BaseInv', FlowInv, NEW r \in Requests, NEW o, o = OpOf[r], NEW n,
           NEW kind \in Kinds, Begun(o), Store(o, n, kind), Echo(r, o, n), Sole(r, o),
           Count(o) \in Nat /\ n = Count(o) + 1 =>
              StreamOK(req'[r], n, o, unanswered) /\ Ages(req[r], req'[r])
    PROVE  FlowInv'
<1>hear. ASSUME NEW x \in Request, NEW y, NEW l, NEW m \in Nat, NEW w, NEW U, Own(x), x.sub = "open",
                Hears(x, y, l), l = m + 1, StreamOK(x, m, w, U)
         PROVE  StreamOK(y, l, w, U) /\ Ages(x, y)
  <2> USE <1>hear
  <2>1. /\ y \in Request /\ y.cursor = x.cursor /\ y.got = x.got /\ y.gone = x.gone
        /\ y.pc = x.pc /\ y.entry = x.entry
        /\ (y.buf = x.buf /\ y.sub = "closed") \/ y.buf = Append(x.buf, l)
    BY DEF Hears
  <2>2. ~Held(x) /\ ~Held(y)
    BY <2>1 DEF Own, Held, Fresh
  <2>3. l \in Nat /\ m <= l
    BY SMT
  <2>4. ASSUME Line(y) = Line(x), ~Live(y)
        PROVE  StreamOK(y, l, w, U)
    <3>1. Quiet(x, y)
      BY <2>1, <2>4 DEF Quiet
    <3> QED
      BY <2>1, <2>3, <2>4, <3>1, QuietStream
  <2>5. CASE y.buf = x.buf /\ y.sub = "closed"
    <3>1. Line(y) = Line(x) /\ ~Live(y)
      BY <2>1, <2>2, <2>5 DEF Line, Live
    <3> QED
      BY <2>1, <2>2, <2>4, <3>1 DEF Ages
  <2>6. CASE y.buf = Append(x.buf, l) /\ x.gone
    <3>1. Line(y) = Line(x) /\ ~Live(y)
      BY <2>1, <2>6 DEF Line, Live
    <3> QED
      BY <2>1, <2>2, <2>4, <3>1 DEF Ages
  <2>7. CASE y.buf = Append(x.buf, l) /\ ~x.gone
    <3> DEFINE g == x.got
               b == x.buf
    <3>1. g \in Seq(Nat) /\ b \in Seq(Nat) /\ Line(x) = g \o b /\ Line(y) = g \o Append(b, l)
      BY <2>1, <2>7, LineType DEF Line
    <3> HIDE DEF g, b
    <3>2. g \o Append(b, l) = Append(g \o b, l)
      BY <2>3, <3>1, AppendLast
    <3>3. Line(y) = Append(Line(x), l) /\ Live(x)
      BY <2>7, <3>1, <3>2 DEF Live
    <3> QED
      BY <2>1, <2>2, <3>3, NextStream DEF Ages
  <2> QED
    BY <2>1, <2>5, <2>6, <2>7
<1>1. Appends(o, n, kind) /\ active' \subseteq active /\ unanswered' = unanswered
  BY StoreJournal DEF Store
<1>2. /\ ~Ended(o) /\ n = Count(o) + 1 /\ Count(o)' = n /\ (Ended(o)' <=> kind \in LastKinds)
      /\ \A p : p # o => Count(p)' = Count(p) /\ (Ended(p)' <=> Ended(p))
  BY <1>1, AppendJournal DEF BaseInv
<1>3. \A p : Count(p) \in Nat /\ Count(p) <= Count(p)
  <2>1. \A k \in Nat : k <= k
    BY SMT
  <2> QED
    BY <2>1, Counts DEF BaseInv
<1>4. \A p : Remains(p)
  BY <1>2 DEF Remains, Store
<1>5. StreamOK(req'[r], n, o, unanswered) /\ Ages(req[r], req'[r])
  BY <1>2, <1>3
<1>6. ASSUME NEW q \in Requests, q # r
      PROVE  /\ StreamOK(req'[q], Count(OpOf[q])', OpOf[q], unanswered')
             /\ Ages(req[q], req'[q])
  <2>1. /\ req[q] \in Request /\ Own(req[q])
        /\ StreamOK(req[q], Count(OpOf[q]), OpOf[q], unanswered)
    BY OfRequest DEF FlowInv, StreamInv
  <2>2. CASE OpOf[q] # o
    <3>1. req'[q] = req[q] /\ Settled(OpOf[q])
      BY <1>1, <1>2, <1>3, <1>6, <2>2 DEF Echo, Settled
    <3>2. Quiet(req[q], req'[q]) /\ Ages(req[q], req'[q])
      BY <3>1 DEF Quiet, Ages
    <3> QED
      BY <3>1, <3>2, StreamQuiet DEF BaseInv, FlowInv
  <2>3. CASE OpOf[q] = o /\ req[q].sub = "open"
    <3> DEFINE x == req[q]
               y == req'[q]
               m == Count(o)
    <3>1. /\ Hears(x, y, n) /\ x \in Request /\ Own(x) /\ x.sub = "open" /\ m \in Nat /\ n = m + 1
          /\ StreamOK(x, m, o, unanswered)
      BY <1>2, <1>3, <1>6, <2>1, <2>3 DEF Echo
    <3> HIDE DEF x, y, m
    <3>2. StreamOK(y, n, o, unanswered) /\ Ages(x, y)
      BY <3>1, <1>hear
    <3> QED
      BY <1>1, <1>2, <2>3, <3>2 DEF x, y
  <2>4. CASE OpOf[q] = o /\ req[q].sub # "open"
    <3> DEFINE x == req[q]
               m == Count(o)
    <3>1. /\ req'[q] = x /\ x \in Request /\ ~Live(x) /\ m \in Nat /\ n = m + 1
          /\ StreamOK(x, m, o, unanswered)
      BY <1>2, <1>3, <1>6, <2>1, <2>4 DEF Echo, Sole
    <3>2. Quiet(x, x) /\ Ages(x, x)
      BY DEF Quiet, Ages
    <3> HIDE DEF x, m
    <3>3. n \in Nat /\ m <= n
      BY <3>1, SMT
    <3>4. StreamOK(x, n, o, unanswered)
      BY <3>1, <3>2, <3>3, QuietStream
    <3> QED
      BY <1>1, <1>2, <2>4, <3>1, <3>2, <3>4 DEF x
  <2> QED
    BY <2>2, <2>3, <2>4
<1>7. ASSUME NEW q \in Requests
      PROVE  /\ StreamOK(req'[q], Count(OpOf[q])', OpOf[q], unanswered')
             /\ Ages(req[q], req'[q])
  BY <1>1, <1>2, <1>5, <1>6
<1>8. ASSUME NEW q \in Requests
      PROVE  Active(req[q], OpOf[q])'
  BY <1>4, <1>7, ActiveAges DEF FlowInv
<1> QED
  BY <1>7, <1>8 DEF FlowInv, StreamInv, ActiveInv

\* A step of one request that leaves the lines alone.
LEMMA FlowAlone ==
    ASSUME BaseInv, BaseInv', FlowInv, Steady, NEW r \in Requests, Only(r),
           SameLine(req[r], req'[r]), Held(req'[r]) => Held(req[r]),
           req'[r].gone = req[r].gone \/ req'[r].gone,
           req'[r].pc = "interrupted" => req[r].pc = "interrupted"
    PROVE  FlowInv'
<1>stay. ASSUME NEW p \in Requests, Only(p), SameLine(req[p], req'[p]), Held(req'[p]) => Held(req[p]),
                req'[p].gone = req[p].gone \/ req'[p].gone,
                req'[p].pc = "interrupted" => req[p].pc = "interrupted"
         PROVE  AllStay
  <2> USE <1>stay
  <2>1. Stays(req[p], req'[p])
    BY LineStays
  <2>2. ASSUME NEW q \in Requests, q # p
        PROVE  Stays(req[q], req'[q])
    <3>1. req'[q] = req[q]
      BY <2>2 DEF Only
    <3> QED
      BY <3>1 DEF Stays, Ages, Quiet
  <2> QED
    BY <2>1, <2>2 DEF AllStay
<1> QED
  BY <1>stay, FlowQuiet

------------------------------------------------------------------------------
(* The steps: what each does to the requests, and why the invariants stay.  *)

\* Route and Returns: the handler goes on by itself.
LEMMA HandlerStep ==
    ASSUME BaseInv, FlowInv, NEW r \in Requests, Route(r) \/ Returns(r)
    PROVE  BaseInv' /\ FlowInv'
<1>1. ReqOK
  BY DEF BaseInv
<1> USE <1>1
<1>2. ASSUME Route(r)
      PROVE  /\ ReqOK' /\ Only(r) /\ Goes(req[r], req'[r]) /\ req'[r].work = req[r].work
             /\ req[r].pc = "idle" /\ req'[r].pc \in {"routed", "done"}
  <2> USE <1>2
  <2>1. CASE req' = [req EXCEPT ![r].pc = "routed"]
    BY <2>1, MoveEffect DEF Route, Pcs
  <2>2. CASE req' = [req EXCEPT ![r].pc = "done"]
    BY <2>2, MoveEffect DEF Route, Pcs
  <2> QED
    BY <2>1, <2>2 DEF Route
<1>3. ASSUME Returns(r)
      PROVE  /\ ReqOK' /\ Only(r) /\ Goes(req[r], req'[r]) /\ req'[r].work = req[r].work
             /\ req[r].pc = "waiting" /\ req'[r].pc \in {"failing", "done"}
  <2> USE <1>3
  <2>1. req[r] \in Request /\ req[r].seq \in Nat
    BY Fields DEF ReqOK
  <2>2. \A k \in Nat : k + 1 \in Nat
    BY SMT
  <2>3. CASE req' = [req EXCEPT ![r].pc = "done", ![r].cancelled = TRUE]
    <3> DEFINE y == [req[r] EXCEPT !.pc = "done", !.cancelled = TRUE]
    <3>1. Goes(req[r], y) /\ y.pc = "done" /\ y.work = req[r].work
      BY <2>1 DEF Goes, SameLine, Request, Pcs
    <3> HIDE DEF y
    <3>2. y \in Request /\ req' = [req EXCEPT ![r] = y]
      BY <2>3, <3>1 DEF y, Goes
    <3> QED
      BY <3>1, <3>2, Put DEF Returns
  <2>4. ASSUME NEW n \in Nat, req' = [req EXCEPT ![r].pc = "failing", ![r].cancelled = TRUE,
                                                 ![r].n = n, ![r].seq = n]
        PROVE  /\ ReqOK' /\ Only(r) /\ Goes(req[r], req'[r]) /\ req'[r].work = req[r].work
               /\ req[r].pc = "waiting" /\ req'[r].pc \in {"failing", "done"}
    <3> DEFINE y == [req[r] EXCEPT !.pc = "failing", !.cancelled = TRUE, !.n = n, !.seq = n]
    <3>1. Goes(req[r], y) /\ y.pc = "failing" /\ y.work = req[r].work
      BY <2>1 DEF Goes, SameLine, Request, Pcs
    <3> HIDE DEF y
    <3>2. y \in Request /\ req' = [req EXCEPT ![r] = y]
      BY <2>4, <3>1 DEF y, Goes
    <3> QED
      BY <3>1, <3>2, Put DEF Returns
  <2> QED
    BY <2>1, <2>2, <2>3, <2>4 DEF Returns
<1>4. ASSUME Route(r)
      PROVE  BaseInv' /\ AllGoOn
  <2> USE <1>4
  <2>1. /\ ReqOK' /\ Only(r) /\ Goes(req[r], req'[r]) /\ req'[r].work = req[r].work
        /\ req[r].pc = "idle" /\ req'[r].pc \in {"routed", "done"}
    BY <1>2 DEF BaseInv
  <2>2. Onward(req[r].pc, req'[r].pc)
    BY <2>1 DEF Onward, Fresh, Resuming, Submits, Reads
  <2>3. /\ entries' = entries /\ current' = current /\ started' = started
        /\ journal' = journal /\ active' = active
    BY DEF Route, queueVars, storeVars, serverOps
  <2> QED
    BY <2>1, <2>2, <2>3, HandlerKeeps, SameJournal
<1>5. ASSUME Returns(r)
      PROVE  BaseInv' /\ AllGoOn
  <2> USE <1>5
  <2>1. /\ ReqOK' /\ Only(r) /\ Goes(req[r], req'[r]) /\ req'[r].work = req[r].work
        /\ req[r].pc = "waiting" /\ req'[r].pc \in {"failing", "done"}
    BY <1>3 DEF BaseInv
  <2>2. Onward(req[r].pc, req'[r].pc)
    BY <2>1 DEF Onward, Fresh, Resuming, Submits, Reads
  <2>3. /\ entries' = entries /\ current' = current /\ started' = started
        /\ journal' = journal /\ active' = active
    BY DEF Returns, queueVars, storeVars, serverOps
  <2> QED
    BY <2>1, <2>2, <2>3, HandlerKeeps, SameJournal
<1>6. BaseInv' /\ AllGoOn
  BY <1>4, <1>5
<1>7. FlowInv'
  <2> USE <1>6
  <2>1. /\ Only(r) /\ Goes(req[r], req'[r]) /\ req'[r].pc # "interrupted"
    BY <1>2, <1>3 DEF BaseInv
  <2>2. journal' = journal /\ active' = active /\ unanswered' = unanswered
    BY DEF Route, Returns, storeVars
  <2>3. Steady
    BY <2>2, StillStore DEF BaseInv
  <2>4. Held(req'[r]) => Held(req[r])
    BY DEF AllGoOn, Forward
  <2> QED
    BY <2>1, <2>3, <2>4, FlowAlone DEF Goes
<1> QED
  BY <1>6, <1>7

\* The client goes; the handler and the job learn of it.
LEMMA DisconnectStep ==
    ASSUME BaseInv, FlowInv, NEW r \in Requests, Disconnect(r)
    PROVE  BaseInv' /\ FlowInv'
<1>1. ReqOK
  BY DEF BaseInv
<1> USE <1>1
<1>2. /\ ReqOK' /\ Only(r) /\ SameLine(req[r], req'[r]) /\ req'[r].pc = req[r].pc
      /\ req'[r].entry = req[r].entry /\ req'[r].work = req[r].work
      /\ req'[r].gone /\ req'[r].cancelled
  <2> DEFINE y == [req[r] EXCEPT !.gone = TRUE, !.cancelled = TRUE]
  <2>1. /\ y \in Request /\ SameLine(req[r], y) /\ y.pc = req[r].pc
        /\ y.entry = req[r].entry /\ y.work = req[r].work /\ y.gone /\ y.cancelled
    BY Leaves DEF ReqOK
  <2> HIDE DEF y
  <2>2. req' = [req EXCEPT ![r] = y]
    BY DEF Disconnect, y
  <2> QED
    BY <2>1, <2>2, Put
<1>3. BaseInv' /\ AllGoOn
  <2>1. /\ ReqOK' /\ Only(r) /\ SameLine(req[r], req'[r]) /\ req'[r].pc = req[r].pc
        /\ req'[r].entry = req[r].entry /\ req'[r].work = req[r].work
        /\ req'[r].gone /\ req'[r].cancelled
    BY <1>2 DEF BaseInv
  <2>2. Own(req'[r]) /\ Forward(req[r], req'[r]) /\ Calm(req[r], req'[r])
    BY <2>1, OfRequest DEF Own, Forward, Calm, SameLine, Held
  <2>3. /\ entries' = entries /\ current' = current /\ started' = started
        /\ journal' = journal /\ active' = active
    BY DEF Disconnect, queueVars, storeVars, serverOps
  <2> QED
    BY <2>1, <2>2, <2>3, Alone, CarryCalm, SameJournal DEF BaseInv
<1>4. FlowInv'
  <2> USE <1>3
  <2>1. /\ Only(r) /\ SameLine(req[r], req'[r]) /\ req'[r].gone /\ req'[r].pc = req[r].pc
    BY <1>2 DEF BaseInv
  <2>2. journal' = journal /\ active' = active /\ unanswered' = unanswered
    BY DEF Disconnect, storeVars
  <2>3. Steady
    BY <2>2, StillStore DEF BaseInv
  <2>4. Held(req'[r]) => Held(req[r])
    BY DEF AllGoOn, Forward
  <2> QED
    BY <2>1, <2>3, <2>4, FlowAlone
<1> QED
  BY <1>3, <1>4

\* A call of the handler fails; what it was to store may be stored all the same.
LEMMA GiveUpStep ==
    ASSUME BaseInv, FlowInv, NEW r \in Requests,
           AcceptedFails(r) \/ BeginFails(r) \/ FailureLost(r) \/ InterruptFails(r)
    PROVE  BaseInv' /\ FlowInv'
<1>1. ReqOK
  BY DEF BaseInv
<1> USE <1>1
<1>2. ASSUME BeginFails(r) \/ FailureLost(r) \/ InterruptFails(r)
      PROVE  /\ ReqOK' /\ Only(r) /\ Goes(req[r], req'[r]) /\ req'[r].work = req[r].work
             /\ req'[r].pc = "done" /\ req[r].pc \in {"routed", "failing", "interrupted"}
  <2> USE <1>2
  <2>1. req' = [req EXCEPT ![r].pc = "done"]
    BY DEF BeginFails, FailureLost, InterruptFails
  <2> QED
    BY <2>1, MoveEffect DEF Pcs, BeginFails, FailureLost, InterruptFails
<1>3. ASSUME AcceptedFails(r)
      PROVE  /\ ReqOK' /\ Only(r) /\ Goes(req[r], req'[r]) /\ req'[r].work = req[r].work
             /\ req'[r].pc = "done" /\ req[r].pc = "admitting"
  <2> USE <1>3
  <2> DEFINE y == [req[r] EXCEPT !.seq = 1, !.admitted = TRUE, !.cancelled = TRUE, !.pc = "done"]
  <2>1. req[r] \in Request /\ 1 \in Nat
    BY DEF ReqOK
  <2>2. Goes(req[r], y) /\ y.pc = "done" /\ y.work = req[r].work
    BY <2>1 DEF Goes, SameLine, Request, Pcs
  <2> HIDE DEF y
  <2>3. y \in Request /\ req' = [req EXCEPT ![r] = y]
    BY <2>2 DEF AcceptedFails, Goes, y
  <2> QED
    BY <2>2, <2>3, Put DEF AcceptedFails
<1>4. ASSUME AcceptedFails(r)
      PROVE  BaseInv' /\ AllGoOn
  <2> USE <1>4
  <2>1. /\ ReqOK' /\ Only(r) /\ Goes(req[r], req'[r]) /\ req'[r].work = req[r].work
        /\ req'[r].pc = "done" /\ req[r].pc = "admitting"
    BY <1>3 DEF BaseInv
  <2>2. Onward(req[r].pc, req'[r].pc)
    BY <2>1 DEF Onward, Fresh, Resuming, Submits, Reads
  <2>3. entries' = entries /\ current' = current /\ started' = started
    BY DEF AcceptedFails, queueVars, serverOps
  <2>4. JournalInv' /\ DOMAIN journal \subseteq DOMAIN journal'
    <3>1. Begun(OpOf[r]) /\ "accepted" \in Kinds /\ StoreFails(OpOf[r], 1, "accepted")
      BY <2>1, OfRequest DEF Submits, Kinds, AcceptedFails
    <3> QED
      BY <3>1, StoreFailsJournal
  <2> QED
    BY <2>1, <2>2, <2>3, <2>4, HandlerKeeps
<1>5. ASSUME BeginFails(r) \/ FailureLost(r) \/ InterruptFails(r)
      PROVE  BaseInv' /\ AllGoOn
  <2> USE <1>5
  <2>1. /\ ReqOK' /\ Only(r) /\ Goes(req[r], req'[r]) /\ req'[r].work = req[r].work
        /\ req'[r].pc = "done"
    BY <1>2 DEF BaseInv
  <2>2. Onward(req[r].pc, req'[r].pc)
    BY <2>1 DEF Onward, Fresh, Resuming, Submits, Reads
  <2>3. entries' = entries /\ current' = current /\ started' = started
    BY DEF BeginFails, FailureLost, InterruptFails, queueVars, serverOps
  <2>4. JournalInv' /\ DOMAIN journal \subseteq DOMAIN journal'
    <3>1. CASE BeginFails(r)
      <4>1. active' = active /\ (journal' = journal \/ Creates(OpOf[r]))
        BY <3>1, OfRequest DEF BeginFails, Creates
      <4>2. CASE journal' = journal
        BY <4>1, <4>2, SameJournal
      <4>3. CASE Creates(OpOf[r])
        BY <4>1, <4>3, CreateJournal DEF BaseInv
      <4> QED
        BY <4>1, <4>2, <4>3
    <3>2. CASE FailureLost(r) \/ InterruptFails(r)
      <4>1. Begun(OpOf[r]) /\ "failed" \in Kinds /\ StoreFails(OpOf[r], req[r].n, "failed")
        BY <3>2, OfRequest DEF Submits, Reads, Kinds, FailureLost, InterruptFails
      <4> QED
        BY <4>1, StoreFailsJournal
    <3> QED
      BY <3>1, <3>2
  <2> QED
    BY <2>1, <2>2, <2>3, <2>4, HandlerKeeps
<1>6. BaseInv' /\ AllGoOn
  BY <1>4, <1>5
<1>7. FlowInv'
  <2> USE <1>6
  <2>1. /\ Only(r) /\ Goes(req[r], req'[r]) /\ req'[r].pc # "interrupted"
    BY <1>3, <1>2 DEF BaseInv
  <2>2. Steady
    <3>1. CASE BeginFails(r)
      <4>1. active' = active /\ unanswered' = unanswered /\ (journal' = journal \/ Creates(OpOf[r]))
        BY <3>1, OfRequest DEF BeginFails, Creates
      <4>2. CASE journal' = journal
        BY <4>1, <4>2, StillStore DEF BaseInv
      <4>3. CASE Creates(OpOf[r])
        <5>1. \A p : Count(p)' = Count(p) /\ (Ended(p)' <=> Ended(p))
          BY <4>1, <4>3, CreateJournal DEF BaseInv
        <5> QED
          BY <4>1, <5>1, SameStore DEF BaseInv
      <4> QED
        BY <4>1, <4>2, <4>3
    <3>2. CASE AcceptedFails(r)
      <4>1. Begun(OpOf[r]) /\ "accepted" \in Kinds /\ StoreFails(OpOf[r], 1, "accepted")
        BY <3>2, OfRequest DEF Submits, Kinds, AcceptedFails
      <4> QED
        BY <4>1, LostStore
    <3>3. CASE FailureLost(r) \/ InterruptFails(r)
      <4>1. Begun(OpOf[r]) /\ "failed" \in Kinds /\ StoreFails(OpOf[r], req[r].n, "failed")
        BY <3>3, OfRequest DEF Submits, Reads, Kinds, FailureLost, InterruptFails
      <4> QED
        BY <4>1, LostStore
    <3> QED
      BY <3>1, <3>2, <3>3
  <2>3. Held(req'[r]) => Held(req[r])
    BY DEF AllGoOn, Forward
  <2> QED
    BY <2>1, <2>2, <2>3, FlowAlone DEF Goes
<1> QED
  BY <1>6, <1>7

\* Begin creates the journal, or finds it.
LEMMA BeginStep ==
    ASSUME BaseInv, FlowInv, NEW r \in Requests, Begin(r)
    PROVE  BaseInv' /\ FlowInv'
<1>1. ReqOK
  BY DEF BaseInv
<1> USE <1>1
<1>2. /\ ReqOK' /\ Only(r) /\ Goes(req[r], req'[r]) /\ req'[r].work = req[r].work
      /\ req[r].pc = "routed"
      /\ Begun(OpOf[r]) => req'[r].pc = "resuming"
      /\ ~Begun(OpOf[r]) => req'[r].pc = "begun"
  <2>1. CASE Begun(OpOf[r]) /\ req' = [req EXCEPT ![r].pc = "resuming"]
    BY <2>1, MoveEffect DEF Begin, Pcs
  <2>2. CASE ~Begun(OpOf[r]) /\ req' = [req EXCEPT ![r].pc = "begun"]
    BY <2>2, MoveEffect DEF Begin, Pcs
  <2> QED
    BY <2>1, <2>2 DEF Begin
<1>3. BaseInv'
  <2> DEFINE o == OpOf[r]
  <2>1. /\ ReqOK' /\ Only(r) /\ Goes(req[r], req'[r]) /\ req'[r].work = req[r].work
        /\ req[r].pc = "routed"
        /\ Begun(o) => req'[r].pc = "resuming"
        /\ ~Begun(o) => req'[r].pc = "begun"
    BY <1>2 DEF BaseInv
  <2>2. req[r].entry = 0 /\ req'[r].entry = 0 /\ Own(req[r]) /\ o \in Ops
    BY <2>1, OfRequest DEF Own, Goes, Fresh
  <2>3. Own(req'[r]) /\ Calm(req[r], req'[r])
    BY <2>1, <2>2 DEF Own, Calm, Goes, SameLine, Fresh, Resuming, Submits
  <2>4. OwnInv' /\ AllCalm
    BY <2>1, <2>3 DEF OwnInv, AllCalm, Calm, Only, BaseInv
  <2>5. entries' = entries /\ current' = current /\ started' = started
    BY DEF Begin, queueVars, serverOps
  <2>6. QueueInv'
    BY <2>4, <2>5, CalmQueue DEF BaseInv, QueueInv, AllCalm
  <2>7. StartInv'
    <3>1. \A q \in Requests : req[q].entry # 0 => req'[q] = req[q]
      BY <2>1, <2>2 DEF Only
    <3>2. ASSUME NEW p \in Ops, started[p] # 0
          PROVE  started[p] = 1 /\ \E q \in Requests :
                    OpOf[q] = p /\ req'[q].entry # 0 /\ req'[q].work # "none"
      <4>1. PICK q \in Requests : OpOf[q] = p /\ req[q].entry # 0 /\ req[q].work # "none"
        BY <3>2 DEF BaseInv, StartInv
      <4> QED
        BY <3>1, <3>2, <4>1 DEF BaseInv, StartInv
    <3>3. started' \in [Ops -> Nat]
      BY <2>5 DEF BaseInv, StartInv
    <3> QED
      BY <2>5, <3>2, <3>3 DEF StartInv
  <2>8. CASE Begun(o)
    <3>1. journal' = journal /\ active' = active
      BY <2>8 DEF Begin
    <3>2. ~Held(req'[r]) /\ Begun(o)'
      BY <2>1, <2>2, <2>8, <3>1 DEF Held, Begun
    <3>3. HoldInv'
      BY <2>1, <3>1, <3>2 DEF BaseInv, HoldInv, Only, Begun
    <3> QED
      BY <2>1, <2>4, <2>6, <2>7, <3>1, <3>3, SameJournal DEF BaseInv
  <2>9. CASE ~Begun(o)
    <3>1. Creates(o) /\ active' = active \cup {o}
      BY <2>2, <2>9 DEF Begin, Creates
    <3>2. JournalInv' /\ DOMAIN journal' = DOMAIN journal \cup {o}
      BY <3>1, CreateJournal DEF BaseInv
    <3>3. \A q \in Requests : q # r /\ Held(req'[q]) => OpOf[q] # o
      BY <2>1, <2>9 DEF BaseInv, HoldInv, Only
    <3>4. \A q \in Requests : Held(req'[q]) \/ req'[q].pc \in Reads => Begun(OpOf[q])'
      BY <2>1, <3>2 DEF BaseInv, HoldInv, Only, Begun
    <3>5. ASSUME NEW p \in Requests, NEW q \in Requests,
                 Held(req'[p]), Held(req'[q]), OpOf[p] = OpOf[q]
          PROVE  p = q
      <4>1. CASE p # r /\ q # r
        BY <2>1, <3>5, <4>1 DEF BaseInv, HoldInv, Only
      <4>2. CASE p = r \/ q = r
        BY <3>3, <3>5, <4>2
      <4> QED
        BY <4>1, <4>2
    <3>6. HoldInv'
      BY <3>4, <3>5 DEF HoldInv
    <3> QED
      BY <2>1, <2>4, <2>6, <2>7, <3>2, <3>6 DEF BaseInv
  <2> QED
    BY <2>8, <2>9
<1>4. FlowInv'
  <2> USE <1>3
  <2> DEFINE o == OpOf[r]
  <2>1. /\ Only(r) /\ Goes(req[r], req'[r]) /\ req[r].pc = "routed"
        /\ Begun(o) => req'[r].pc = "resuming"
        /\ ~Begun(o) => req'[r].pc = "begun"
    BY <1>2 DEF BaseInv
  <2>2. unanswered' = unanswered /\ req[r].entry = 0 /\ o \in Ops
    BY <2>1, OfRequest DEF Begin, Own, Fresh
  <2>3. CASE Begun(o)
    <3>1. journal' = journal /\ active' = active
      BY <2>3 DEF Begin
    <3>2. Steady
      BY <2>2, <3>1, StillStore DEF BaseInv
    <3>3. ~Held(req'[r]) /\ req'[r].pc # "interrupted"
      BY <2>1, <2>2, <2>3 DEF Held, Goes
    <3> QED
      BY <2>1, <3>2, <3>3, FlowAlone DEF Goes
  <2>4. CASE ~Begun(o)
    <3>1. Creates(o) /\ active' = active \cup {o}
      BY <2>2, <2>4 DEF Begin, Creates
    <3>2. \A p : Count(p)' = Count(p) /\ (Ended(p)' <=> Ended(p))
      BY <3>1, CreateJournal DEF BaseInv
    <3>3. \A p : Settled(p)
      <4>1. \A k \in Nat : k <= k
        BY SMT
      <4>2. \A p : Count(p) \in Nat
        BY Counts DEF BaseInv
      <4> QED
        BY <2>2, <3>2, <4>1, <4>2 DEF Settled
    <3>4. Count(o)' = 0
      BY <2>4, <3>2 DEF Count
    <3>5. StreamOK(req'[r], Count(o)', o, unanswered')
      <4> DEFINE y == req'[r]
      <4>1. y \in Request /\ y.cursor = 0 /\ y.got = <<>> /\ y.buf = <<>>
        BY <2>1, OfRequest DEF Own, Fresh, Goes, SameLine
      <4> HIDE DEF y
      <4>2. Line(y) = <<>>
        BY <4>1, LineType
      <4>3. 0 <= 0 /\ 1..Len(<<>>) = {}
        BY SMT
      <4>4. Ordered(0, <<>>, 0, o, unanswered') /\ End(0, <<>>) = 0
        BY <4>3 DEF Ordered, End
      <4>5. StreamOK(y, 0, o, unanswered')
        BY <4>1, <4>2, <4>3, <4>4 DEF StreamOK
      <4> QED
        BY <3>4, <4>5 DEF y
    <3>6. ASSUME NEW q \in Requests, q # r
          PROVE  StreamOK(req'[q], Count(OpOf[q])', OpOf[q], unanswered')
      <4>1. Quiet(req[q], req'[q])
        BY <2>1, <3>6 DEF Only, Quiet
      <4> QED
        BY <3>3, <4>1, StreamQuiet DEF BaseInv, FlowInv
    <3>7. ASSUME NEW q \in Requests
          PROVE  Active(req[q], OpOf[q])'
      <4>1. CASE q = r
        BY <2>1, <2>4, <3>1, <4>1 DEF Active
      <4>2. CASE q # r
        <5>1. req'[q] = req[q] /\ Active(req[q], OpOf[q]) /\ (Ended(OpOf[q])' <=> Ended(OpOf[q]))
          BY <2>1, <3>2, <4>2 DEF Only, FlowInv, ActiveInv
        <5>2. req[q].pc = "interrupted" => OpOf[q] # o
          BY <2>4, OfRequest DEF Reads
        <5> QED
          BY <3>1, <5>1, <5>2 DEF Active
      <4> QED
        BY <4>1, <4>2
    <3> QED
      BY <3>5, <3>6, <3>7 DEF FlowInv, StreamInv, ActiveInv
  <2> QED
    BY <2>3, <2>4
<1> QED
  BY <1>3, <1>4

\* The changes of the current entry that keep it drained.
Drains == \/ entries' = entries /\ current' = current
          \/ current' = 0
          \/ entries'[current'].state # "draining"
          \/ /\ current' = current /\ entries'[current].state = entries[current].state
             /\ entries[current].pending = 0 => entries'[current].pending = 0

\* Admit puts the job in the channel of the current entry, or of a new one.
LEMMA AdmitStep ==
    ASSUME BaseInv, FlowInv, NEW r \in Requests, Admit(r)
    PROVE  BaseInv' /\ FlowInv' /\ Drains
<1>queue. ASSUME NEW es, NEW fs, NEW c \in 1..Len(es), NEW R, NEW S, NEW t \in Requests,
                 Queue(es, c, R), Differs(es, fs, c), Apart(R, S, t), Joins(es[c], fs[c], t),
                 R[t].entry = 0, S[t].entry = c, S[t].work = "none"
          PROVE  Queue(fs, c, S)
  <2> USE <1>queue
  <2>join. ASSUME NEW x \in Entry, NEW y, NEW d, NEW P, NEW Q, NEW p \in Requests, d # 0,
                  EntryOK(x, d, P, d), Joins(x, y, p), Apart(P, Q, p),
                  P[p].entry = 0, Q[p].entry = d, Q[p].work = "none"
           PROVE  /\ EntryOK(y, d, Q, d) /\ Holds(y, p)
                  /\ \A q \in Requests : /\ Holds(x, q) => Holds(y, q)
                                         /\ WorksOn(x, q) => WorksOn(y, q)
    <3> USE <2>join
    <3> DEFINE js == x.jobs
               ks == Append(js, p)
               n == Len(js)
    <3>1. /\ js \in Seq(Requests) /\ n \in Nat /\ Len(x.job) \in Nat /\ QueueSize \in Nat
          /\ x.job # <<>> => x.job[1] \in Requests
      BY EntryFields, SessionAssumption
    <3>2. /\ Len(ks) = n + 1 /\ ks[n + 1] = p /\ n + 1 \in 1..(n + 1)
          /\ \A i \in 1..n : ks[i] = js[i] /\ js[i] \in Requests /\ i \in 1..(n + 1)
          /\ \A i \in 1..(n + 1) : i = n + 1 \/ i \in 1..n
      BY <3>1, SMT
    <3>3. x.jobs = js /\ y.jobs = ks /\ Len(js) = n /\ Len(y.jobs) = n + 1 /\ y.job = x.job
      BY <3>2 DEF Joins
    <3> HIDE DEF js, ks, n
    <3>4. \A i \in 1..n : Waits(x, P, d, i) /\ js[i] # p
      <4>1. \A i \in 1..n : Waits(x, P, d, i)
        BY <3>3 DEF EntryOK, AllWait
      <4> QED
        BY <3>3, <4>1 DEF Waits
    <3>5. x.job # <<>> => x.job[1] # p
      BY DEF EntryOK, Serves
    <3>6. Counted(y)
      <4>1. x.pending = n + Len(x.job) /\ n < QueueSize /\ y.pending = x.pending + 1
        BY <3>3 DEF EntryOK, Counted, Joins
      <4>2. n + 1 <= QueueSize
        BY <3>1, <4>1, SMT
      <4>3. y.pending = (n + 1) + Len(x.job)
        <5> DEFINE k == Len(x.job)
        <5>1. k \in Nat
          BY <3>1
        <5> HIDE DEF k
        <5>2. (n + k) + 1 = (n + 1) + k
          BY <3>1, <5>1, SMT
        <5> QED
          BY <4>1, <5>2 DEF k
      <4> QED
        BY <3>3, <4>2, <4>3 DEF EntryOK, Counted
    <3>7. Distinct(y.jobs)
      <4>1. \A i, j \in 1..n : js[i] = js[j] => i = j
        BY <3>3 DEF EntryOK, Distinct
      <4>2. \A i, j \in 1..(n + 1) : ks[i] = ks[j] => i = j
        BY <3>2, <3>4, <4>1, SMT
      <4> QED
        BY <3>3, <4>2 DEF Distinct
    <3>8. AllWait(y, Q, d)
      <4>1. ASSUME NEW i \in 1..(n + 1)
            PROVE  Waits(y, Q, d, i)
        <5>1. CASE i = n + 1
          BY <3>2, <3>3, <3>5, <5>1 DEF Waits
        <5>2. CASE i \in 1..n
          <6>1. Q[js[i]] = P[js[i]] /\ y.jobs[i] = js[i] /\ Waits(x, P, d, i)
            BY <3>2, <3>3, <3>4, <5>2 DEF Apart
          <6> QED
            BY <3>3, <6>1 DEF Waits
        <5> QED
          BY <3>2, <5>1, <5>2
      <4> QED
        BY <3>3, <4>1 DEF AllWait
    <3>9. Serves(y, Q, d)
      BY <3>1, <3>3, <3>5 DEF EntryOK, Serves, Apart
    <3>10. EntryOK(y, d, Q, d)
      BY <3>6, <3>7, <3>8, <3>9 DEF EntryOK
    <3>11. Holds(y, p)
      BY <3>2, <3>3 DEF Holds
    <3>12. ASSUME NEW q \in Requests
           PROVE  (Holds(x, q) => Holds(y, q)) /\ (WorksOn(x, q) => WorksOn(y, q))
      <4>1. WorksOn(x, q) => WorksOn(y, q)
        BY <3>3 DEF WorksOn
      <4>2. ASSUME NEW i \in 1..n, js[i] = q
            PROVE  Holds(y, q)
        BY <3>2, <3>3, <4>2 DEF Holds
      <4> QED
        BY <3>3, <4>1, <4>2 DEF Holds
    <3> QED
      BY <3>10, <3>11, <3>12
  <2>1. es[c] \in Entry /\ c # 0 /\ EntryOK(es[c], c, R, c) /\ Len(fs) = Len(es)
    BY Entries DEF Differs
  <2>2. /\ EntryOK(fs[c], c, S, c) /\ Holds(fs[c], t)
        /\ \A q \in Requests : /\ Holds(es[c], q) => Holds(fs[c], q)
                               /\ WorksOn(es[c], q) => WorksOn(fs[c], q)
    BY <2>1, <2>join
  <2>3. Queued(fs, c, S, t)
    BY <2>1, <2>2 DEF Queued, Working
  <2> QED
    BY <2>2, <2>3, OneEntry DEF Keeps
<1>1. ReqOK
  BY DEF BaseInv
<1> USE <1>1
<1>2. ASSUME Target \in Nat
      PROVE  /\ ReqOK' /\ Only(r) /\ current' = Target /\ req[r].pc = "begun"
             /\ SameLine(req[r], req'[r]) /\ req'[r].work = req[r].work
             /\ req'[r].gone = req[r].gone /\ req'[r].cancelled = req[r].cancelled
             /\ \/ /\ Offered[Target].state = "open" /\ Len(Offered[Target].jobs) < QueueSize
                   /\ entries' = [Offered EXCEPT ![Target].pending = @ + 1,
                                                 ![Target].jobs = Append(@, r)]
                   /\ req'[r].pc = "admitting" /\ req'[r].entry = Target
                \/ /\ entries' = Offered
                   /\ req'[r].pc = "done" /\ req'[r].entry = req[r].entry
  <2> USE <1>2
  <2>1. req[r] \in Request
    BY DEF ReqOK
  <2>2. CASE req' = [req EXCEPT ![r].pc = "done"] /\ entries' = Offered
    <3>1. /\ ReqOK' /\ Only(r) /\ Goes(req[r], req'[r])
          /\ req'[r].work = req[r].work /\ req'[r].pc = "done"
      BY <2>2, MoveEffect DEF Pcs
    <3>2. req'[r].cancelled = req[r].cancelled
      BY <2>1, <2>2 DEF ReqOK, Request
    <3>3. current' = Target /\ req[r].pc = "begun"
      BY DEF Admit, Target, Offered
    <3> QED
      BY <2>2, <3>1, <3>2, <3>3 DEF Goes
  <2>3. CASE /\ req' = [req EXCEPT ![r].pc = "admitting", ![r].entry = Target]
             /\ Offered[Target].state = "open" /\ Len(Offered[Target].jobs) < QueueSize
             /\ entries' = [Offered EXCEPT ![Target].pending = @ + 1,
                                           ![Target].jobs = Append(@, r)]
    <3> DEFINE y == [req[r] EXCEPT !.pc = "admitting", !.entry = Target]
    <3>1. /\ y \in Request /\ SameLine(req[r], y) /\ y.pc = "admitting" /\ y.entry = Target
          /\ y.work = req[r].work /\ y.gone = req[r].gone /\ y.cancelled = req[r].cancelled
      BY <2>1 DEF Request, SameLine, Pcs
    <3> HIDE DEF y
    <3>2. req' = [req EXCEPT ![r] = y]
      BY <2>3 DEF y
    <3>3. current' = Target /\ req[r].pc = "begun"
      BY DEF Admit, Target, Offered
    <3> QED
      BY <2>3, <3>1, <3>2, <3>3, Put
  <2> QED
    BY <2>2, <2>3 DEF Admit, Offered, Target
<1>3. BaseInv' /\ AllGoOn
  <2> DEFINE es == Offered
             c == Target
             x == es[c]
  <2>1. Queue(es, c, req) /\ c \in 1..Len(es) /\ c \in Nat /\ ReqOK
    BY OfferedQueue DEF BaseInv
  <2>2. /\ ReqOK' /\ Only(r) /\ current' = c /\ req[r].pc = "begun"
        /\ SameLine(req[r], req'[r]) /\ req'[r].work = req[r].work
        /\ req'[r].gone = req[r].gone /\ req'[r].cancelled = req[r].cancelled
        /\ \/ /\ x.state = "open" /\ Len(x.jobs) < QueueSize
              /\ entries' = [es EXCEPT ![c].pending = @ + 1, ![c].jobs = Append(@, r)]
              /\ req'[r].pc = "admitting" /\ req'[r].entry = c
           \/ /\ entries' = es
              /\ req'[r].pc = "done" /\ req'[r].entry = req[r].entry
    BY <2>1, <1>2
  <2>3. Own(req[r]) /\ req[r].entry = 0 /\ req[r].work = "none" /\ Held(req[r])
    BY <2>2, OfRequest DEF Own, Fresh, Held
  <2>4. started' = started /\ journal' = journal /\ active' = active
    BY DEF Admit, storeVars, serverOps
  <2>5. x \in Entry /\ es \in Seq(Entry) /\ c # 0
    BY <2>1, Entries
  <2> HIDE DEF es, c
  <2>6. CASE /\ x.state = "open" /\ Len(x.jobs) < QueueSize
             /\ entries' = [es EXCEPT ![c].pending = @ + 1, ![c].jobs = Append(@, r)]
             /\ req'[r].pc = "admitting" /\ req'[r].entry = c
    <3> DEFINE k == x.pending + 1
               js == Append(x.jobs, r)
               y == [x EXCEPT !.pending = k, !.jobs = js]
    <3>1. entries' = [es EXCEPT ![c] = y]
      BY <2>6
    <3>2. k \in Nat /\ js \in Seq(Requests)
      <4>1. x.pending \in Nat /\ x.jobs \in Seq(Requests)
        BY <2>5, EntryFields
      <4> QED
        BY <4>1, SMT
    <3>3. k = x.pending + 1 /\ js = Append(x.jobs, r)
      OBVIOUS
    <3> HIDE DEF k, js, x
    <3>4. y \in Entry /\ y.state = x.state /\ y.pending = k /\ y.jobs = js /\ y.job = x.job
      BY <2>5, <3>2 DEF Entry
    <3> HIDE DEF y
    <3>5. Joins(x, y, r)
      BY <2>6, <3>3, <3>4 DEF Joins
    <3>6. Differs(es, entries', c) /\ entries'[c] = y
      <4>1. Differs(es, [es EXCEPT ![c] = y], c) /\ [es EXCEPT ![c] = y][c] = y
        BY <2>1, <2>5, <3>4, PutEntry
      <4> QED
        BY <3>1, <4>1
    <3>7. Apart(req, req', r)
      BY <2>2 DEF Apart, Only
    <3>8. Queue(entries', c, req')
      <4>1. Joins(es[c], entries'[c], r)
        BY <3>5, <3>6 DEF x
      <4>2. req[r].entry = 0 /\ req'[r].entry = c /\ req'[r].work = "none"
        BY <2>2, <2>3, <2>6
      <4> QED
        BY <2>1, <3>6, <3>7, <4>1, <4>2, <1>queue
    <3>9. QueueInv'
      BY <2>2, <3>8 DEF QueueInv
    <3>10. Own(req'[r]) /\ Forward(req[r], req'[r])
      BY <2>2, <2>3, <2>5, <2>6 DEF Own, Forward, SameLine, Fresh, Resuming, Submits, Reads
    <3> QED
      BY <2>2, <2>4, <3>9, <3>10, Alone, Carry, SameJournal DEF BaseInv
  <2>7. CASE /\ entries' = es
             /\ req'[r].pc = "done" /\ req'[r].entry = req[r].entry
    <3>1. Own(req'[r]) /\ Forward(req[r], req'[r]) /\ Calm(req[r], req'[r])
      BY <2>2, <2>3, <2>7 DEF Own, Forward, Calm, SameLine, Fresh, Resuming, Submits, Reads, Held
    <3>2. AllGoOn /\ AllCalm
      BY <2>2, <3>1, Alone DEF BaseInv
    <3>3. QueueInv'
      BY <2>1, <2>2, <2>7, <3>2, CalmQueue DEF QueueInv, AllCalm
    <3> QED
      BY <2>2, <2>4, <3>2, <3>3, Carry, SameJournal
  <2> QED
    BY <2>2, <2>6, <2>7
<1>4. FlowInv'
  <2> USE <1>3
  <2>1. Target \in Nat
    BY OfferedQueue DEF BaseInv
  <2>2. /\ Only(r) /\ SameLine(req[r], req'[r]) /\ req'[r].gone = req[r].gone
        /\ req'[r].pc # "interrupted"
    BY <2>1, <1>2 DEF BaseInv
  <2>3. journal' = journal /\ active' = active /\ unanswered' = unanswered
    BY DEF Admit, storeVars
  <2>4. Steady
    BY <2>3, StillStore DEF BaseInv
  <2>5. Held(req'[r]) => Held(req[r])
    BY DEF AllGoOn, Forward
  <2> QED
    BY <2>2, <2>4, <2>5, FlowAlone
<1>5. Drains
  <2> DEFINE es == Offered
             c == Target
             x == es[c]
  <2>1. es \in Seq(Entry) /\ c \in 1..Len(es) /\ c \in Nat /\ x \in Entry
    BY OfferedQueue, Entries DEF BaseInv
  <2>2. /\ current' = c
        /\ \/ /\ x.state = "open"
              /\ entries' = [es EXCEPT ![c].pending = @ + 1, ![c].jobs = Append(@, r)]
           \/ entries' = es
    BY <2>1, <1>2 DEF BaseInv
  <2>3. CASE /\ x.state = "open"
             /\ entries' = [es EXCEPT ![c].pending = @ + 1, ![c].jobs = Append(@, r)]
    <3> DEFINE y == [x EXCEPT !.pending = x.pending + 1, !.jobs = Append(x.jobs, r)]
    <3>1. entries' = [es EXCEPT ![c] = y]
      BY <2>3
    <3> HIDE DEF es, c
    <3>2. y.state = "open"
      <4> HIDE DEF x
      <4> QED
        BY <2>1, <2>3 DEF Entry
    <3> HIDE DEF y
    <3>3. entries'[c] = y
      BY <2>1, <3>1, SMT
    <3> QED
      BY <2>2, <3>2, <3>3 DEF Drains
  <2>4. CASE entries' = es
    <3>1. CASE current = 0
      <4>1. /\ Len(Append(entries, NoEntry)) = Len(entries) + 1
            /\ Append(entries, NoEntry)[Len(entries) + 1] = NoEntry
        BY <3>1, OpenQueue DEF BaseInv, QueueInv
      <4>2. entries'[current'] = NoEntry
        BY <2>2, <2>4, <3>1, <4>1 DEF Offered, Target
      <4>3. NoEntry.state = "open"
        BY DEF NoEntry
      <4>4. entries'[current'].state # "draining"
        BY <4>2, <4>3
      <4> QED
        BY <4>4 DEF Drains
    <3>2. CASE current # 0
      BY <2>2, <2>4, <3>2 DEF Drains, Offered, Target
    <3> QED
      BY <3>1, <3>2
  <2> QED
    BY <2>2, <2>3, <2>4
<1> QED
  BY <1>3, <1>4, <1>5

\* A holder has no other beside it.
LEMMA SoleHolder ==
    ASSUME BaseInv, NEW r \in Requests, Held(req[r])
    PROVE  Sole(r, OpOf[r])
BY DEF BaseInv, HoldInv, Sole, Live

\* Accepted stores the first event and sends it to whoever follows.
LEMMA AcceptedStep ==
    ASSUME BaseInv, FlowInv, NEW r \in Requests, Accepted(r)
    PROVE  BaseInv' /\ FlowInv'
<1>1. ReqOK
  BY DEF BaseInv
<1> USE <1>1
<1>2. ASSUME req[r].sub # "open"
      PROVE  /\ ReqOK' /\ Echo(r, OpOf[r], 1) /\ Sends(req[r], req'[r], 1)
             /\ req'[r].work = req[r].work
             /\ req[r].pc = "admitting" /\ req'[r].pc \in {"waiting", "done"}
  <2> USE <1>2
  <2> DEFINE all == broadcastLocked(OpOf[r], 1, FALSE)
             x == [req[r] EXCEPT !.seq = 1, !.admitted = TRUE]
             z == Send(r, x, 1)
             y == IF x.gone THEN [x EXCEPT !.cancelled = TRUE, !.pc = "done"]
                  ELSE [z EXCEPT !.pc = "waiting"]
  <2>1. req[r] \in Request /\ 1 \in Nat /\ FALSE \in BOOLEAN
    BY DEF ReqOK
  <2>2. all[r] = req[r]
    BY <2>1, Broadcast
  <2>3. req' = [all EXCEPT ![r] = y]
    BY <2>2 DEF Accepted
  <2>4. Goes(req[r], x) /\ x.pc = req[r].pc /\ x.work = req[r].work
    BY <2>1 DEF Goes, SameLine, Request
  <2> HIDE DEF x
  <2>5. Sends(x, z, 1) /\ z.work = x.work
    BY <2>1, <2>4, SendEffect DEF Goes
  <2> HIDE DEF z, all
  <2>6. Sends(req[r], y, 1) /\ y.work = req[r].work /\ y.pc \in {"waiting", "done"}
    <3>1. CASE x.gone
      <4>1. Goes(x, y) /\ y.pc = "done" /\ y.work = x.work
        BY <2>4, <3>1 DEF Goes, SameLine, Request, Pcs
      <4> HIDE DEF y
      <4> QED
        BY <2>4, <3>1, <4>1 DEF Goes, SameLine, Sends
    <3>2. CASE ~x.gone
      <4>1. Goes(z, y) /\ y.pc = "waiting" /\ y.work = z.work
        BY <2>5, <3>2 DEF Goes, SameLine, Request, Pcs, Sends
      <4> HIDE DEF y
      <4> QED
        BY <2>4, <2>5, <4>1 DEF Goes, SameLine, Sends
    <3> QED
      BY <3>1, <3>2
  <2> HIDE DEF y
  <2>7. y \in Request
    BY <2>6 DEF Sends
  <2>8. ReqOK' /\ req'[r] = y /\ Echo(r, OpOf[r], 1)
    BY <2>1, <2>3, <2>7, PutAll DEF all
  <2> QED
    BY <2>6, <2>8 DEF Accepted
<1>3. BaseInv' /\ AllGoOn
  <2>1. /\ req[r].pc = "admitting" /\ req[r].sub # "open" /\ Begun(OpOf[r]) /\ Own(req[r])
        /\ req[r].entry # 0
    BY OfRequest DEF Accepted, Submits, Own
  <2>2. /\ ReqOK' /\ Echo(r, OpOf[r], 1) /\ Sends(req[r], req'[r], 1)
        /\ req'[r].work = req[r].work /\ req'[r].pc \in {"waiting", "done"}
    BY <2>1, <1>2 DEF BaseInv
  <2>3. Own(req'[r]) /\ Forward(req[r], req'[r]) /\ Calm(req[r], req'[r])
    BY <2>1, <2>2, SendsOn DEF Calm, Sends
  <2>4. AllGoOn /\ AllCalm
    BY <2>2, <2>3, Together DEF BaseInv
  <2>5. entries' = entries /\ current' = current /\ started' = started
    BY DEF Accepted, queueVars, serverOps
  <2>6. JournalInv' /\ DOMAIN journal \subseteq DOMAIN journal'
    BY <2>1, StoreJournal DEF Accepted, Kinds
  <2> QED
    BY <2>2, <2>4, <2>5, <2>6, CarryCalm
<1>4. FlowInv'
  <2> USE <1>3
  <2> DEFINE x == req[r]
             y == req'[r]
             o == OpOf[r]
             m == Count(o)
  <2>1. /\ x \in Request /\ x.sub # "open" /\ Begun(o) /\ Own(x) /\ x.entry # 0
    BY OfRequest DEF Accepted, Submits, Own
  <2>2. Echo(r, o, 1) /\ Sends(x, y, 1) /\ y.pc # "interrupted"
    BY <2>1, <1>2 DEF BaseInv
  <2>3. StreamOK(x, m, o, unanswered) /\ Store(o, 1, "accepted") /\ "accepted" \in Kinds
    BY DEF FlowInv, StreamInv, Accepted, Kinds
  <2>4. Sole(r, o)
    BY <2>1, SoleHolder DEF Held
  <2>5. ASSUME m \in Nat, 1 = m + 1
        PROVE  StreamOK(y, 1, o, unanswered) /\ Ages(x, y)
    <3> HIDE DEF x, y, o, m
    <3> QED
      BY <2>1, <2>2, <2>3, <2>5, SendStream
  <2> QED
    BY <2>1, <2>2, <2>3, <2>4, <2>5, FlowStored
<1> QED
  BY <1>3, <1>4

\* The handler stores that its job failed.
LEMMA FailureStoredStep ==
    ASSUME BaseInv, FlowInv, NEW r \in Requests, FailureStored(r)
    PROVE  BaseInv' /\ FlowInv'
<1>1. ReqOK
  BY DEF BaseInv
<1> USE <1>1
<1>2. ASSUME req[r].sub # "open"
      PROVE  /\ ReqOK' /\ Echo(r, OpOf[r], req[r].n) /\ Sends(req[r], req'[r], req[r].n)
             /\ req'[r].work = req[r].work /\ req[r].pc = "failing" /\ req'[r].pc = "done"
  <2> USE <1>2
  <2> DEFINE x == req[r]
             n == x.n
             all == broadcastLocked(OpOf[r], n, TRUE)
             z == Send(r, x, n)
             y == [z EXCEPT !.pc = "done"]
  <2>1. x \in Request /\ n \in Nat /\ TRUE \in BOOLEAN
    BY Fields DEF ReqOK
  <2>2. all[r] = req[r]
    BY <2>1, Broadcast
  <2>3. req' = [all EXCEPT ![r] = y]
    BY <2>2 DEF FailureStored
  <2> HIDE DEF x, n
  <2>4. Sends(x, z, n) /\ z.work = x.work
    BY <2>1, SendEffect, SMT
  <2> HIDE DEF z, all
  <2>5. Goes(z, y) /\ y.pc = "done" /\ y.work = z.work
    BY <2>4 DEF Goes, SameLine, Request, Pcs, Sends
  <2> HIDE DEF y
  <2>6. Sends(x, y, n) /\ y.work = x.work /\ y \in Request
    BY <2>4, <2>5 DEF Goes, SameLine, Sends
  <2>7. ReqOK' /\ req'[r] = y /\ Echo(r, OpOf[r], n)
    BY <2>1, <2>3, <2>6, PutAll DEF all
  <2> QED
    BY <2>5, <2>6, <2>7 DEF FailureStored, n, x
<1>3. BaseInv' /\ AllGoOn
  <2>1. /\ req[r].pc = "failing" /\ req[r].sub # "open" /\ Begun(OpOf[r]) /\ Own(req[r])
        /\ req[r].entry # 0
    BY OfRequest DEF FailureStored, Submits, Own
  <2>2. /\ ReqOK' /\ Echo(r, OpOf[r], req[r].n) /\ Sends(req[r], req'[r], req[r].n)
        /\ req'[r].work = req[r].work /\ req'[r].pc = "done"
    BY <2>1, <1>2 DEF BaseInv
  <2>3. Own(req'[r]) /\ Forward(req[r], req'[r]) /\ Calm(req[r], req'[r])
    BY <2>1, <2>2, SendsOn DEF Calm, Sends
  <2>4. AllGoOn /\ AllCalm
    BY <2>2, <2>3, Together DEF BaseInv
  <2>5. entries' = entries /\ current' = current /\ started' = started
    BY DEF FailureStored, queueVars, serverOps
  <2>6. JournalInv' /\ DOMAIN journal \subseteq DOMAIN journal'
    BY <2>1, StoreJournal DEF FailureStored, Kinds
  <2> QED
    BY <2>2, <2>4, <2>5, <2>6, CarryCalm
<1>4. FlowInv'
  <2> USE <1>3
  <2> DEFINE x == req[r]
             y == req'[r]
             o == OpOf[r]
             m == Count(o)
             n == x.n
  <2>1. /\ x \in Request /\ x.sub # "open" /\ Begun(o) /\ Own(x) /\ x.entry # 0
    BY OfRequest DEF FailureStored, Submits, Own
  <2>2. Echo(r, o, n) /\ Sends(x, y, n) /\ y.pc # "interrupted"
    BY <2>1, <1>2 DEF BaseInv
  <2>3. StreamOK(x, m, o, unanswered) /\ Store(o, n, "failed") /\ "failed" \in Kinds
    BY DEF FlowInv, StreamInv, FailureStored, Kinds
  <2>4. Sole(r, o)
    BY <2>1, SoleHolder DEF Held
  <2>5. ASSUME m \in Nat, n = m + 1
        PROVE  StreamOK(y, n, o, unanswered) /\ Ages(x, y)
    <3> HIDE DEF x, y, o, m, n
    <3> QED
      BY <2>1, <2>2, <2>3, <2>5, SendStream
  <2> HIDE DEF n
  <2> QED
    BY <2>1, <2>2, <2>3, <2>4, <2>5, FlowStored
<1> QED
  BY <1>3, <1>4

\* An event of the job is stored and sent to whoever follows.
LEMMA EventStoredStep ==
    ASSUME BaseInv, FlowInv, NEW e \in 1..Len(entries), EventStored(e)
    PROVE  BaseInv' /\ FlowInv'
<1>finish. ASSUME NEW es, NEW fs, NEW c, NEW R, NEW S, NEW f \in 1..Len(es), NEW r \in Requests,
                  Queue(es, c, R), Differs(es, fs, f), Finishes(es[f], fs[f]), WorksOn(es[f], r),
                  \A q \in Requests : q # r => Calm(R[q], S[q]), S[r].work = "ended"
           PROVE  Queue(fs, c, S)
  <2> USE <1>finish
  <2> DEFINE T == [q \in Requests |-> IF q = r THEN R[r] ELSE S[q]]
  <2>1. T[r] = R[r] /\ \A q \in Requests : q # r => T[q] = S[q]
    OBVIOUS
  <2> HIDE DEF T
  <2>2. \A q \in Requests : Calm(R[q], T[q])
    BY <2>1 DEF Calm
  <2>3. Queue(es, c, T)
    BY <2>2, CalmQueue
  <2>4. Apart(T, S, r)
    BY <2>1 DEF Apart
  <2> QED
    BY <2>3, <2>4, FinishQueue
<1>1. ReqOK
  BY DEF BaseInv
<1> USE <1>1
<1>2. ASSUME NEW r \in Requests, r = entries[e].job[1], req[r].sub # "open"
      PROVE  /\ ReqOK' /\ Echo(r, OpOf[r], req[r].wn) /\ Sends(req[r], req'[r], req[r].wn)
             /\ req'[r].pc = req[r].pc /\ entries[e].job # <<>> /\ req[r].work = "storing"
             /\ \/ req'[r].work = "ended" /\ entries' = Complete(e)
                \/ req'[r].work = "running" /\ entries' = entries
  <2> USE <1>2
  <2> DEFINE x == req[r]
             n == x.wn
             last == x.wkind = "completed"
             all == broadcastLocked(OpOf[r], n, last)
             z == Send(r, x, n)
             d == [x EXCEPT !.work = "ended", !.result = "err"]
             y == [z EXCEPT !.work = "running"]
  <2>1. x \in Request /\ n \in Nat /\ last \in BOOLEAN
    BY Fields DEF ReqOK
  <2>2. all[r] = x
    BY <2>1, Broadcast
  <2>3. entries[e].job # <<>> /\ x.work = "storing"
    BY DEF EventStored
  <2>4. CASE x.gone /\ req' = [all EXCEPT ![r] = d] /\ entries' = Complete(e)
    <3>1. "err" \in Results
      BY DEF Results
    <3> HIDE DEF x
    <3>2. Goes(x, d) /\ d.pc = x.pc /\ d.work = "ended" /\ d \in Request
      BY <2>1, <3>1 DEF Goes, SameLine, Request, Works
    <3> HIDE DEF d, all, n, last
    <3>3. ReqOK' /\ req'[r] = d /\ Echo(r, OpOf[r], n)
      BY <2>1, <2>4, <3>2, PutAll, SMT DEF all
    <3>4. Sends(x, d, n)
      BY <2>4, <3>2 DEF Goes, SameLine, Sends
    <3> QED
      BY <2>3, <2>4, <3>2, <3>3, <3>4 DEF x, n
  <2>5. CASE req' = [all EXCEPT ![r] = y] /\ entries' = entries
    <3> HIDE DEF x, n
    <3>1. Sends(x, z, n) /\ z.pc = x.pc
      BY <2>1, SendEffect, SMT
    <3> HIDE DEF z, all, last
    <3>2. Goes(z, y) /\ y.pc = z.pc /\ y.work = "running"
      BY <3>1 DEF Goes, SameLine, Request, Works, Sends
    <3> HIDE DEF y
    <3>3. Sends(x, y, n) /\ y.pc = x.pc /\ y \in Request
      BY <3>1, <3>2 DEF Goes, SameLine, Sends
    <3>4. ReqOK' /\ req'[r] = y /\ Echo(r, OpOf[r], n)
      BY <2>1, <2>5, <3>3, PutAll, SMT DEF all
    <3> QED
      BY <2>3, <2>5, <3>2, <3>3, <3>4 DEF x, n
  <2>6. \/ x.gone /\ req' = [all EXCEPT ![r] = d] /\ entries' = Complete(e)
        \/ req' = [all EXCEPT ![r] = y] /\ entries' = entries
    <3>1. \/ /\ x.gone /\ entries' = Complete(e)
             /\ req' = [all EXCEPT ![r].work = "ended", ![r].result = "err"]
          \/ req' = [all EXCEPT ![r] = [Send(r, @, n) EXCEPT !.work = "running"]] /\ entries' = entries
      BY DEF EventStored
    <3> HIDE DEF all, n
    <3>2. x = all[r]
      BY <2>2
    <3> QED
      BY <3>1, <3>2
  <2> QED
    BY <2>4, <2>5, <2>6
<1>3. BaseInv' /\ AllGoOn
  <2> DEFINE r == entries[e].job[1]
  <2>1. entries[e].job # <<>>
    BY DEF EventStored
  <2>2. /\ r \in Requests /\ WorksOn(entries[e], r) /\ req[r].entry # 0 /\ Own(req[r])
        /\ req[r] \in Request /\ Begun(OpOf[r]) /\ req[r].sub # "open"
    BY <2>1, JobFacts
  <2>3. /\ ReqOK' /\ Echo(r, OpOf[r], req[r].wn) /\ Sends(req[r], req'[r], req[r].wn)
        /\ req'[r].pc = req[r].pc /\ req[r].work = "storing"
        /\ \/ req'[r].work = "ended" /\ entries' = Complete(e)
           \/ req'[r].work = "running" /\ entries' = entries
    BY <2>2, <1>2 DEF BaseInv
  <2>4. JournalInv' /\ DOMAIN journal \subseteq DOMAIN journal'
    <3>1. Store(OpOf[r], req[r].wn, req[r].wkind) /\ req[r].wkind \in Kinds
      BY <2>2, Fields DEF EventStored
    <3> QED
      BY <2>2, <3>1, StoreJournal
  <2>5. current' = current /\ started' = started
    BY DEF EventStored, serverOps
  <2> HIDE DEF r
  <2>6. Own(req'[r]) /\ Forward(req[r], req'[r])
    BY <2>2, <2>3, SendsOn
  <2>7. AllGoOn /\ (Calm(req[r], req'[r]) => AllCalm)
    BY <2>2, <2>3, <2>6, Together DEF BaseInv
  <2>8. CASE req'[r].work = "running" /\ entries' = entries
    <3>1. Calm(req[r], req'[r])
      BY <2>3, <2>8 DEF Calm, Sends, Working
    <3> QED
      BY <2>3, <2>4, <2>5, <2>7, <2>8, <3>1, CarryCalm
  <2>9. CASE req'[r].work = "ended" /\ entries' = Complete(e)
    <3>1. Differs(entries, entries', e) /\ Finishes(entries[e], entries'[e])
      BY <2>1, <2>9, CompleteEntry DEF BaseInv
    <3>2. \A q \in Requests : q # r => Calm(req[q], req'[q])
      <4>1. ASSUME NEW q \in Requests, q # r
            PROVE  Calm(req[q], req'[q])
        BY <2>3, <4>1 DEF Echo, Hears, Calm
      <4> QED
        BY <4>1
    <3>3. QueueInv'
      BY <2>2, <2>5, <2>9, <3>1, <3>2, <1>finish DEF BaseInv, QueueInv
    <3> QED
      BY <2>3, <2>4, <2>5, <2>7, <3>3, Carry
  <2> QED
    BY <2>3, <2>8, <2>9
<1>4. FlowInv'
  <2> USE <1>3
  <2> DEFINE r == entries[e].job[1]
             x == req[r]
             y == req'[r]
             o == OpOf[r]
             m == Count(o)
             n == x.wn
             kind == x.wkind
  <2>1. entries[e].job # <<>>
    BY DEF EventStored
  <2>2. /\ r \in Requests /\ x \in Request /\ x.sub # "open" /\ Begun(o) /\ Own(x) /\ x.entry # 0
    BY <2>1, JobFacts
  <2>3. Echo(r, o, n) /\ Sends(x, y, n) /\ y.pc = x.pc
    BY <2>2, <1>2 DEF BaseInv
  <2>4. StreamOK(x, m, o, unanswered) /\ Store(o, n, kind) /\ kind \in Kinds
    BY <2>2, Fields DEF FlowInv, StreamInv, EventStored
  <2> HIDE DEF r
  <2>5. Sole(r, o)
    BY <2>2, SoleHolder DEF Held
  <2>6. y.pc # "interrupted"
    BY <2>2, <2>3 DEF Own, Resuming
  <2>7. ASSUME m \in Nat, n = m + 1
        PROVE  StreamOK(y, n, o, unanswered) /\ Ages(x, y)
    <3> HIDE DEF x, y, o, m, n
    <3> QED
      BY <2>2, <2>3, <2>4, <2>6, <2>7, SendStream
  <2> HIDE DEF n, kind
  <2> QED
    BY <2>2, <2>3, <2>4, <2>5, <2>7, FlowStored
<1> QED
  BY <1>3, <1>4

\* A resuming handler ends a journal that nobody is left to end.
LEMMA InterruptedStep ==
    ASSUME BaseInv, FlowInv, NEW r \in Requests, Interrupted(r)
    PROVE  BaseInv' /\ FlowInv'
<1>1. ReqOK
  BY DEF BaseInv
<1> USE <1>1
<1>2. ASSUME req[r].sub # "open"
      PROVE  /\ ReqOK' /\ Echo(r, OpOf[r], req[r].n) /\ Goes(req[r], req'[r])
             /\ req'[r].work = req[r].work
             /\ req[r].pc = "interrupted" /\ req'[r].pc = "subscribing"
  <2> USE <1>2
  <2> DEFINE x == req[r]
             n == x.n
             all == broadcastLocked(OpOf[r], n, TRUE)
             y == [x EXCEPT !.pc = "subscribing"]
  <2>1. x \in Request /\ n \in Nat /\ TRUE \in BOOLEAN
    BY Fields DEF ReqOK
  <2>2. all[r] = x
    BY <2>1, Broadcast
  <2>3. req' = [all EXCEPT ![r] = y]
    BY <2>2 DEF Interrupted
  <2>4. Goes(x, y) /\ y.pc = "subscribing" /\ y.work = x.work
    BY <2>1 DEF Goes, SameLine, Request, Pcs
  <2> HIDE DEF y
  <2>5. ReqOK' /\ req'[r] = y /\ Echo(r, OpOf[r], n)
    BY <2>1, <2>3, <2>4, PutAll DEF Goes
  <2> QED
    BY <2>4, <2>5 DEF Interrupted
<1>3. BaseInv' /\ AllGoOn
  <2>1. /\ req[r].pc = "interrupted" /\ req[r].sub # "open" /\ Begun(OpOf[r]) /\ Own(req[r])
    BY OfRequest DEF Interrupted, Reads
  <2>2. /\ ReqOK' /\ Echo(r, OpOf[r], req[r].n) /\ Goes(req[r], req'[r])
        /\ req'[r].work = req[r].work /\ req'[r].pc = "subscribing"
    BY <2>1, <1>2 DEF BaseInv
  <2>3. Onward(req[r].pc, req'[r].pc)
    BY <2>1, <2>2 DEF Onward, Fresh, Resuming, Submits, Reads
  <2>4. Own(req'[r]) /\ Forward(req[r], req'[r]) /\ Calm(req[r], req'[r])
    BY <2>1, <2>2, <2>3, GoesOn
  <2>5. AllGoOn /\ AllCalm
    BY <2>2, <2>4, Together DEF BaseInv
  <2>6. entries' = entries /\ current' = current /\ started' = started
    BY DEF Interrupted, queueVars, serverOps
  <2>7. JournalInv' /\ DOMAIN journal \subseteq DOMAIN journal'
    BY <2>1, StoreJournal DEF Interrupted, Kinds
  <2> QED
    BY <2>2, <2>5, <2>6, <2>7, CarryCalm
<1>4. FlowInv'
  <2> USE <1>3
  <2> DEFINE x == req[r]
             y == req'[r]
             o == OpOf[r]
             m == Count(o)
             n == x.n
  <2>1. /\ x \in Request /\ x.pc = "interrupted" /\ Begun(o) /\ Own(x)
        /\ x.entry = 0 /\ x.sub = "none"
    BY OfRequest DEF Interrupted, Reads, Own, Resuming
  <2>2. Echo(r, o, n) /\ Goes(x, y) /\ y.pc = "subscribing"
    BY <2>1, <1>2 DEF BaseInv
  <2>3. StreamOK(x, m, o, unanswered) /\ Store(o, n, "failed") /\ "failed" \in Kinds
    BY DEF FlowInv, StreamInv, Interrupted, Kinds
  <2>4. Sole(r, o)
    <3>1. o \notin active /\ ~Ended(o)
      BY <2>1, <2>3 DEF FlowInv, ActiveInv, Active, Store, Contiguous
    <3>2. ASSUME NEW q \in Requests, q # r, OpOf[q] = o, req[q].sub # "open", Live(req[q])
          PROVE  FALSE
      BY <3>1, <3>2 DEF FlowInv, ActiveInv, Active, Live
    <3> QED
      BY <3>2 DEF Sole
  <2>5. ~Held(y) /\ ~Live(y) /\ Quiet(x, y) /\ Ages(x, y) /\ y \in Request
    BY <2>1, <2>2 DEF Held, Live, Quiet, Ages, Line, Goes, SameLine
  <2>6. ASSUME m \in Nat, n = m + 1
        PROVE  StreamOK(y, n, o, unanswered) /\ Ages(x, y)
    <3> HIDE DEF x, y, o, m, n
    <3>1. n \in Nat /\ m <= n
      BY <2>6, SMT
    <3>2. StreamOK(y, n, o, unanswered)
      BY <2>1, <2>3, <2>5, <2>6, <3>1, QuietStream
    <3> QED
      BY <2>5, <3>2
  <2> HIDE DEF n
  <2> QED
    BY <2>1, <2>2, <2>3, <2>4, <2>6, FlowStored
<1> QED
  BY <1>3, <1>4

\* Resume takes the cursor of its client, which has seen stored events only.
LEMMA ResumeStep ==
    ASSUME BaseInv, FlowInv, NEW r \in Requests, Resume(r)
    PROVE  BaseInv' /\ FlowInv'
<1>known. ASSUME NEW p
          PROVE  \A n \in Known(p) : n \in Nat /\ n <= Count(p)
  <2> USE <1>known
  <2>1. ASSUME NEW q \in Requests, OpOf[q] = p, NEW i \in 1..Len(req[q].got)
        PROVE  req[q].got[i] \in Nat /\ req[q].got[i] <= Count(p)
    <3> DEFINE x == req[q]
               m == Count(p)
               g == x.got
    <3>1. x \in Request /\ m \in Nat /\ StreamOK(x, m, p, unanswered)
      BY <2>1, Counts, OfRequest DEF BaseInv, FlowInv, StreamInv
    <3> HIDE DEF x, m
    <3>2. Ordered(x.cursor, g, m, p, unanswered) /\ g \in Seq(Nat)
      BY <3>1, GotOrdered, LineType
    <3>3. i \in 1..Len(g)
      BY DEF x
    <3> HIDE DEF g
    <3>4. g[i] \in Nat /\ g[i] <= m
      <4>1. g[i] \in Nat
        BY <3>2, <3>3, SMT
      <4> QED
        BY <3>2, <3>3, <4>1 DEF Ordered
    <3> QED
      BY <3>4 DEF g, x, m
  <2>2. ASSUME NEW n \in Known(p)
        PROVE  n \in Nat /\ n <= Count(p)
    <3>1. PICK q \in Requests : OpOf[q] = p /\ n \in {req[q].got[i] : i \in 1..Len(req[q].got)}
      BY DEF Known
    <3>2. PICK i \in 1..Len(req[q].got) : n = req[q].got[i]
      BY <3>1
    <3> QED
      BY <2>1, <3>1, <3>2
  <2> QED
    BY <2>2
<1>1. ReqOK
  BY DEF BaseInv
<1> USE <1>1
<1>2. Len(journal[OpOf[r]]) + 1 \in Nat /\ Count(OpOf[r]) \in Nat
  <2>1. Len(journal[OpOf[r]]) \in Nat /\ Count(OpOf[r]) \in Nat
    BY OfRequest, Counts DEF BaseInv, Resume, Reads
  <2> QED
    BY <2>1, SMT
<1>3. PICK k \in Cursors(OpOf[r]) :
         req' = [req EXCEPT ![r] =
                    [[req[r] EXCEPT !.cursor = k, !.n = Len(journal[OpOf[r]]) + 1]
                       EXCEPT !.pc = IF OpOf[r] \in active \/ Ended(OpOf[r])
                                     THEN "subscribing" ELSE "interrupted"]]
  BY DEF Resume
<1>4. k \in Nat /\ k <= Count(OpOf[r])
  <2>1. k = 0 \/ k \in Known(OpOf[r])
    BY <1>3 DEF Cursors
  <2>2. 0 \in Nat /\ 0 <= Count(OpOf[r])
    BY <1>2, SMT
  <2> QED
    BY <2>1, <2>2, <1>known
<1>5. /\ ReqOK' /\ Only(r) /\ req[r].pc = "resuming"
      /\ req'[r].cursor = k /\ req'[r].got = req[r].got
      /\ req'[r].sub = req[r].sub /\ req'[r].buf = req[r].buf
      /\ req'[r].entry = req[r].entry /\ req'[r].work = req[r].work
      /\ req'[r].gone = req[r].gone /\ req'[r].cancelled = req[r].cancelled
      /\ OpOf[r] \in active \/ Ended(OpOf[r]) => req'[r].pc = "subscribing"
      /\ ~(OpOf[r] \in active \/ Ended(OpOf[r])) => req'[r].pc = "interrupted"
  <2> DEFINE x == req[r]
             o == OpOf[r]
             n == Len(journal[o]) + 1
             c == IF o \in active \/ Ended(o) THEN "subscribing" ELSE "interrupted"
             y == [[x EXCEPT !.cursor = k, !.n = n] EXCEPT !.pc = c]
  <2>1. x \in Request /\ k \in Nat /\ n \in Nat /\ c \in Pcs
    BY <1>2, <1>4 DEF ReqOK, Pcs
  <2>2. req' = [req EXCEPT ![r] = y] /\ x.pc = "resuming"
    BY <1>3 DEF Resume
  <2>3. c = IF o \in active \/ Ended(o) THEN "subscribing" ELSE "interrupted"
    OBVIOUS
  <2> HIDE DEF x, n, c
  <2>4. /\ y \in Request /\ y.pc = c /\ y.cursor = k /\ y.got = x.got
        /\ y.sub = x.sub /\ y.buf = x.buf /\ y.entry = x.entry /\ y.work = x.work
        /\ y.gone = x.gone /\ y.cancelled = x.cancelled
    BY <2>1 DEF Request
  <2> HIDE DEF y
  <2>5. ReqOK' /\ req'[r] = y /\ Only(r)
    BY <2>2, <2>4, Put
  <2> QED
    BY <2>2, <2>3, <2>4, <2>5 DEF x
<1>6. BaseInv' /\ AllGoOn
  <2>1. req[r].pc = "resuming" /\ Begun(OpOf[r]) /\ Own(req[r])
    BY OfRequest DEF Resume, Reads
  <2>2. /\ ReqOK' /\ Only(r) /\ req'[r].got = req[r].got
        /\ req'[r].sub = req[r].sub /\ req'[r].buf = req[r].buf
        /\ req'[r].entry = req[r].entry /\ req'[r].work = req[r].work
        /\ req'[r].cancelled = req[r].cancelled
        /\ req'[r].pc \in Resuming
    BY <1>5 DEF Resuming
  <2>3. Own(req'[r]) /\ Forward(req[r], req'[r]) /\ Calm(req[r], req'[r])
    BY <2>1, <2>2 DEF Own, Forward, Calm, Held, Fresh, Resuming, Submits, Reads
  <2>4. /\ entries' = entries /\ current' = current /\ started' = started
        /\ journal' = journal /\ active' = active
    BY DEF Resume, queueVars, storeVars, serverOps
  <2> QED
    BY <2>2, <2>3, <2>4, Alone, CarryCalm, SameJournal DEF BaseInv
<1>7. FlowInv'
  <2> DEFINE x == req[r]
             y == req'[r]
             o == OpOf[r]
             m == Count(o)
  <2>1. /\ ReqOK' /\ Only(r) /\ x.pc = "resuming" /\ y.cursor = k /\ y.got = x.got
        /\ y.sub = x.sub /\ y.buf = x.buf /\ y.entry = x.entry /\ y.gone = x.gone
        /\ o \in active \/ Ended(o) => y.pc = "subscribing"
        /\ ~(o \in active \/ Ended(o)) => y.pc = "interrupted"
    BY <1>5
  <2>2. y \in Request /\ x.got = <<>> /\ x.buf = <<>> /\ x.sub = "none" /\ x.entry = 0
    BY <2>1, OfRequest DEF Own, Fresh, ReqOK
  <2>3. y.got = <<>> /\ y.buf = <<>> /\ ~Held(y) /\ ~Live(y)
    BY <2>1, <2>2 DEF Held, Live
  <2>4. journal' = journal /\ active' = active /\ unanswered' = unanswered
    BY DEF Resume, storeVars
  <2>5. Steady /\ Count(o)' = m
    BY <2>4, StillStore DEF BaseInv, Count, Begun
  <2>6. StreamOK(y, m, o, unanswered)
    <3> HIDE DEF y, m, o
    <3>1. Line(y) = <<>> /\ y.cursor = k
      BY <2>1, <2>2, <2>3, LineType
    <3>2. 1..Len(<<>>) = {}
      BY SMT
    <3>3. Ordered(k, <<>>, m, o, unanswered)
      BY <3>2 DEF Ordered
    <3> QED
      BY <1>4, <2>3, <3>1, <3>3 DEF StreamOK, m, o
  <2>7. ASSUME NEW q \in Requests
         PROVE  /\ StreamOK(req'[q], Count(OpOf[q])', OpOf[q], unanswered')
                /\ Active(req[q], OpOf[q])'
    <3>1. CASE q = r
      <4>1. StreamOK(req'[r], Count(o)', o, unanswered')
        BY <2>4, <2>5, <2>6
      <4>2. Active(req[r], o)'
        <5>1. y.pc = "interrupted" => o \notin active
          BY <2>1
        <5> QED
          BY <2>3, <2>4, <5>1 DEF Active
      <4> QED
        BY <3>1, <4>1, <4>2
    <3>2. CASE q # r
      <4>1. req'[q] = req[q] /\ Settled(OpOf[q]) /\ Remains(OpOf[q])
        BY <2>1, <2>5, <3>2 DEF Only, Steady
      <4>2. Quiet(req[q], req'[q]) /\ Ages(req[q], req'[q])
        BY <4>1 DEF Quiet, Ages
      <4> QED
        BY <1>6, <4>1, <4>2, StreamQuiet, ActiveAges DEF BaseInv, FlowInv
    <3> QED
      BY <3>1, <3>2
  <2> QED
    BY <2>7 DEF FlowInv, StreamInv, ActiveInv
<1> QED
  BY <1>6, <1>7

\* Subscribe replays what is stored after the cursor and listens to the rest.
LEMMA SubscribeStep ==
    ASSUME BaseInv, FlowInv, NEW r \in Requests, Subscribe(r)
    PROVE  BaseInv' /\ FlowInv'
<1>range. ASSUME NEW c \in Nat, NEW m \in Nat, NEW o, NEW U, c <= m, NEW s,
                 s = [i \in 1..(m + 1 - (c + 1)) |-> (c + 1) + i - 1]
          PROVE  s \in Seq(Nat) /\ Full(c, s, m, o, U)
  <2> USE <1>range
  <2> DEFINE n == m - c
  <2>1. n \in Nat /\ m + 1 - (c + 1) = n
    BY SMT
  <2>2. s = [i \in 1..n |-> (c + 1) + i - 1]
    BY <2>1
  <2>3. s \in Seq(Nat) /\ Len(s) = n /\ \A i \in 1..n : s[i] = c + i
    <3>1. \A i \in 1..n : (c + 1) + i - 1 = c + i /\ c + i \in Nat
      BY <2>1, SMT
    <3> QED
      BY <2>1, <2>2, <3>1, SMT
  <2>4. ASSUME NEW i \in 1..n
        PROVE  s[i] <= m /\ s[i] > Prev(c, s, i) /\ s[i] = Prev(c, s, i) + 1
    BY <2>1, <2>3, SMT DEF Prev
  <2>5. End(c, s) = m
    BY <2>1, <2>3, SMT DEF End
  <2> QED
    BY <2>3, <2>4, <2>5 DEF Full, Ordered, Follows
<1>1. ReqOK
  BY DEF BaseInv
<1> USE <1>1
<1>2. ASSUME Len(journal[OpOf[r]]) \in Nat
      PROVE  /\ ReqOK' /\ Only(r) /\ Catches(req[r], req'[r], Len(journal[OpOf[r]]))
             /\ req[r].pc = "subscribing" /\ req'[r].pc = "following"
             /\ req'[r].sub \in {"open", "closed"}
  <2> USE <1>2
  <2> DEFINE x == req[r]
             m == Len(journal[OpOf[r]])
             from == x.cursor + 1
             more == [i \in 1..(m + 1 - from) |-> from + i - 1]
             z == SendAll(r, x, from, m)
             s == IF Ended(OpOf[r]) THEN "closed" ELSE "open"
             y == [z EXCEPT !.pc = "following", !.sub = s]
  <2>1. x \in Request /\ m \in Nat /\ x.cursor \in Nat /\ x.got \in Seq(Nat)
    BY Fields DEF ReqOK
  <2>2. req' = [req EXCEPT ![r] = y] /\ x.pc = "subscribing"
    BY DEF Subscribe
  <2>3. s \in {"open", "closed"} /\ s \in Subs
    BY DEF Subs
  <2>4. CASE z = x /\ (x.gone \/ m < from)
    <3>1. /\ y \in Request /\ y.pc = "following" /\ y.cursor = x.cursor /\ y.got = x.got
          /\ y.sub = s /\ y.buf = x.buf /\ y.entry = x.entry /\ y.work = x.work
          /\ y.gone = x.gone /\ y.cancelled = x.cancelled
      <4> HIDE DEF z, s, x
      <4> QED
        BY <2>1, <2>3, <2>4 DEF Request, Pcs
    <3> HIDE DEF y, s, m
    <3>2. Catches(x, y, m)
      BY <2>4, <3>1 DEF Catches
    <3> QED
      BY <2>2, <2>3, <3>1, <3>2, Put DEF m
  <2>5. CASE z = [x EXCEPT !.gone = TRUE, !.cancelled = TRUE]
    <3>1. /\ y \in Request /\ y.pc = "following" /\ y.cursor = x.cursor /\ y.got = x.got
          /\ y.sub = s /\ y.buf = x.buf /\ y.entry = x.entry /\ y.work = x.work
          /\ y.gone /\ y.cancelled
      <4> HIDE DEF z, s, x
      <4> QED
        BY <2>1, <2>3, <2>5 DEF Request, Pcs
    <3> HIDE DEF y, s, m
    <3>2. Catches(x, y, m)
      BY <3>1 DEF Catches
    <3> QED
      BY <2>2, <2>3, <3>1, <3>2, Put DEF m
  <2>6. CASE z = [x EXCEPT !.got = @ \o more] /\ ~x.gone /\ ~(m < from)
    <3> DEFINE g == x.got \o more
    <3>1. g \in Seq(Nat)
      <4>1. more \in Seq(Nat)
        <5> HIDE DEF m, x
        <5>1. m + 1 - from \in Nat
          BY <2>1, <2>6, SMT
        <5> DEFINE k == m + 1 - from
        <5>2. k \in Nat
          BY <5>1
        <5> HIDE DEF k
        <5>3. \A i \in 1..k : from + i - 1 \in Nat
          BY <2>1, <5>2, SMT
        <5>4. more \in [1..k -> Nat]
          BY <5>3 DEF k
        <5> HIDE DEF more
        <5> QED
          BY <5>2, <5>4, SMT
      <4> HIDE DEF more, x
      <4> QED
        BY <2>1, <4>1, SMT
    <3> HIDE DEF g, z, s, x, more
    <3>2. z = [x EXCEPT !.got = g]
      BY <2>6 DEF g
    <3>3. /\ y \in Request /\ y.pc = "following" /\ y.cursor = x.cursor /\ y.got = g
          /\ y.sub = s /\ y.buf = x.buf /\ y.entry = x.entry /\ y.work = x.work
          /\ y.gone = x.gone /\ y.cancelled = x.cancelled
      BY <2>1, <2>3, <3>1, <3>2 DEF Request, Pcs
    <3> HIDE DEF y, m
    <3>4. Catches(x, y, m)
      BY <2>6, <3>3 DEF Catches, g, more
    <3> QED
      BY <2>2, <2>3, <3>3, <3>4, Put DEF m, x
  <2>7. \/ z = x /\ (x.gone \/ m < from)
        \/ z = [x EXCEPT !.gone = TRUE, !.cancelled = TRUE]
        \/ z = [x EXCEPT !.got = @ \o more] /\ ~x.gone /\ ~(m < from)
    <3> HIDE DEF x, m, from
    <3> QED
      BY DEF SendAll
  <2> QED
    BY <2>4, <2>5, <2>6, <2>7
<1>3. BaseInv' /\ AllGoOn
  <2>1. req[r].pc = "subscribing" /\ Begun(OpOf[r]) /\ Own(req[r])
    BY OfRequest DEF Subscribe, Reads
  <2>2. Len(journal[OpOf[r]]) \in Nat
    BY <2>1, Counts DEF BaseInv
  <2>3. /\ ReqOK' /\ Only(r) /\ Catches(req[r], req'[r], Len(journal[OpOf[r]]))
        /\ req'[r].pc = "following"
    BY <2>2, <1>2 DEF BaseInv
  <2>4. Own(req'[r]) /\ Forward(req[r], req'[r]) /\ Calm(req[r], req'[r])
    BY <2>1, <2>3 DEF Own, Forward, Calm, Held, Catches, Fresh, Resuming, Submits, Reads
  <2>5. /\ entries' = entries /\ current' = current /\ started' = started
        /\ journal' = journal /\ active' = active
    BY DEF Subscribe, queueVars, storeVars, serverOps
  <2> QED
    BY <2>3, <2>4, <2>5, Alone, CarryCalm, SameJournal DEF BaseInv
<1>4. FlowInv'
  <2> USE <1>3
  <2> DEFINE x == req[r]
             y == req'[r]
             o == OpOf[r]
             m == Count(o)
             c == x.cursor
  <2>1. /\ x.pc = "subscribing" /\ Begun(o) /\ x \in Request /\ x.entry = 0
        /\ x.got = <<>> /\ x.buf = <<>>
    BY OfRequest DEF Subscribe, Reads, Own, Resuming
  <2>2. m = Len(journal[o]) /\ m \in Nat
    BY <2>1, Counts DEF BaseInv
  <2>3. Only(r) /\ Catches(x, y, m) /\ y.pc = "following"
    BY <2>2, <1>2 DEF BaseInv
  <2>4. journal' = journal /\ active' = active /\ unanswered' = unanswered
    BY DEF Subscribe, storeVars
  <2>5. Steady /\ Count(o)' = m
    BY <2>4, StillStore DEF BaseInv, Count, Begun
  <2>6. StreamOK(x, m, o, unanswered)
    BY DEF FlowInv, StreamInv
  <2>7. /\ c \in Nat /\ c <= m /\ y \in Request /\ y.cursor = c /\ y.buf = <<>> /\ y.entry = 0
        /\ Ordered(c, x.got, m, o, unanswered) /\ (x.gone => y.gone)
    BY <2>1, <2>2, <2>3, <2>6, LineType, GotOrdered DEF Catches, StreamOK
  <2>8. \/ y.gone /\ y.got = <<>>
        \/ m < c + 1 /\ y.got = <<>>
        \/ y.got = <<>> \o [i \in 1..(m + 1 - (c + 1)) |-> (c + 1) + i - 1]
    BY <2>1, <2>3 DEF Catches
  <2> HIDE DEF m, c
  <2>9. StreamOK(y, m, o, unanswered)
    <3> HIDE DEF y
    <3>1. Line(y) = y.got
      BY <2>7, LineType
    <3>2. CASE y.gone /\ y.got = <<>>
      BY <2>1, <2>7, <3>1, <3>2 DEF StreamOK, Live
    <3>3. CASE m < c + 1 /\ y.got = <<>>
      <4>1. c = m
        BY <2>2, <2>7, <3>3, SMT
      <4>2. End(c, y.got) = m
        BY <3>3, <4>1 DEF End
      <4> QED
        BY <2>1, <2>7, <3>1, <3>3, <4>2 DEF StreamOK
    <3>4. CASE y.got = <<>> \o [i \in 1..(m + 1 - (c + 1)) |-> (c + 1) + i - 1]
      <4> DEFINE s == [i \in 1..(m + 1 - (c + 1)) |-> (c + 1) + i - 1]
      <4>1. s \in Seq(Nat) /\ Full(c, s, m, o, unanswered)
        BY <2>2, <2>7, <1>range
      <4>2. y.got = <<>> \o s
        BY <3>4
      <4> HIDE DEF s
      <4>3. <<>> \o s = s
        BY <4>1, SMT
      <4> QED
        BY <2>7, <3>1, <4>1, <4>2, <4>3 DEF StreamOK, Full
    <3> QED
      BY <2>8, <3>2, <3>3, <3>4
  <2>10. Ages(x, y)
    BY <2>3, <2>7 DEF Ages, Held
  <2>11. ASSUME NEW q \in Requests
         PROVE  /\ StreamOK(req'[q], Count(OpOf[q])', OpOf[q], unanswered')
                /\ Active(req[q], OpOf[q])'
    <3>1. Remains(OpOf[q]) /\ Settled(OpOf[q])
      BY <2>5 DEF Steady
    <3>2. CASE q = r
      BY <2>4, <2>5, <2>9, <2>10, <3>1, <3>2, ActiveAges DEF FlowInv
    <3>3. CASE q # r
      <4>1. Quiet(req[q], req'[q]) /\ Ages(req[q], req'[q])
        BY <2>3, <3>3 DEF Only, Quiet, Ages
      <4> QED
        BY <3>1, <4>1, StreamQuiet, ActiveAges DEF BaseInv, FlowInv
    <3> QED
      BY <3>2, <3>3
  <2> QED
    BY <2>11 DEF FlowInv, StreamInv, ActiveInv
<1> QED
  BY <1>3, <1>4

\* Follow passes an event from the buffer to the client, or ends.
LEMMA FollowStep ==
    ASSUME BaseInv, FlowInv, NEW r \in Requests, Follow(r)
    PROVE  BaseInv' /\ FlowInv'
<1>1. ReqOK
  BY DEF BaseInv
<1> USE <1>1
<1>2. /\ ReqOK' /\ Only(r) /\ req[r].pc = "following" /\ req'[r].work = req[r].work
      /\ \/ /\ req[r].gone /\ req'[r].gone /\ req'[r].pc = "done" /\ req'[r].sub = "closed"
            /\ req'[r].buf = <<>> /\ req'[r].got = req[r].got
            /\ req'[r].cursor = req[r].cursor /\ req'[r].entry = req[r].entry
            /\ req[r].cancelled => req'[r].cancelled
         \/ /\ ~req[r].gone /\ req[r].buf # <<>> /\ req'[r].pc = "following"
            /\ req'[r].buf = Tail(req[r].buf) /\ req'[r].sub = req[r].sub
            /\ req'[r].cursor = req[r].cursor /\ req'[r].entry = req[r].entry
            /\ req[r].cancelled => req'[r].cancelled
            /\ \/ req'[r].gone /\ req'[r].got = req[r].got
               \/ ~req'[r].gone /\ req'[r].got = Append(req[r].got, Head(req[r].buf))
         \/ Goes(req[r], req'[r]) /\ req'[r].pc = "done"
  <2> DEFINE x == req[r]
  <2>1. x \in Request /\ x.pc = "following" /\ x.buf \in Seq(Nat) /\ <<>> \in Seq(Nat)
    <3>1. x \in Request /\ x.pc = "following"
      BY DEF ReqOK, Follow
    <3> QED
      BY <3>1, Fields, SMT
  <2>2. CASE x.gone /\ req' = [req EXCEPT ![r].pc = "done", ![r].sub = "closed", ![r].buf = <<>>]
    <3> DEFINE y == [x EXCEPT !.pc = "done", !.sub = "closed", !.buf = <<>>]
    <3>1. req' = [req EXCEPT ![r] = y]
      BY <2>2
    <3>2. /\ y \in Request /\ y.pc = "done" /\ y.cursor = x.cursor /\ y.got = x.got
          /\ y.sub = "closed" /\ y.buf = <<>> /\ y.entry = x.entry /\ y.work = x.work
          /\ y.gone = x.gone /\ y.cancelled = x.cancelled
      <4> HIDE DEF x
      <4> QED
        BY <2>1 DEF Request, Pcs, Subs
    <3> HIDE DEF y
    <3> QED
      BY <2>1, <2>2, <3>1, <3>2, Put
  <2>3. CASE /\ ~x.gone /\ x.buf # <<>>
             /\ req' = [req EXCEPT ![r] = [Send(r, x, Head(x.buf)) EXCEPT !.buf = Tail(x.buf)]]
    <3> DEFINE n == Head(x.buf)
               b == Tail(x.buf)
               z == Send(r, x, n)
               y == [z EXCEPT !.buf = b]
    <3>1. req' = [req EXCEPT ![r] = y]
      BY <2>3
    <3>2. n \in Nat /\ b \in Seq(Nat)
      BY <2>1, <2>3, SMT
    <3> HIDE DEF n, b, x
    <3>3. Sends(x, z, n) /\ z.pc = x.pc /\ z.work = x.work
      BY <2>1, <3>2, SendEffect, SMT
    <3> HIDE DEF z
    <3>4. /\ y \in Request /\ y.pc = z.pc /\ y.cursor = z.cursor /\ y.got = z.got
          /\ y.sub = z.sub /\ y.buf = b /\ y.entry = z.entry /\ y.work = z.work
          /\ y.gone = z.gone /\ y.cancelled = z.cancelled
      BY <3>2, <3>3 DEF Request, Sends
    <3> HIDE DEF y
    <3>5. ReqOK' /\ req'[r] = y /\ Only(r)
      BY <3>1, <3>4, Put
    <3>6. /\ y.pc = "following" /\ y.buf = b /\ y.sub = x.sub /\ y.cursor = x.cursor
          /\ y.entry = x.entry /\ y.work = x.work /\ (x.cancelled => y.cancelled)
          /\ \/ y.gone /\ y.got = x.got
             \/ ~y.gone /\ y.got = Append(x.got, n)
      BY <2>1, <3>3, <3>4 DEF Sends
    <3> QED
      BY <2>1, <2>3, <3>5, <3>6 DEF x, n, b
  <2>4. CASE req' = [req EXCEPT ![r].pc = "done"]
    BY <2>1, <2>4, MoveEffect DEF Pcs
  <2> QED
    BY <2>2, <2>3, <2>4 DEF Follow
<1>3. BaseInv' /\ AllGoOn
  <2> DEFINE x == req[r]
             y == req'[r]
  <2>1. /\ ReqOK' /\ Only(r) /\ x.pc = "following" /\ y.work = x.work
        /\ \/ /\ y.pc = "done" /\ y.sub = "closed" /\ y.buf = <<>>
              /\ y.entry = x.entry /\ (x.cancelled => y.cancelled)
           \/ /\ x.buf # <<>> /\ y.pc = "following" /\ y.buf = Tail(x.buf) /\ y.sub = x.sub
              /\ y.entry = x.entry /\ (x.cancelled => y.cancelled)
           \/ Goes(x, y) /\ y.pc = "done"
    BY <1>2 DEF BaseInv
  <2>2. Own(x) /\ x.entry = 0 /\ x \in Request /\ x.buf \in Seq(Nat) /\ Len(x.buf) <= SubscriberSize
    BY <2>1, OfRequest, Fields DEF Own
  <2>3. /\ ReqOK' /\ Only(r)
    BY <2>1
  <2>4. /\ entries' = entries /\ current' = current /\ started' = started
        /\ journal' = journal /\ active' = active
    BY DEF Follow, queueVars, storeVars, serverOps
  <2> HIDE DEF x, y
  <2>5. y.entry = 0 /\ y.pc \in {"following", "done"} /\ Calm(x, y)
    BY <2>1, <2>2 DEF Goes, Calm
  <2>6. Len(y.buf) <= SubscriberSize
    <3>1. SubscriberSize \in Nat /\ Len(<<>>) = 0
      BY SessionAssumption, SMT
    <3>2. x.buf # <<>> => Len(Tail(x.buf)) <= SubscriberSize
      BY <2>2, <3>1, SMT
    <3>3. 0 <= SubscriberSize
      BY <3>1, SMT
    <3> QED
      BY <2>1, <2>2, <3>1, <3>2, <3>3 DEF Goes, SameLine
  <2>7. Own(y) /\ Forward(x, y)
    BY <2>1, <2>2, <2>5, <2>6 DEF Own, Forward, Held, Fresh, Resuming, Submits, Reads
  <2> QED
    BY <2>3, <2>4, <2>5, <2>7, Alone, CarryCalm, SameJournal DEF BaseInv, x, y
<1>4. FlowInv'
  <2> USE <1>3
  <2> DEFINE x == req[r]
             y == req'[r]
  <2>1. /\ Only(r) /\ x.pc = "following"
        /\ \/ /\ x.gone /\ y.gone /\ y.pc = "done" /\ y.got = x.got
              /\ y.cursor = x.cursor /\ y.entry = x.entry
           \/ /\ ~x.gone /\ x.buf # <<>> /\ y.pc = "following" /\ y.buf = Tail(x.buf)
              /\ y.sub = x.sub /\ y.cursor = x.cursor /\ y.entry = x.entry
              /\ \/ y.gone /\ y.got = x.got
                 \/ ~y.gone /\ y.got = Append(x.got, Head(x.buf))
           \/ Goes(x, y) /\ y.pc = "done"
    BY <1>2 DEF BaseInv
  <2>2. x.entry = 0 /\ x \in Request
    BY <2>1, OfRequest DEF Own
  <2>3. Stays(x, y)
    <3> HIDE DEF x, y
    <3>1. CASE /\ x.gone /\ y.gone /\ y.pc = "done" /\ y.got = x.got
               /\ y.cursor = x.cursor /\ y.entry = x.entry
      BY <2>2, <3>1 DEF Stays, Ages, Quiet, Live, Held
    <3>2. CASE /\ ~x.gone /\ x.buf # <<>> /\ y.pc = "following" /\ y.buf = Tail(x.buf)
               /\ y.sub = x.sub /\ y.cursor = x.cursor /\ y.entry = x.entry
      <4>1. ~Held(y) /\ (Live(y) => Live(x)) /\ y.cursor = x.cursor /\ Ages(x, y)
        BY <2>2, <3>2 DEF Held, Live, Ages
      <4>2. CASE y.gone /\ y.got = x.got
        BY <4>1, <4>2 DEF Stays, Quiet
      <4>3. CASE ~y.gone /\ y.got = Append(x.got, Head(x.buf))
        <5> DEFINE g == x.got
                   b == x.buf
        <5>1. g \in Seq(Nat) /\ b \in Seq(Nat) /\ b # <<>>
          BY <2>2, <3>2, LineType
        <5>2. Line(x) = g \o b /\ Line(y) = Append(g, Head(b)) \o Tail(b)
          BY <3>2, <4>3 DEF Line
        <5> HIDE DEF g, b
        <5>3. Line(y) = Line(x)
          BY <5>1, <5>2, MoveHead
        <5> QED
          BY <4>1, <5>3 DEF Stays, Quiet
      <4> QED
        BY <2>1, <3>2, <4>2, <4>3 DEF x, y
    <3>3. CASE Goes(x, y) /\ y.pc = "done"
      <4>1. ~Held(y) /\ SameLine(x, y) /\ y.gone = x.gone
        BY <2>2, <3>3 DEF Held, Goes
      <4> QED
        BY <3>3, <4>1, LineStays
    <3> QED
      BY <2>1, <3>1, <3>2, <3>3 DEF x, y
  <2>4. AllStay
    <3>1. ASSUME NEW q \in Requests, q # r
          PROVE  Stays(req[q], req'[q])
      BY <2>1, <3>1 DEF Only, Stays, Ages, Quiet
    <3> QED
      BY <2>3, <3>1 DEF AllStay
  <2>5. journal' = journal /\ active' = active /\ unanswered' = unanswered
    BY DEF Follow, storeVars
  <2> QED
    BY <2>4, <2>5, StillStore, FlowQuiet DEF BaseInv
<1> QED
  BY <1>3, <1>4

\* The goroutine starts a job, has an event of it to store, or ends it.
LEMMA WorkStep ==
    ASSUME BaseInv, FlowInv, NEW e \in 1..Len(entries),
           Start(e) \/ Event(e) \/ EventFails(e) \/ Stop(e)
    PROVE  BaseInv' /\ FlowInv'
<1>effect. ASSUME ReqOK, NEW r \in Requests, NEW w \in Works,
                  \/ req' = [req EXCEPT ![r].work = w]
                  \/ \E res \in {"ok", "err"} : req' = [req EXCEPT ![r].work = w, ![r].result = res]
           PROVE  /\ ReqOK' /\ Only(r) /\ Goes(req[r], req'[r])
                  /\ req'[r].pc = req[r].pc /\ req'[r].work = w
  <2> USE <1>effect
  <2> DEFINE x == req[r]
  <2>1. x \in Request
    BY DEF ReqOK
  <2>2. CASE req' = [req EXCEPT ![r].work = w]
    <3> DEFINE y == [x EXCEPT !.work = w]
    <3>1. req' = [req EXCEPT ![r] = y]
      BY <2>2
    <3> HIDE DEF x
    <3>2. Goes(x, y) /\ y.pc = x.pc /\ y.work = w /\ y \in Request
      BY <2>1 DEF Goes, SameLine, Request
    <3> HIDE DEF y
    <3> QED
      BY <3>1, <3>2, Put DEF x
  <2>3. ASSUME NEW res \in {"ok", "err"}, req' = [req EXCEPT ![r].work = w, ![r].result = res]
        PROVE  /\ ReqOK' /\ Only(r) /\ Goes(req[r], req'[r])
               /\ req'[r].pc = req[r].pc /\ req'[r].work = w
    <3> DEFINE y == [x EXCEPT !.work = w, !.result = res]
    <3>1. req' = [req EXCEPT ![r] = y]
      BY <2>3
    <3>2. res \in Results
      BY <2>3 DEF Results
    <3> HIDE DEF x
    <3>3. Goes(x, y) /\ y.pc = x.pc /\ y.work = w /\ y \in Request
      BY <2>1, <3>2 DEF Goes, SameLine, Request
    <3> HIDE DEF y
    <3> QED
      BY <3>1, <3>3, Put DEF x
  <2> QED
    BY <2>2, <2>3
<1>1. ReqOK
  BY DEF BaseInv
<1> USE <1>1
<1>2. ASSUME Start(e), NEW r \in Requests, r = entries[e].job[1]
      PROVE  /\ ReqOK' /\ Only(r) /\ Goes(req[r], req'[r]) /\ req'[r].pc = req[r].pc
             /\ entries[e].job # <<>> /\ req[r].work = "none"
             /\ \/ /\ req'[r].work = "ended" /\ entries' = Complete(e)
                   /\ busy' = busy /\ started' = started
                \/ /\ req'[r].work = "running" /\ entries' = entries
                   /\ ~req[r].cancelled /\ entries[e].state # "closed"
                   /\ busy' = busy \cup {OpOf[r]}
                   /\ started' = [started EXCEPT ![OpOf[r]] = @ + 1]
  <2> USE <1>2
  <2>1. entries[e].job # <<>> /\ req[r].work = "none"
    BY DEF Start
  <2>2. CASE /\ req' = [req EXCEPT ![r].work = "ended", ![r].result = "err"]
             /\ entries' = Complete(e) /\ busy' = busy /\ started' = started
    <3>1. /\ ReqOK' /\ Only(r) /\ Goes(req[r], req'[r])
          /\ req'[r].pc = req[r].pc /\ req'[r].work = "ended"
      BY <2>2, <1>effect DEF Works
    <3> QED
      BY <2>1, <2>2, <3>1
  <2>3. CASE /\ req' = [req EXCEPT ![r].work = "running"] /\ entries' = entries
             /\ ~req[r].cancelled /\ entries[e].state # "closed"
             /\ busy' = busy \cup {OpOf[r]}
             /\ started' = [started EXCEPT ![OpOf[r]] = @ + 1]
    <3>1. /\ ReqOK' /\ Only(r) /\ Goes(req[r], req'[r])
          /\ req'[r].pc = req[r].pc /\ req'[r].work = "running"
      BY <2>3, <1>effect DEF Works
    <3> QED
      BY <2>1, <2>3, <3>1
  <2> QED
    BY <2>2, <2>3 DEF Start, serverOps
<1>3. ASSUME Event(e), NEW r \in Requests, r = entries[e].job[1]
      PROVE  /\ ReqOK' /\ Only(r) /\ Goes(req[r], req'[r]) /\ req'[r].pc = req[r].pc
             /\ entries[e].job # <<>> /\ req[r].work = "running" /\ req'[r].work = "storing"
             /\ busy' \subseteq busy
  <2> USE <1>3
  <2> DEFINE x == req[r]
  <2>1. x \in Request /\ x.seq \in Nat /\ x.outs \in Nat
    BY Fields DEF ReqOK
  <2>2. entries[e].job # <<>> /\ x.work = "running"
    BY DEF Event
  <2>3. PICK kind \in {"output", "completed"} :
           /\ req' = [req EXCEPT ![r].work = "storing", ![r].seq = @ + 1,
                                 ![r].wn = x.seq + 1, ![r].wkind = kind,
                                 ![r].outs = IF kind = "output" THEN @ + 1 ELSE @]
           /\ busy' = IF kind = "completed" THEN busy \ {OpOf[r]} ELSE busy
    BY DEF Event
  <2> DEFINE n == x.seq + 1
             k == IF kind = "output" THEN x.outs + 1 ELSE x.outs
             y == [x EXCEPT !.work = "storing", !.seq = n, !.wn = n, !.wkind = kind, !.outs = k]
  <2>4. n \in Nat /\ k \in Nat /\ kind \in Kinds
    <3> HIDE DEF x
    <3>1. n \in Nat /\ x.outs + 1 \in Nat
      BY <2>1, SMT
    <3>2. kind \in Kinds
      BY <2>3 DEF Kinds
    <3> QED
      BY <2>1, <3>1, <3>2
  <2>5. req' = [req EXCEPT ![r] = y]
    BY <2>3
  <2> HIDE DEF x, n, k
  <2>6. Goes(x, y) /\ y.pc = x.pc /\ y.work = "storing" /\ y \in Request
    BY <2>1, <2>4 DEF Goes, SameLine, Request, Works
  <2> HIDE DEF y
  <2> QED
    BY <2>2, <2>3, <2>5, <2>6, Put DEF x
<1>4. ASSUME EventFails(e) \/ Stop(e), NEW r \in Requests, r = entries[e].job[1]
      PROVE  /\ ReqOK' /\ Only(r) /\ Goes(req[r], req'[r]) /\ req'[r].pc = req[r].pc
             /\ entries[e].job # <<>> /\ req[r].work \in Working /\ req'[r].work = "ended"
             /\ entries' = Complete(e)
  <2> USE <1>4
  <2>1. /\ entries[e].job # <<>> /\ req[r].work \in Working /\ entries' = Complete(e)
        /\ \E res \in {"ok", "err"} :
              req' = [req EXCEPT ![r].work = "ended", ![r].result = res]
    BY DEF EventFails, Stop, Working
  <2>2. "ended" \in Works
    BY DEF Works
  <2>3. /\ ReqOK' /\ Only(r) /\ Goes(req[r], req'[r])
        /\ req'[r].pc = req[r].pc /\ req'[r].work = "ended"
    BY <2>1, <2>2, <1>effect
  <2> QED
    BY <2>1, <2>3
<1>5. ASSUME Start(e)
      PROVE  BaseInv' /\ AllGoOn
  <2> USE <1>5
  <2> DEFINE r == entries[e].job[1]
             o == OpOf[r]
  <2>1. entries[e].job # <<>>
    BY DEF Start
  <2>2. /\ r \in Requests /\ WorksOn(entries[e], r) /\ req[r].entry # 0 /\ Own(req[r]) /\ o \in Ops
    BY <2>1, JobFacts
  <2>3. /\ ReqOK' /\ Only(r) /\ Goes(req[r], req'[r]) /\ req'[r].pc = req[r].pc
        /\ req[r].work = "none"
        /\ \/ /\ req'[r].work = "ended" /\ entries' = Complete(e) /\ started' = started
           \/ /\ req'[r].work = "running" /\ entries' = entries /\ entries[e].state # "closed"
              /\ started' = [started EXCEPT ![o] = @ + 1]
    BY <2>2, <1>2 DEF BaseInv
  <2>4. current' = current /\ journal' = journal /\ active' = active
    BY DEF Start, storeVars
  <2> HIDE DEF r
  <2>5. Own(req'[r]) /\ Forward(req[r], req'[r])
    BY <2>2, <2>3, JobGoesOn
  <2>6. AllGoOn /\ JournalInv' /\ DOMAIN journal \subseteq DOMAIN journal'
    BY <2>2, <2>3, <2>4, <2>5, Alone, SameJournal DEF BaseInv
  <2>7. Apart(req, req', r)
    BY <2>3 DEF Apart, Only
  <2>8. CASE req'[r].work = "ended" /\ entries' = Complete(e) /\ started' = started
    <3>1. Differs(entries, entries', e) /\ Finishes(entries[e], entries'[e])
      BY <2>1, <2>8, CompleteEntry DEF BaseInv
    <3>2. QueueInv'
      BY <2>2, <2>4, <2>7, <2>8, <3>1, FinishQueue DEF BaseInv, QueueInv
    <3> QED
      BY <2>3, <2>6, <2>8, <3>2, Carry
  <2>9. CASE /\ req'[r].work = "running" /\ entries' = entries /\ entries[e].state # "closed"
             /\ started' = [started EXCEPT ![o] = @ + 1]
    <3>1. QueueInv'
      <4>1. req'[r].entry = req[r].entry
        BY <2>3 DEF Goes
      <4> QED
        BY <2>2, <2>3, <2>4, <2>7, <2>9, <4>1, StartQueue DEF BaseInv, QueueInv
    <3>2. started \in [Ops -> Nat] /\ started[o] = 0
      <4>1. ASSUME started[o] # 0
            PROVE  FALSE
        <5>1. PICK q \in Requests : OpOf[q] = o /\ req[q].entry # 0 /\ req[q].work # "none"
          BY <2>2, <4>1 DEF BaseInv, StartInv
        <5>2. q = r
          BY <2>2, <5>1 DEF BaseInv, HoldInv, Held
        <5> QED
          BY <2>3, <5>1, <5>2
      <4> QED
        BY <4>1 DEF BaseInv, StartInv
    <3> HIDE DEF o
    <3>3. started' \in [Ops -> Nat] /\ started'[o] = 1 /\ \A p \in Ops : p # o => started'[p] = started[p]
      <4>1. 0 + 1 = 1 /\ 1 \in Nat
        BY SMT
      <4> QED
        BY <2>2, <2>9, <3>2, <4>1, SMT
    <3>4. \A q \in Requests : Forward(req[q], req'[q])
      BY <2>6 DEF AllGoOn
    <3>5. ASSUME NEW p \in Ops, started'[p] # 0
          PROVE  started'[p] = 1 /\ \E q \in Requests :
                    OpOf[q] = p /\ req'[q].entry # 0 /\ req'[q].work # "none"
      <4>1. CASE p = o
        BY <2>2, <2>3, <2>9, <3>3, <4>1 DEF Goes, o
      <4>2. CASE p # o
        <5>1. PICK q \in Requests : OpOf[q] = p /\ req[q].entry # 0 /\ req[q].work # "none"
          BY <3>3, <3>5, <4>2 DEF BaseInv, StartInv
        <5> QED
          BY <3>3, <3>4, <3>5, <4>2, <5>1 DEF BaseInv, StartInv, Forward
      <4> QED
        BY <4>1, <4>2
    <3>6. StartInv'
      BY <3>3, <3>5 DEF StartInv
    <3>7. HoldInv'
      <4>1. \A q \in Requests : Held(req'[q]) \/ req'[q].pc \in Reads => Begun(OpOf[q])'
        BY <2>4, <3>4 DEF BaseInv, HoldInv, Forward, Begun
      <4>2. \A p, q \in Requests : Held(req'[p]) /\ Held(req'[q]) /\ OpOf[p] = OpOf[q] => p = q
        BY <3>4 DEF BaseInv, HoldInv, Forward
      <4> QED
        BY <4>1, <4>2 DEF HoldInv
    <3> QED
      BY <2>3, <2>6, <3>1, <3>6, <3>7 DEF BaseInv, AllGoOn
  <2> QED
    BY <2>3, <2>8, <2>9
<1>6. ASSUME Event(e)
      PROVE  BaseInv' /\ AllGoOn
  <2> USE <1>6
  <2> DEFINE r == entries[e].job[1]
  <2>1. entries[e].job # <<>>
    BY DEF Event
  <2>2. r \in Requests /\ req[r].entry # 0 /\ Own(req[r])
    BY <2>1, JobFacts
  <2>3. /\ ReqOK' /\ Only(r) /\ Goes(req[r], req'[r]) /\ req'[r].pc = req[r].pc
        /\ req[r].work = "running" /\ req'[r].work = "storing"
    BY <2>2, <1>3 DEF BaseInv
  <2>4. /\ entries' = entries /\ current' = current /\ started' = started
        /\ journal' = journal /\ active' = active
    BY DEF Event, queueVars, storeVars
  <2> HIDE DEF r
  <2>5. Own(req'[r]) /\ Forward(req[r], req'[r]) /\ Calm(req[r], req'[r])
    BY <2>2, <2>3, JobGoesOn DEF Calm, Goes, Working
  <2> QED
    BY <2>2, <2>3, <2>4, <2>5, Alone, CarryCalm, SameJournal DEF BaseInv
<1>7. ASSUME EventFails(e) \/ Stop(e)
      PROVE  BaseInv' /\ AllGoOn
  <2> USE <1>7
  <2> DEFINE r == entries[e].job[1]
  <2>1. entries[e].job # <<>>
    BY DEF EventFails, Stop
  <2>2. /\ r \in Requests /\ WorksOn(entries[e], r) /\ req[r].entry # 0 /\ Own(req[r])
        /\ req[r] \in Request /\ Begun(OpOf[r])
    BY <2>1, JobFacts
  <2>3. /\ ReqOK' /\ Only(r) /\ Goes(req[r], req'[r]) /\ req'[r].pc = req[r].pc
        /\ req'[r].work = "ended" /\ entries' = Complete(e)
    BY <2>2, <1>4 DEF BaseInv
  <2>4. JournalInv' /\ DOMAIN journal \subseteq DOMAIN journal'
    <3>1. CASE EventFails(e)
      <4>1. StoreFails(OpOf[r], req[r].wn, req[r].wkind) /\ req[r].wkind \in Kinds
        BY <2>2, <3>1, Fields DEF EventFails
      <4> QED
        BY <2>2, <4>1, StoreFailsJournal
    <3>2. CASE Stop(e)
      <4>1. journal' = journal /\ active' = active
        BY <3>2 DEF Stop, storeVars
      <4> QED
        BY <4>1, SameJournal
    <3> QED
      BY <3>1, <3>2
  <2>5. current' = current /\ started' = started
    BY DEF EventFails, Stop, serverOps
  <2> HIDE DEF r
  <2>6. Own(req'[r]) /\ Forward(req[r], req'[r])
    BY <2>2, <2>3, JobGoesOn
  <2>7. QueueInv'
    <3>1. Differs(entries, entries', e) /\ Finishes(entries[e], entries'[e])
      BY <2>1, <2>3, CompleteEntry DEF BaseInv
    <3>2. Apart(req, req', r)
      BY <2>3 DEF Apart, Only
    <3> QED
      BY <2>2, <2>3, <2>5, <3>1, <3>2, FinishQueue DEF BaseInv, QueueInv
  <2> QED
    BY <2>2, <2>3, <2>4, <2>5, <2>6, <2>7, Alone, Carry DEF BaseInv
<1>8. BaseInv' /\ AllGoOn
  BY <1>5, <1>6, <1>7
<1>9. FlowInv'
  <2> USE <1>8
  <2> DEFINE r == entries[e].job[1]
  <2>1. entries[e].job # <<>>
    BY DEF Start, Event, EventFails, Stop
  <2>2. r \in Requests /\ req[r] \in Request /\ Begun(OpOf[r])
    BY <2>1, JobFacts
  <2>3. /\ Only(r) /\ Goes(req[r], req'[r]) /\ req'[r].pc = req[r].pc
    BY <2>2, <1>2, <1>3, <1>4 DEF BaseInv
  <2>4. Steady
    <3>1. CASE EventFails(e)
      <4>1. StoreFails(OpOf[r], req[r].wn, req[r].wkind) /\ req[r].wkind \in Kinds
        BY <2>2, <3>1, Fields DEF EventFails
      <4> QED
        BY <2>2, <4>1, LostStore
    <3>2. CASE Start(e) \/ Event(e) \/ Stop(e)
      <4>1. journal' = journal /\ active' = active /\ unanswered' = unanswered
        BY <3>2 DEF Start, Event, Stop, storeVars
      <4> QED
        BY <4>1, StillStore DEF BaseInv
    <3> QED
      BY <3>1, <3>2
  <2>5. Held(req'[r]) => Held(req[r])
    BY <2>2 DEF AllGoOn, Forward
  <2> HIDE DEF r
  <2> QED
    BY <2>2, <2>3, <2>4, <2>5, FlowAlone DEF Goes
<1> QED
  BY <1>8, <1>9

\* The Agent Runtime restarts: handlers and goroutines are gone, the journals stay.
LEMMA RestartStep ==
    ASSUME BaseInv, FlowInv, Restart
    PROVE  BaseInv' /\ FlowInv'
<1>dies. ASSUME NEW x \in Request, NEW y,
                y = [x EXCEPT !.pc = "done", !.work = "ended", !.sub = "closed",
                              !.buf = <<>>, !.gone = TRUE, !.cancelled = TRUE]
         PROVE  /\ y \in Request /\ y.pc = "done" /\ y.work = "ended" /\ y.sub = "closed"
                /\ y.buf = <<>> /\ y.gone /\ y.cancelled
                /\ y.entry = x.entry /\ y.cursor = x.cursor /\ y.got = x.got
  <2> USE <1>dies
  <2>1. <<>> \in Seq(Nat)
    BY SMT
  <2> QED
    BY <2>1 DEF Request, Pcs, Works, Subs
<1>1. ReqOK
  BY DEF BaseInv
<1> USE <1>1
<1>2. /\ ReqOK'
      /\ \A q \in Requests :
            \/ req[q].pc = "idle" /\ req'[q] = req[q]
            \/ /\ req'[q].pc = "done" /\ req'[q].work = "ended" /\ req'[q].sub = "closed"
               /\ req'[q].buf = <<>> /\ req'[q].gone /\ req'[q].cancelled
               /\ req'[q].entry = req[q].entry /\ req'[q].cursor = req[q].cursor
               /\ req'[q].got = req[q].got /\ req[q].pc # "idle"
  <2>1. \A q \in Requests : req[q] \in Request
    BY DEF ReqOK
  <2>2. /\ req' = [q \in Requests |-> req'[q]]
        /\ \A q \in Requests :
             \/ req[q].pc = "idle" /\ req'[q] = req[q]
             \/ req[q].pc # "idle" /\
                req'[q] = [req[q] EXCEPT !.pc = "done", !.work = "ended", !.sub = "closed",
                                         !.buf = <<>>, !.gone = TRUE, !.cancelled = TRUE]
    BY DEF Restart
  <2>3. ASSUME NEW q \in Requests
        PROVE  /\ req'[q] \in Request
               /\ \/ req[q].pc = "idle" /\ req'[q] = req[q]
                  \/ /\ req'[q].pc = "done" /\ req'[q].work = "ended" /\ req'[q].sub = "closed"
                     /\ req'[q].buf = <<>> /\ req'[q].gone /\ req'[q].cancelled
                     /\ req'[q].entry = req[q].entry /\ req'[q].cursor = req[q].cursor
                     /\ req'[q].got = req[q].got /\ req[q].pc # "idle"
    <3>1. CASE req[q].pc = "idle"
      BY <2>1, <2>2, <3>1
    <3>2. CASE req[q].pc # "idle"
      <4> DEFINE x == req[q]
                 y == [x EXCEPT !.pc = "done", !.work = "ended", !.sub = "closed",
                                !.buf = <<>>, !.gone = TRUE, !.cancelled = TRUE]
      <4>1. req'[q] = y /\ x \in Request
        BY <2>1, <2>2, <3>2
      <4> HIDE DEF x
      <4>2. /\ y \in Request /\ y.pc = "done" /\ y.work = "ended" /\ y.sub = "closed"
            /\ y.buf = <<>> /\ y.gone /\ y.cancelled
            /\ y.entry = x.entry /\ y.cursor = x.cursor /\ y.got = x.got
        BY <4>1, <1>dies
      <4> HIDE DEF y
      <4> QED
        BY <3>2, <4>1, <4>2 DEF x
    <3> QED
      BY <3>1, <3>2
  <2>4. ReqOK'
    BY <2>2, <2>3 DEF ReqOK
  <2> QED
    BY <2>3, <2>4
<1>3. BaseInv' /\ AllGoOn
  <2>1. ReqOK' /\ \A q \in Requests :
           \/ req[q].pc = "idle" /\ req'[q] = req[q]
           \/ /\ req'[q].pc = "done" /\ req'[q].work = "ended" /\ req'[q].sub = "closed"
              /\ req'[q].buf = <<>> /\ req'[q].entry = req[q].entry /\ req'[q].cursor = req[q].cursor
    BY <1>2 DEF BaseInv
  <2>2. /\ current' = 0 /\ entries' = <<>> /\ journal' = journal /\ active' = {}
        /\ started' = started
    BY DEF Restart, serverOps
  <2>3. Len(<<>>) <= SubscriberSize
    BY SessionAssumption, SMT
  <2>4. ASSUME NEW q \in Requests
        PROVE  /\ Own(req'[q]) /\ Forward(req[q], req'[q])
               /\ req'[q].work = "ended" \/ (req'[q].entry = 0 /\ req'[q].work = "none")
    <3>1. Own(req[q])
      BY OfRequest
    <3>2. CASE req[q].pc = "idle" /\ req'[q] = req[q]
      BY <3>1, <3>2 DEF Own, Forward, Held, Fresh
    <3>3. CASE /\ req'[q].pc = "done" /\ req'[q].work = "ended" /\ req'[q].sub = "closed"
               /\ req'[q].buf = <<>> /\ req'[q].entry = req[q].entry /\ req'[q].cursor = req[q].cursor
      BY <2>3, <3>1, <3>3 DEF Own, Forward, Held, Fresh, Resuming, Submits, Reads
    <3> QED
      BY <2>1, <3>2, <3>3
  <2>5. AllGoOn
    BY <2>4 DEF AllGoOn, OwnInv
  <2>6. QueueInv'
    BY <2>2, <2>4, NoQueue DEF QueueInv
  <2>7. JournalInv' /\ DOMAIN journal \subseteq DOMAIN journal'
    BY <2>2 DEF BaseInv, JournalInv
  <2> QED
    BY <2>1, <2>2, <2>5, <2>6, <2>7, Carry
<1>4. FlowInv'
  <2> USE <1>3
  <2>1. \A q \in Requests :
           \/ req[q].pc = "idle" /\ req'[q] = req[q]
           \/ /\ req'[q].pc = "done" /\ req'[q].gone /\ req'[q].cursor = req[q].cursor
              /\ req'[q].got = req[q].got
    BY <1>2 DEF BaseInv
  <2>2. journal' = journal /\ active' = {} /\ unanswered' = unanswered
    BY DEF Restart
  <2>3. \A p : Settled(p)
    <3>1. \A k \in Nat : k <= k
      BY SMT
    <3>2. \A p : Count(p) \in Nat /\ Count(p)' = Count(p)
      BY <2>2, Counts DEF BaseInv, Count, Begun
    <3> QED
      BY <2>2, <3>1, <3>2 DEF Settled
  <2>4. ASSUME NEW q \in Requests
        PROVE  Quiet(req[q], req'[q]) /\ Active(req[q], OpOf[q])'
    <3>1. CASE req[q].pc = "idle" /\ req'[q] = req[q]
      <4>1. ~Held(req[q])
        BY <3>1, OfRequest DEF Own, Held, Fresh
      <4> QED
        BY <3>1, <4>1 DEF Quiet, Active
    <3>2. CASE /\ req'[q].pc = "done" /\ req'[q].gone /\ req'[q].cursor = req[q].cursor
               /\ req'[q].got = req[q].got
      BY <3>2 DEF Quiet, Active, Live
    <3> QED
      BY <2>1, <3>1, <3>2
  <2>5. ASSUME NEW q \in Requests
        PROVE  StreamOK(req'[q], Count(OpOf[q])', OpOf[q], unanswered')
    BY <2>3, <2>4, StreamQuiet DEF BaseInv, FlowInv
  <2> QED
    BY <2>4, <2>5 DEF FlowInv, StreamInv, ActiveInv
<1> QED
  BY <1>3, <1>4

\* The entry that takes its next job.
LEMMA TakesEntry ==
    ASSUME QueueInv, NEW e \in 1..Len(entries), Take(e)
    PROVE  Differs(entries, entries', e) /\ Takes(entries[e], entries'[e])
<1> DEFINE x == entries[e]
           js == Tail(x.jobs)
           j == <<Head(x.jobs)>>
           y == [x EXCEPT !.job = j, !.jobs = js]
<1>1. x \in Entry /\ entries \in Seq(Entry) /\ x.job = <<>> /\ x.jobs # <<>>
  BY Entries DEF QueueInv, Take
<1>2. js \in Seq(Requests) /\ j \in Seq(Requests)
  <2>1. x.jobs \in Seq(Requests)
    BY <1>1, EntryFields
  <2> QED
    BY <1>1, <2>1, SMT
<1>3. entries' = [entries EXCEPT ![e] = y]
  BY DEF Take
<1>4. js = Tail(x.jobs) /\ j = <<Head(x.jobs)>>
  OBVIOUS
<1> HIDE DEF x, js, j
<1>5. y \in Entry /\ y.state = x.state /\ y.pending = x.pending /\ y.jobs = js /\ y.job = j
  BY <1>1, <1>2 DEF Entry
<1> HIDE DEF y
<1>6. Differs(entries, entries', e) /\ entries'[e] = y
  <2>1. Differs(entries, [entries EXCEPT ![e] = y], e) /\ [entries EXCEPT ![e] = y][e] = y
    BY <1>1, <1>5, PutEntry
  <2> QED
    BY <1>3, <2>1
<1> QED
  BY <1>1, <1>4, <1>5, <1>6 DEF Takes, x

\* Take: the requests are left alone.
LEMMA TakeKeeps ==
    ASSUME BaseInv, NEW e \in 1..Len(entries), Take(e)
    PROVE  BaseInv' /\ AllGoOn
<1>queue. ASSUME NEW es, NEW fs, NEW c, NEW R, NEW k \in 1..Len(es),
                 Queue(es, c, R), Differs(es, fs, k), Takes(es[k], fs[k])
          PROVE  Queue(fs, c, R)
  <2> USE <1>queue
  <2>take. ASSUME NEW x \in Entry, NEW y, NEW d, NEW P, NEW g, EntryOK(x, d, P, g), Takes(x, y)
           PROVE  /\ EntryOK(y, d, P, g)
                  /\ \A q \in Requests : Holds(x, q) => Holds(y, q)
    <3> USE <2>take
    <3> DEFINE js == x.jobs
               ks == Tail(js)
               n == Len(js)
               m == Len(ks)
               h == <<Head(js)>>
    <3>1. /\ js \in Seq(Requests) /\ n \in Nat /\ QueueSize \in Nat /\ js # <<>>
      BY EntryFields, SessionAssumption DEF Takes
    <3>2. /\ m \in Nat /\ n = m + 1 /\ 1 \in 1..n /\ h # <<>> /\ h[1] = js[1] /\ Len(h) = 1
          /\ \A i \in 1..m : ks[i] = js[i + 1] /\ i + 1 \in 1..n /\ i + 1 # 1 /\ i \in Nat
          /\ \A i \in 1..n : i = 1 \/ (i - 1 \in 1..m /\ ks[i - 1] = js[i])
          /\ Len(<<>>) = 0
      <4>1. m \in Nat /\ n = m + 1 /\ 1 \in 1..n /\ Len(<<>>) = 0
        BY <3>1, SMT
      <4>2. h # <<>> /\ h[1] = js[1] /\ Len(h) = 1
        BY <3>1, SMT
      <4>3. \A i \in 1..m : ks[i] = js[i + 1]
        BY <3>1, SMT
      <4> HIDE DEF n, m, ks, js
      <4>4. \A i \in 1..m : i + 1 \in 1..n /\ i + 1 # 1 /\ i \in Nat
        BY <4>1, SMT
      <4>5. \A i \in 1..n : i = 1 \/ (i - 1 \in 1..m /\ (i - 1) + 1 = i)
        BY <4>1, SMT
      <4>6. ASSUME NEW i \in 1..n
            PROVE  i = 1 \/ (i - 1 \in 1..m /\ ks[i - 1] = js[i])
        <5> SUFFICES ASSUME i # 1
                     PROVE  i - 1 \in 1..m /\ ks[i - 1] = js[i]
          OBVIOUS
        <5>1. i - 1 \in 1..m /\ (i - 1) + 1 = i
          BY <4>5
        <5>2. ks[i - 1] = js[(i - 1) + 1]
          BY <4>3, <5>1
        <5> QED
          BY <5>1, <5>2
      <4> QED
        BY <4>1, <4>2, <4>3, <4>4, <4>6
    <3>3. /\ x.jobs = js /\ y.jobs = ks /\ Len(js) = n /\ Len(ks) = m
          /\ y.job = h /\ x.job = <<>> /\ y.state = x.state /\ y.pending = x.pending
      BY DEF Takes
    <3> HIDE DEF js, ks, n, m, h
    <3>4. /\ \A i \in 1..n : P[js[i]].entry = g /\ P[js[i]].work = "none"
          /\ \A i, j \in 1..n : js[i] = js[j] => i = j
      BY <3>3 DEF EntryOK, AllWait, Waits, Distinct
    <3>5. Counted(y)
      <4>1. n <= QueueSize /\ x.pending = n + 0
        BY <3>2, <3>3 DEF EntryOK, Counted
      <4>2. m <= QueueSize /\ x.pending = m + 1 /\ 1 <= 1
        BY <3>1, <3>2, <4>1, SMT
      <4> QED
        BY <3>2, <3>3, <4>2 DEF Counted
    <3>6. Distinct(y.jobs)
      <4>1. \A i, j \in 1..m : ks[i] = ks[j] => i + 1 = j + 1
        BY <3>2, <3>4, SMT
      <4>2. \A i, j \in Nat : i + 1 = j + 1 => i = j
        BY SMT
      <4> QED
        BY <3>2, <3>3, <4>1, <4>2, SMT DEF Distinct
    <3>7. AllWait(y, P, g)
      <4>1. ASSUME NEW i \in 1..m
            PROVE  Waits(y, P, g, i)
        <5>1. P[ks[i]].entry = g /\ P[ks[i]].work = "none" /\ ks[i] # js[1]
          <6> DEFINE j == i + 1
          <6>1. ks[i] = js[j] /\ j \in 1..n /\ j # 1
            BY <3>2
          <6> HIDE DEF j
          <6> QED
            BY <3>2, <3>4, <6>1, SMT
        <5> QED
          BY <3>2, <3>3, <5>1 DEF Waits
      <4> QED
        BY <3>3, <4>1 DEF AllWait
    <3>8. Serves(y, P, g)
      BY <3>2, <3>3, <3>4, SMT DEF Serves
    <3>9. ASSUME NEW q \in Requests, Holds(x, q)
          PROVE  Holds(y, q)
      <4>1. PICK i \in 1..n : js[i] = q
        BY <3>3, <3>9 DEF Holds, WorksOn
      <4>2. CASE i = 1
        BY <3>2, <3>3, <4>1, <4>2 DEF Holds, WorksOn
      <4>3. CASE i # 1
        BY <3>2, <3>3, <4>1, <4>3, SMT DEF Holds
      <4> QED
        BY <4>2, <4>3
    <3> QED
      BY <3>3, <3>5, <3>6, <3>7, <3>8, <3>9 DEF EntryOK
  <2>1. /\ es[k] \in Entry /\ EntryOK(es[k], c, R, k) /\ fs \in Seq(Entry) /\ Len(fs) = Len(es)
        /\ Len(es) \in Nat /\ c \in 0..Len(es)
    BY Entries DEF Differs
  <2>2. /\ EntryOK(fs[k], c, R, k)
        /\ \A q \in Requests : Holds(es[k], q) => Holds(fs[k], q)
    BY <2>1, <2>take
  <2>3. ASSUME NEW f \in 1..Len(es)
        PROVE  EntryOK(fs[f], c, R, f)
    BY <2>2, Entries DEF Differs
  <2>4. ASSUME NEW q \in Requests
        PROVE  Queued(fs, c, R, q)
    <3>1. Queued(es, c, R, q) /\ ~WorksOn(es[k], q)
      BY Entries DEF WorksOn, Takes
    <3> QED
      BY <2>1, <2>2, <3>1, OtherQueued
  <2> QED
    BY <2>1, <2>3, <2>4 DEF Queue
<1>1. Differs(entries, entries', e) /\ Takes(entries[e], entries'[e])
  BY TakesEntry DEF BaseInv
<1>2. /\ req' = req /\ current' = current /\ started' = started
      /\ journal' = journal /\ active' = active
  BY DEF Take, storeVars, serverOps
<1>3. QueueInv'
  BY <1>1, <1>2, <1>queue DEF BaseInv, QueueInv
<1> QED
  BY <1>2, <1>3, SameJournal, SameRequests DEF BaseInv, ReqOK, OwnInv, HoldInv, StartInv, Begun

------------------------------------------------------------------------------
(* The reconciler and the crashes.                                          *)

\* Contexts end: what CloseQueue and ServerRestart do to the requests.
LEMMA CancelEffect ==
    ASSUME ReqOK, NEW S, req' = [r \in Requests |-> IF r \in S
                                    THEN [req[r] EXCEPT !.cancelled = TRUE] ELSE req[r]]
    PROVE  /\ ReqOK'
           /\ \A q \in Requests :
                 /\ Goes(req[q], req'[q]) /\ req'[q].pc = req[q].pc
                 /\ req'[q].work = req[q].work
                 /\ q \in S => req'[q].cancelled
<1>1. ASSUME NEW q \in Requests
      PROVE  /\ Goes(req[q], req'[q]) /\ req'[q].pc = req[q].pc
             /\ req'[q].work = req[q].work /\ (q \in S => req'[q].cancelled)
  <2> DEFINE x == req[q]
             y == req'[q]
  <2>1. x \in Request
    BY DEF ReqOK
  <2>2. \/ q \in S /\ y = [x EXCEPT !.cancelled = TRUE]
        \/ q \notin S /\ y = x
    OBVIOUS
  <2> HIDE DEF x, y
  <2>3. Goes(x, y) /\ y.pc = x.pc /\ y.work = x.work /\ (q \in S => y.cancelled)
    BY <2>1, <2>2 DEF Goes, SameLine, Request
  <2> QED
    BY <2>3 DEF x, y
<1>2. \A q \in Requests : req'[q] \in Request
  BY <1>1 DEF Goes
<1>3. req' = [q \in Requests |-> req'[q]]
  OBVIOUS
<1>4. ReqOK'
  BY <1>2, <1>3 DEF ReqOK
<1> QED
  BY <1>1, <1>4

\* The current entry stops accepting.
LEMMA DrainQueue ==
    ASSUME NEW es, NEW fs, NEW c \in 1..Len(es), NEW R, Queue(es, c, R), Differs(es, fs, c),
           fs[c].jobs = es[c].jobs, fs[c].job = es[c].job, fs[c].pending = es[c].pending
    PROVE  Queue(fs, c, R)
<1>1. fs \in Seq(Entry) /\ Len(fs) = Len(es) /\ Len(es) \in Nat /\ c \in 0..Len(es)
  BY Entries DEF Differs
<1>2. EntryOK(fs[c], c, R, c)
  <2>1. EntryOK(es[c], c, R, c)
    BY Entries
  <2>2. Counted(fs[c])
    BY <2>1 DEF EntryOK, Counted
  <2>3. AllWait(fs[c], R, c)
    BY <2>1 DEF EntryOK, AllWait, Waits
  <2>4. Serves(fs[c], R, c)
    BY <2>1 DEF EntryOK, Serves
  <2> QED
    BY <2>1, <2>2, <2>3, <2>4 DEF EntryOK
<1>3. \A f \in 1..Len(es) : EntryOK(fs[f], c, R, f)
  BY <1>2, Entries DEF Differs
<1>4. ASSUME NEW q \in Requests
      PROVE  Queued(fs, c, R, q)
  <2>1. Queued(es, c, R, q)
    BY Entries
  <2>2. (Holds(es[c], q) => Holds(fs[c], q)) /\ (WorksOn(es[c], q) => WorksOn(fs[c], q))
    BY DEF Holds, WorksOn
  <2> QED
    BY <1>1, <2>1, <2>2, OtherQueued
<1> QED
  BY <1>1, <1>3, <1>4 DEF Queue

\* A step of the reconciler or of the user that leaves the queue alone.
LEMMA StillKeeps ==
    ASSUME BaseInv, req' = req, current' = current, entries' = entries, journal' = journal,
           active' = active, started' = started
    PROVE  BaseInv' /\ AllGoOn
BY SameRequests DEF BaseInv, ReqOK, OwnInv, QueueInv, HoldInv, StartInv, JournalInv, Begun

\* A step that changes the queue only.
LEMMA QueueKeeps ==
    ASSUME BaseInv, req' = req, QueueInv', journal' = journal, active' = active, started' = started
    PROVE  BaseInv' /\ AllGoOn
BY SameRequests DEF BaseInv, ReqOK, OwnInv, HoldInv, StartInv, JournalInv, Begun

\* The state of the current entry changes.
LEMMA StateEntry ==
    ASSUME QueueInv, current # 0, NEW s \in {"open", "draining", "closed"}, NEW fs,
           fs = [entries EXCEPT ![current].state = s]
    PROVE  /\ current \in 1..Len(entries) /\ Differs(entries, fs, current) /\ fs[current].state = s
           /\ fs[current].jobs = entries[current].jobs /\ fs[current].job = entries[current].job
           /\ fs[current].pending = entries[current].pending
<1> DEFINE x == entries[current]
           y == [x EXCEPT !.state = s]
<1>1. current \in 1..Len(entries) /\ entries \in Seq(Entry) /\ x \in Entry
  <2>1. Len(entries) \in Nat /\ current \in 0..Len(entries)
    BY Entries DEF QueueInv
  <2>2. current \in 1..Len(entries)
    BY <2>1, SMT
  <2> QED
    BY <2>2, Entries DEF QueueInv
<1>2. fs = [entries EXCEPT ![current] = y]
  OBVIOUS
<1> HIDE DEF x
<1>3. y \in Entry /\ y.state = s /\ y.jobs = x.jobs /\ y.job = x.job /\ y.pending = x.pending
  BY <1>1 DEF Entry
<1> HIDE DEF y
<1>4. Differs(entries, fs, current) /\ fs[current] = y
  <2>1. /\ Differs(entries, [entries EXCEPT ![current] = y], current)
        /\ [entries EXCEPT ![current] = y][current] = y
    BY <1>1, <1>3, PutEntry
  <2> QED
    BY <1>2, <2>1
<1> QED
  BY <1>1, <1>3, <1>4 DEF x

\* Drain.
LEMMA DrainKeeps ==
    ASSUME BaseInv, Drain
    PROVE  BaseInv' /\ AllGoOn
<1>1. /\ req' = req /\ current' = current /\ journal' = journal /\ active' = active
      /\ started' = started
  BY DEF Drain, storeVars, serverOps
<1>2. CASE entries' = entries
  BY <1>1, <1>2, StillKeeps
<1>3. CASE current # 0 /\ entries' = [entries EXCEPT ![current].state = "draining"]
  <2>1. /\ current \in 1..Len(entries) /\ Differs(entries, entries', current)
        /\ entries'[current].jobs = entries[current].jobs
        /\ entries'[current].job = entries[current].job
        /\ entries'[current].pending = entries[current].pending
    BY <1>3, StateEntry DEF BaseInv
  <2>2. QueueInv'
    BY <1>1, <2>1, DrainQueue DEF BaseInv, QueueInv
  <2> QED
    BY <1>1, <2>2, QueueKeeps
<1> QED
  BY <1>2, <1>3 DEF Drain

\* Recover: a missing entry is made.
LEMMA RecoverKeeps ==
    ASSUME BaseInv, Recover
    PROVE  BaseInv' /\ AllGoOn
<1>1. req' = req /\ journal' = journal /\ active' = active /\ started' = started
  BY DEF Recover, storeVars, serverOps
<1>2. CASE entries' = entries /\ current' = current
  BY <1>1, <1>2, StillKeeps
<1>3. CASE /\ current = 0 /\ entries' = Append(entries, NoEntry) /\ current' = Len(entries) + 1
  BY <1>1, <1>3, OpenQueue, QueueKeeps DEF BaseInv, QueueInv
<1> QED
  BY <1>2, <1>3 DEF Recover, queueVars

\* The contexts of some requests end.
LEMMA CancelKeeps ==
    ASSUME BaseInv, NEW S, QueueInv', journal' = journal, active' = active, started' = started,
           req' = [r \in Requests |-> IF r \in S
                      THEN [req[r] EXCEPT !.cancelled = TRUE] ELSE req[r]]
    PROVE  BaseInv' /\ AllGoOn
<1>1. ReqOK' /\ \A q \in Requests : /\ Goes(req[q], req'[q]) /\ req'[q].pc = req[q].pc
                                    /\ req'[q].work = req[q].work
  BY CancelEffect DEF BaseInv
<1>2. \A q \in Requests : Own(req'[q]) /\ Forward(req[q], req'[q])
  <2>1. ASSUME NEW q \in Requests
        PROVE  Own(req'[q]) /\ Forward(req[q], req'[q])
    <3>1. Onward(req[q].pc, req'[q].pc)
      BY <1>1 DEF Onward
    <3> QED
      BY <1>1, <3>1, OfRequest, GoesOn
  <2> QED
    BY <2>1
<1>3. AllGoOn
  BY <1>2 DEF AllGoOn, OwnInv
<1> QED
  BY <1>1, <1>3, Carry, SameJournal

\* ServerRestart.
LEMMA ServerRestartKeeps ==
    ASSUME BaseInv, ServerRestart
    PROVE  BaseInv' /\ AllGoOn
<1> DEFINE S == {r \in Requests : req[r].work = "running"}
<1>1. /\ entries' = entries /\ current' = current /\ journal' = journal /\ active' = active
      /\ started' = started
  BY DEF ServerRestart, queueVars, storeVars
<1>2. req' = [r \in Requests |-> IF r \in S
                 THEN [req[r] EXCEPT !.cancelled = TRUE] ELSE req[r]]
  BY DEF ServerRestart
<1> HIDE DEF S
<1>3. \A q \in Requests : Goes(req[q], req'[q]) /\ req'[q].work = req[q].work
  BY <1>2, CancelEffect DEF BaseInv
<1>4. \A q \in Requests : Calm(req[q], req'[q])
  BY <1>3 DEF Calm, Goes
<1>5. QueueInv'
  BY <1>1, <1>4, CalmQueue DEF BaseInv, QueueInv
<1> QED
  BY <1>1, <1>2, <1>5, CancelKeeps

\* CloseQueue.
LEMMA CloseQueueKept ==
    ASSUME BaseInv, CloseQueue
    PROVE  BaseInv' /\ AllGoOn
<1>queue. ASSUME NEW es, NEW fs, NEW c \in 1..Len(es), NEW R, NEW S, Queue(es, c, R),
                 Differs(es, fs, c), fs[c].state = "closed",
                 fs[c].jobs = es[c].jobs, fs[c].job = es[c].job, fs[c].pending = es[c].pending,
                 \A q \in Requests : /\ S[q].entry = R[q].entry /\ S[q].work = R[q].work
                                     /\ R[q].cancelled => S[q].cancelled
                                     /\ WorksOn(es[c], q) /\ R[q].work \in Working => S[q].cancelled
          PROVE  Queue(fs, 0, S)
  <2> USE <1>queue
  <2>1. Queue(fs, c, S)
    <3>1. Queue(fs, c, R)
      BY DrainQueue
    <3>2. \A q \in Requests : Calm(R[q], S[q])
      BY DEF Calm
    <3> QED
      BY <3>1, <3>2, CalmQueue
  <2>2. fs \in Seq(Entry) /\ Len(fs) = Len(es) /\ Len(fs) \in Nat
    BY <2>1, Entries DEF Differs
  <2>3. ASSUME NEW f \in 1..Len(fs)
        PROVE  EntryOK(fs[f], 0, S, f)
    <3>1. EntryOK(fs[f], c, S, f)
      BY <2>1, Entries
    <3>2. f # c => fs[f].state = "closed"
      BY <3>1, EntryFields, <2>1 DEF EntryOK
    <3> QED
      BY <3>1, <3>2 DEF EntryOK
  <2>4. ASSUME NEW q \in Requests
        PROVE  Queued(fs, 0, S, q)
    <3>1. Queued(fs, c, S, q) /\ Queued(es, c, R, q)
      BY <2>1, Entries
    <3>2. ~(S[q].work \in Working /\ ~S[q].cancelled)
      BY <3>1 DEF Queued
    <3> QED
      BY <3>1, <3>2 DEF Queued
  <2>5. 0 \in 0..Len(fs)
    BY <2>2, SMT
  <2> QED
    BY <2>2, <2>3, <2>4, <2>5 DEF Queue
<1> DEFINE S == {r \in Requests : <<r>> = entries[current].job /\ req[r].work \in Working}
<1>1. journal' = journal /\ active' = active /\ started' = started
  BY DEF CloseQueue, storeVars, serverOps
<1>2. CASE req' = req /\ entries' = entries /\ current' = current
  BY <1>1, <1>2, StillKeeps
<1>3. CASE /\ current # 0 /\ current' = 0
           /\ entries' = [entries EXCEPT ![current].state = "closed"]
           /\ req' = [r \in Requests |-> IF r \in S
                         THEN [req[r] EXCEPT !.cancelled = TRUE] ELSE req[r]]
  <2>1. /\ current \in 1..Len(entries) /\ Differs(entries, entries', current)
        /\ entries'[current].state = "closed"
        /\ entries'[current].jobs = entries[current].jobs
        /\ entries'[current].job = entries[current].job
        /\ entries'[current].pending = entries[current].pending
    BY <1>3, StateEntry DEF BaseInv
  <2>2. ASSUME NEW q \in Requests
        PROVE  WorksOn(entries[current], q) /\ req[q].work \in Working => q \in S
    <3>1. entries[current] \in Entry /\ EntryOK(entries[current], current, req, current)
      BY <2>1, Entries DEF BaseInv, QueueInv
    <3> DEFINE j == entries[current].job
    <3>2. j \in Seq(Requests) /\ Len(j) <= 1
      BY <3>1, EntryFields DEF EntryOK, Counted
    <3> HIDE DEF j
    <3>3. ASSUME j # <<>>, j[1] = q
          PROVE  <<q>> = j
      <4>1. Len(j) \in Nat /\ Len(j) # 0
        BY <3>2, <3>3, SMT
      <4>2. Len(j) = 1
        BY <3>2, <4>1, SMT
      <4>3. <<q>> \in Seq(Requests) /\ Len(<<q>>) = 1 /\ <<q>>[1] = q
        BY SMT
      <4>4. \A i \in 1..Len(j) : i = 1
        BY <4>2, SMT
      <4> QED
        BY <3>2, <3>3, <4>2, <4>3, <4>4, SMT
    <3> QED
      BY <3>3 DEF WorksOn, j
  <2> HIDE DEF S
  <2>3. \A q \in Requests : /\ Goes(req[q], req'[q]) /\ req'[q].work = req[q].work
                            /\ q \in S => req'[q].cancelled
    BY <1>3, CancelEffect DEF BaseInv
  <2>4. \A q \in Requests :
           /\ req'[q].entry = req[q].entry /\ req'[q].work = req[q].work
           /\ req[q].cancelled => req'[q].cancelled
           /\ WorksOn(entries[current], q) /\ req[q].work \in Working => req'[q].cancelled
    BY <2>2, <2>3 DEF Goes
  <2>5. QueueInv'
    BY <1>3, <2>1, <2>4, <1>queue DEF BaseInv, QueueInv
  <2> QED
    BY <1>1, <1>3, <2>5, CancelKeeps
<1> QED
  BY <1>2, <1>3 DEF CloseQueue, queueVars, Working

\* Steps that leave the requests and the journals alone.
LEMMA StillFlows ==
    ASSUME BaseInv, BaseInv', FlowInv, req' = req, journal' = journal, active' = active,
           unanswered' = unanswered
    PROVE  FlowInv'
<1>1. AllStay
  BY DEF AllStay, Stays, Ages, Quiet
<1> QED
  BY <1>1, StillStore, FlowQuiet DEF BaseInv

\* CloseQueue and ServerRestart.
LEMMA CloseFlows ==
    ASSUME BaseInv, BaseInv', FlowInv, CloseQueue \/ ServerRestart
    PROVE  FlowInv'
<1>cancel. ASSUME BaseInv, BaseInv', FlowInv, NEW S, journal' = journal, active' = active,
                  unanswered' = unanswered,
                  req' = [r \in Requests |-> IF r \in S
                             THEN [req[r] EXCEPT !.cancelled = TRUE] ELSE req[r]]
           PROVE  FlowInv'
  <2> USE <1>cancel
  <2>1. \A q \in Requests : Goes(req[q], req'[q]) /\ req'[q].pc = req[q].pc
    BY CancelEffect DEF BaseInv
  <2>2. AllStay
    <3>1. ASSUME NEW q \in Requests
          PROVE  Stays(req[q], req'[q])
      <4>1. /\ SameLine(req[q], req'[q]) /\ req'[q].gone = req[q].gone /\ req'[q].pc = req[q].pc
            /\ req'[q].entry = req[q].entry
        BY <2>1 DEF Goes
      <4>2. Held(req'[q]) => Held(req[q])
        BY <4>1 DEF Held
      <4> QED
        BY <4>1, <4>2, LineStays
    <3> QED
      BY <3>1 DEF AllStay
  <2> QED
    BY <2>2, StillStore, FlowQuiet DEF BaseInv
<1>1. journal' = journal /\ active' = active /\ unanswered' = unanswered
  BY DEF CloseQueue, ServerRestart, storeVars
<1>2. CASE req' = req
  BY <1>1, <1>2, StillFlows
<1>3. CASE ServerRestart
  <2> DEFINE S == {r \in Requests : req[r].work = "running"}
  <2>1. req' = [r \in Requests |-> IF r \in S
                   THEN [req[r] EXCEPT !.cancelled = TRUE] ELSE req[r]]
    BY <1>3 DEF ServerRestart
  <2> HIDE DEF S
  <2> QED
    BY <1>1, <2>1, <1>cancel
<1>4. CASE CloseQueue /\ req' # req
  <2> DEFINE S == {r \in Requests : <<r>> = entries[current].job /\ req[r].work \in Working}
  <2>1. req' = [r \in Requests |-> IF r \in S
                   THEN [req[r] EXCEPT !.cancelled = TRUE] ELSE req[r]]
    BY <1>4 DEF CloseQueue, Working
  <2> HIDE DEF S
  <2> QED
    BY <1>1, <2>1, <1>cancel
<1> QED
  BY <1>2, <1>3, <1>4

------------------------------------------------------------------------------
(* The reconciler.                                                          *)

\* What the reconciler is about to close as drained has nothing left.
DrainInv == (ctl = [pc |-> "closing", outcome |-> "Succeeded"]
               /\ current # 0 /\ entries[current].state = "draining")
            => entries[current].pending = 0
CtlInv == CtlOK /\ busy \subseteq Ops /\ DrainInv

\* A step of a request or of a goroutine.
LEMMA DrainStays ==
    ASSUME CtlInv, Drains, ctlVars' = ctlVars, busy' \subseteq Ops
    PROVE  CtlInv'
<1>1. run' = run /\ seen' = seen /\ ctl' = ctl
  BY DEF ctlVars
<1>2. CtlOK'
  BY <1>1 DEF CtlInv, CtlOK
<1>3. DrainInv'
  BY <1>1 DEF CtlInv, DrainInv, Drains
<1> QED
  BY <1>2, <1>3 DEF CtlInv

\* Steps of the requests.
LEMMA RequestDrains ==
    ASSUME CtlInv, NEW r \in Requests,
           \/ Route(r) \/ Begin(r) \/ BeginFails(r) \/ Accepted(r) \/ AcceptedFails(r)
           \/ Returns(r) \/ FailureStored(r) \/ FailureLost(r) \/ Disconnect(r)
           \/ Resume(r) \/ Interrupted(r) \/ InterruptFails(r) \/ Subscribe(r) \/ Follow(r)
    PROVE  CtlInv'
<1>1. CASE Route(r) \/ Begin(r) \/ BeginFails(r) \/ Accepted(r) \/ AcceptedFails(r)
  <2>1. /\ ctlVars' = ctlVars /\ entries' = entries /\ current' = current
        /\ busy' \subseteq Ops
    BY <1>1 DEF Route, Begin, BeginFails, Accepted, AcceptedFails, queueVars, serverOps, CtlInv
  <2> QED
    BY <2>1, DrainStays DEF Drains
<1>2. CASE Returns(r) \/ FailureStored(r) \/ FailureLost(r) \/ Disconnect(r)
  <2>1. /\ ctlVars' = ctlVars /\ entries' = entries /\ current' = current
        /\ busy' \subseteq Ops
    BY <1>2 DEF Returns, FailureStored, FailureLost, Disconnect, queueVars, serverOps, CtlInv
  <2> QED
    BY <2>1, DrainStays DEF Drains
<1>3. CASE Resume(r) \/ Interrupted(r) \/ InterruptFails(r) \/ Subscribe(r) \/ Follow(r)
  <2>1. /\ ctlVars' = ctlVars /\ entries' = entries /\ current' = current
        /\ busy' \subseteq Ops
    BY <1>3 DEF Resume, Interrupted, InterruptFails, Subscribe, Follow, queueVars, serverOps, CtlInv
  <2> QED
    BY <2>1, DrainStays DEF Drains
<1> QED
  BY <1>1, <1>2, <1>3

\* Steps of the goroutines.
LEMMA JobDrains ==
    ASSUME BaseInv, CtlInv, NEW e \in 1..Len(entries),
           Take(e) \/ Start(e) \/ Event(e) \/ EventStored(e) \/ EventFails(e) \/ Stop(e)
    PROVE  CtlInv'
<1>work. ASSUME QueueInv, NEW f \in 1..Len(entries), Differs(entries, entries', f), current' = current,
                Takes(entries[f], entries'[f]) \/ Finishes(entries[f], entries'[f])
         PROVE  Drains
  <2> USE <1>work
  <2>1. current = 0 \/ current \in 1..Len(entries)
    <3>1. current \in 0..Len(entries) /\ Len(entries) \in Nat
      BY Entries DEF QueueInv
    <3> QED
      BY <3>1, SMT
  <2>2. CASE current = f
    <3> DEFINE x == entries[f]
               y == entries'[f]
    <3>1. x \in Entry /\ Counted(x)
      BY Entries DEF QueueInv, EntryOK
    <3>2. y.state = x.state /\ (Takes(x, y) => y.pending = x.pending)
      BY DEF Takes, Finishes
    <3>3. ASSUME Finishes(x, y)
          PROVE  x.pending # 0
      <4> DEFINE a == Len(x.jobs)
                 b == Len(x.job)
      <4>1. a \in Nat /\ x.pending = a + b /\ x.job \in Seq(Requests) /\ x.job # <<>>
        BY <3>1, <3>3, EntryFields DEF Counted, Finishes
      <4>2. b \in Nat /\ b # 0
        <5> DEFINE j == x.job
        <5> HIDE DEF j
        <5>1. Len(j) \in Nat /\ Len(j) # 0
          BY <4>1, SMT DEF j
        <5> QED
          BY <5>1 DEF j
      <4> HIDE DEF a, b, x
      <4> QED
        BY <4>1, <4>2, SMT
    <3> QED
      BY <2>2, <3>2, <3>3 DEF Drains
  <2>3. CASE current # f /\ current # 0
    <3>1. entries'[current] = entries[current]
      BY <2>1, <2>3 DEF Differs
    <3> QED
      BY <3>1 DEF Drains
  <2>4. CASE current = 0
    BY <2>4 DEF Drains
  <2> QED
    BY <2>2, <2>3, <2>4
<1> DEFINE r == entries[e].job[1]
<1>1. ctlVars' = ctlVars /\ current' = current
  BY DEF Take, Start, Event, EventStored, EventFails, Stop, queueVars
<1>2. CASE Take(e)
  <2>1. busy' \subseteq Ops
    BY <1>2 DEF Take, serverOps, CtlInv
  <2>2. Differs(entries, entries', e) /\ Takes(entries[e], entries'[e])
    BY <1>2, TakesEntry DEF BaseInv
  <2> QED
    BY <1>1, <2>1, <2>2, <1>work, DrainStays DEF BaseInv
<1>3. CASE ~Take(e)
  <2>1. entries[e].job # <<>>
    BY <1>3 DEF Start, Event, EventStored, EventFails, Stop
  <2>2. r \in Requests /\ OpOf[r] \in Ops /\ req[r].sub # "open"
    BY <2>1, JobFacts
  <2>3. entries' = entries \/ entries' = Complete(e)
    BY <1>3 DEF Start, Event, EventStored, EventFails, Stop, queueVars
  <2>4. busy' \subseteq Ops
    <3>1. CASE Start(e)
      <4>1. busy' \subseteq busy \cup {OpOf[r]}
        BY <3>1 DEF Start, serverOps
      <4> QED
        BY <2>2, <4>1 DEF CtlInv
    <3>2. CASE ~Start(e)
      <4>1. busy' \subseteq busy
        BY <1>3, <3>2 DEF Event, EventStored, EventFails, Stop, serverOps
      <4> QED
        BY <4>1 DEF CtlInv
    <3> QED
      BY <3>1, <3>2
  <2>5. CASE entries' = entries
    BY <1>1, <2>4, <2>5, DrainStays DEF Drains
  <2>6. CASE entries' = Complete(e)
    <3>1. Differs(entries, entries', e) /\ Finishes(entries[e], entries'[e])
      BY <2>1, <2>6, CompleteEntry DEF BaseInv
    <3> QED
      BY <1>1, <2>4, <3>1, <1>work, DrainStays DEF BaseInv
  <2> QED
    BY <2>3, <2>5, <2>6
<1> QED
  BY <1>2, <1>3

\* The reconciler goes on: nothing it closes as drained is left with work.
LEMMA CtlStays ==
    ASSUME CtlInv, CtlOK', busy' \subseteq Ops, ctl'.pc # "closing" \/ ctl'.outcome # "Succeeded"
    PROVE  CtlInv'
<1>1. ctl' # [pc |-> "closing", outcome |-> "Succeeded"]
  BY SMT
<1> QED
  BY <1>1 DEF CtlInv, DrainInv

\* The outcomes of the reconciler.
LEMMA CtlType ==
    ASSUME CtlInv
    PROVE  /\ run \in RunType /\ seen \in RunType /\ Idle.pc = "idle" /\ Idle.outcome = "none"
           /\ ctl.pc \in {"idle", "closing", "queueClosed", "exporting", "ending"}
           /\ ctl.outcome \in Terminal \cup {"none"}
           /\ ctl.pc # "idle" => ctl.outcome \in Terminal
BY DEF CtlInv, CtlOK, CtlShape, Idle

\* The end of the Session is asked for, seen or begun.
LEMMA AskDrains ==
    ASSUME CtlInv, Observe \/ BeginFinalization \/ \E mode \in {"Drain", "Immediate"} : RequestEnd(mode)
    PROVE  CtlInv'
<1>1. /\ ctl' = ctl /\ busy' = busy /\ entries' = entries /\ current' = current
  BY DEF Observe, BeginFinalization, RequestEnd, queueVars, serverOps
<1>2. run \in RunType /\ seen \in RunType
  BY CtlType
<1>3. run' \in RunType
  <2>1. CASE Observe
    BY <1>2, <2>1 DEF Observe
  <2>2. CASE BeginFinalization
    <3>1. run' = [run EXCEPT !.phase = "Finalizing"]
      BY <2>2 DEF BeginFinalization
    <3> QED
      BY <1>2, <3>1 DEF RunType
  <2>3. ASSUME NEW mode \in {"Drain", "Immediate"}, RequestEnd(mode)
        PROVE  run' \in RunType
    <3>1. run' = [run EXCEPT !.term = mode]
      BY <2>3 DEF RequestEnd
    <3> QED
      BY <1>2, <3>1 DEF RunType
  <2> QED
    BY <2>1, <2>2, <2>3
<1>4. seen' \in RunType
  BY <1>2 DEF Observe, BeginFinalization, RequestEnd
<1> QED
  BY <1>1, <1>3, <1>4 DEF CtlInv, CtlOK, DrainInv

\* The reconciler decides to close the session.
LEMMA EndDrains ==
    ASSUME CtlInv, EndNow \/ LeaseExpires
    PROVE  CtlInv'
<1>1. /\ run' = run /\ seen' = seen /\ busy' = busy
      /\ \/ ctl' = [pc |-> "closing", outcome |-> "Cancelled"]
         \/ ctl' = [pc |-> "closing", outcome |-> "Timeout"]
  BY DEF EndNow, LeaseExpires, serverOps
<1>2. CtlShape(ctl') /\ ctl'.outcome # "Succeeded"
  BY <1>1, SMT DEF CtlShape, Terminal
<1>3. CtlOK'
  BY <1>1, <1>2 DEF CtlInv, CtlOK
<1> QED
  BY <1>1, <1>2, <1>3, CtlStays DEF CtlInv

\* Drain: it closes an entry that has nothing left.
LEMMA DrainDrains ==
    ASSUME BaseInv, CtlInv, Drain
    PROVE  CtlInv'
<1>1. /\ run' = run /\ seen' = seen /\ busy' = busy /\ current' = current
      /\ Reconciles
      /\ (Drained /\ ctl' = [pc |-> "closing", outcome |-> "Succeeded"]) \/ ctl' = ctl
  BY DEF Drain, serverOps
<1>2. CtlOK'
  <2>1. CASE ctl' = ctl
    BY <1>1, <2>1 DEF CtlInv, CtlOK
  <2>2. CASE ctl' = [pc |-> "closing", outcome |-> "Succeeded"]
    BY <1>1, <2>2 DEF CtlInv, CtlOK, CtlShape, Terminal
  <2> QED
    BY <1>1, <2>1, <2>2
<1>3. ASSUME current # 0
      PROVE  entries'[current].pending = entries[current].pending
  <2>1. CASE entries' = entries
    BY <2>1
  <2>2. CASE entries' = [entries EXCEPT ![current].state = "draining"]
    BY <1>3, <2>2, StateEntry DEF BaseInv
  <2> QED
    BY <2>1, <2>2 DEF Drain
<1>4. DrainInv'
  <2>1. CASE Drained
    BY <1>1, <1>3, <2>1 DEF DrainInv, Drained
  <2>2. CASE ctl' = ctl
    <3>1. ctl.pc = "idle"
      BY <1>1 DEF Reconciles
    <3>2. ctl' # [pc |-> "closing", outcome |-> "Succeeded"]
      BY <2>2, <3>1, SMT
    <3> QED
      BY <3>2 DEF DrainInv
  <2> QED
    BY <1>1, <2>1, <2>2
<1> QED
  BY <1>1, <1>2, <1>4 DEF CtlInv

\* The steps after it.
LEMMA CloseDrains ==
    ASSUME CtlInv, CloseQueue \/ CloseServer \/ Export \/ ApplyTerminal
    PROVE  CtlInv'
<1>1. /\ run \in RunType /\ seen \in RunType /\ Idle.pc = "idle" /\ Idle.outcome = "none"
      /\ ctl.outcome \in Terminal /\ CtlShape(ctl)
  <2>1. ctl.pc # "idle"
    BY DEF CloseQueue, CloseServer, Export, ApplyTerminal
  <2> QED
    BY <2>1, CtlType DEF CtlInv, CtlOK
<1>2. seen' = seen /\ busy' = busy
  BY DEF CloseQueue, CloseServer, Export, ApplyTerminal, serverOps
<1>3. run' \in RunType
  <2>1. CASE run' = run
    BY <1>1, <2>1
  <2>2. CASE run' = [run EXCEPT !.phase = ctl.outcome]
    <3> DEFINE a == ctl.outcome
    <3>1. a \in Terminal /\ run' = [run EXCEPT !.phase = a]
      BY <1>1, <2>2
    <3> HIDE DEF a
    <3> QED
      BY <1>1, <3>1 DEF RunType
  <2> QED
    BY <2>1, <2>2 DEF CloseQueue, CloseServer, Export, ApplyTerminal
<1>4. \/ ctl' = Idle
      \/ \E p \in {"queueClosed", "exporting", "ending"} : ctl' = [ctl EXCEPT !.pc = p]
      \/ \E a \in {"Succeeded", "Failed"} : ctl' = [pc |-> "ending", outcome |-> a]
  BY DEF CloseQueue, CloseServer, Export, ApplyTerminal
<1>5. CtlShape(ctl') /\ ctl'.pc # "closing"
  <2>1. CASE ctl' = Idle
    BY <2>1 DEF Idle, CtlShape
  <2>2. ASSUME NEW p \in {"queueClosed", "exporting", "ending"}, ctl' = [ctl EXCEPT !.pc = p]
        PROVE  CtlShape(ctl') /\ ctl'.pc # "closing"
    BY <1>1, <2>2 DEF CtlShape
  <2>3. ASSUME NEW a \in {"Succeeded", "Failed"}, ctl' = [pc |-> "ending", outcome |-> a]
        PROVE  CtlShape(ctl') /\ ctl'.pc # "closing"
    BY <2>3 DEF CtlShape, Terminal
  <2> QED
    BY <1>4, <2>1, <2>2, <2>3
<1>6. CtlOK'
  BY <1>1, <1>2, <1>3, <1>5 DEF CtlOK
<1> QED
  BY <1>2, <1>5, <1>6, CtlStays DEF CtlInv

\* Recover, Restart, ServerRestart and Terminate.
LEMMA CrashDrains ==
    ASSUME CtlInv, Recover \/ Restart \/ ServerRestart \/ \E o \in Ops : Terminate(o)
    PROVE  CtlInv'
<1>1. run \in RunType /\ seen \in RunType /\ Idle.pc = "idle" /\ Idle.outcome = "none"
  BY CtlType
<1>2. CASE Recover
  <2>1. /\ ctl' = ctl /\ seen' = seen /\ busy' = busy /\ ctl.pc = "idle"
        /\ run' = run \/ run' = [run EXCEPT !.phase = "Failed"]
    BY <1>2 DEF Recover, serverOps
  <2>2. run' \in RunType
    BY <1>1, <2>1 DEF RunType, Terminal
  <2>3. CtlOK'
    BY <1>1, <2>1, <2>2 DEF CtlInv, CtlOK
  <2> QED
    BY <2>1, <2>3, CtlStays DEF CtlInv
<1>3. CASE Restart
  <2>1. ctl' = Idle /\ seen' = run /\ run' = run /\ busy' = busy
    BY <1>3 DEF Restart, serverOps
  <2>2. CtlOK'
    BY <1>1, <2>1 DEF CtlOK, CtlShape, Idle
  <2> QED
    BY <1>1, <2>1, <2>2, CtlStays DEF CtlInv
<1>4. CASE ServerRestart \/ \E o \in Ops : Terminate(o)
  <2>1. /\ ctl' = ctl /\ seen' = seen /\ run' = run /\ busy' \subseteq busy
        /\ entries' = entries /\ current' = current
    BY <1>4 DEF ServerRestart, Terminate, ctlVars, queueVars
  <2> QED
    BY <2>1 DEF CtlInv, CtlOK, DrainInv
<1> QED
  BY <1>2, <1>3, <1>4

------------------------------------------------------------------------------
(* The inductive invariant.                                                 *)

IInv == BaseInv /\ FlowInv /\ CtlInv

\* A Session starts with one empty queue and no journal.
LEMMA InitInv ==
    ASSUME Init
    PROVE  IInv
<1>1. DOMAIN journal = {} /\ 1..Len(<<>>) = {} /\ Len(<<>>) = 0 /\ <<>> \in Seq(Nat) /\ 0 \in Nat
  <2>1. journal = <<>>
    BY DEF Init
  <2> QED
    BY <2>1, SMT
<1>2. \A o : ~Begun(o) /\ Count(o) = 0
  BY <1>1 DEF Begun, Count
<1>3. ASSUME NEW q \in Requests
      PROVE  /\ req[q] \in Request /\ Own(req[q]) /\ ~Held(req[q]) /\ req[q].pc = "idle"
             /\ StreamOK(req[q], 0, OpOf[q], unanswered)
             /\ req[q].entry = 0 /\ req[q].work = "none"
  <2>1. req[q] = NewRequest
    BY DEF Init
  <2>2. /\ req[q].pc = "idle" /\ req[q].entry = 0 /\ req[q].work = "none" /\ req[q].cursor = 0
        /\ req[q].sub = "none" /\ req[q].buf = <<>> /\ req[q].got = <<>>
    BY <2>1, SMT DEF NewRequest
  <2>3. req[q] \in Request
    BY <1>1, <2>1, SMT DEF NewRequest, Request, Pcs, Works, Subs, Kinds, Results
  <2>4. 0 <= SubscriberSize /\ 0 <= 0
    BY SessionAssumption, SMT
  <2>5. Own(req[q]) /\ ~Held(req[q])
    BY <1>1, <2>2, <2>4 DEF Own, Held, Fresh, Resuming, Submits
  <2>6. Line(req[q]) = <<>>
    BY <2>2, <2>3, LineType
  <2>7. ~Live(req[q]) /\ Ordered(0, <<>>, 0, OpOf[q], unanswered)
    BY <1>1, <2>2, <2>5 DEF Live, Ordered
  <2> QED
    BY <2>2, <2>3, <2>4, <2>5, <2>6, <2>7 DEF StreamOK
<1>4. ReqOK
  BY <1>3 DEF Init, ReqOK
<1>5. QueueInv
  <2>1. Queue(<<>>, 0, req)
    BY <1>3, NoQueue
  <2>2. Queue(Append(<<>>, NoEntry), Len(<<>>) + 1, req)
    BY <2>1, OpenQueue
  <2>3. Append(<<>>, NoEntry) = <<NoEntry>> /\ Len(<<>>) + 1 = 1
    BY SMT
  <2>4. entries = <<NoEntry>> /\ current = 1
    BY DEF Init
  <2> QED
    BY <2>2, <2>3, <2>4 DEF QueueInv
<1>6. OwnInv /\ HoldInv
  BY <1>3 DEF OwnInv, HoldInv, Reads
<1>7. StartInv
  BY <1>1 DEF Init, StartInv
<1>8. JournalInv
  BY <1>1 DEF Init, JournalInv
<1>9. FlowInv
  BY <1>2, <1>3 DEF FlowInv, StreamInv, ActiveInv, Active
<1>10. CtlInv
  <2>1. /\ run = [phase |-> "Ready", term |-> "none"] /\ seen = run /\ ctl = Idle /\ busy = {}
    BY DEF Init
  <2>2. run \in RunType
    BY <2>1 DEF RunType
  <2>3. CtlShape(ctl) /\ ctl.pc = "idle"
    BY <2>1 DEF CtlShape, Idle
  <2>4. ctl # [pc |-> "closing", outcome |-> "Succeeded"]
    BY <2>3, SMT
  <2> QED
    BY <2>1, <2>2, <2>3, <2>4 DEF CtlInv, CtlOK, DrainInv
<1> QED
  BY <1>4, <1>5, <1>6, <1>7, <1>8, <1>9, <1>10 DEF IInv, BaseInv

\* Steps of a request.
LEMMA RequestStep ==
    ASSUME IInv, NEW r \in Requests,
           \/ Route(r) \/ Begin(r) \/ BeginFails(r) \/ Admit(r) \/ Accepted(r) \/ AcceptedFails(r)
           \/ Returns(r) \/ FailureStored(r) \/ FailureLost(r) \/ Disconnect(r)
           \/ Resume(r) \/ Interrupted(r) \/ InterruptFails(r) \/ Subscribe(r) \/ Follow(r)
    PROVE  IInv'
<1>1. BaseInv /\ FlowInv /\ CtlInv
  BY DEF IInv
<1>2. CASE Admit(r)
  <2>1. ctlVars' = ctlVars /\ busy' \subseteq Ops
    BY <1>1, <1>2 DEF Admit, serverOps, CtlInv
  <2> QED
    BY <1>1, <1>2, <2>1, AdmitStep, DrainStays DEF IInv
<1>3. CASE ~Admit(r)
  <2>1. CtlInv'
    BY <1>1, <1>3, RequestDrains
  <2>2. BaseInv' /\ FlowInv'
    BY <1>1, <1>3, HandlerStep, BeginStep, GiveUpStep, DisconnectStep, AcceptedStep,
       FailureStoredStep, ResumeStep, InterruptedStep, SubscribeStep, FollowStep
  <2> QED
    BY <2>1, <2>2 DEF IInv
<1> QED
  BY <1>2, <1>3

\* Steps of a goroutine.
LEMMA JobStep ==
    ASSUME IInv, NEW e \in 1..Len(entries),
           Take(e) \/ Start(e) \/ Event(e) \/ EventStored(e) \/ EventFails(e) \/ Stop(e)
    PROVE  IInv'
<1>1. BaseInv /\ FlowInv /\ CtlInv
  BY DEF IInv
<1>2. CtlInv'
  BY <1>1, JobDrains
<1>3. CASE Take(e)
  <2>1. BaseInv'
    BY <1>1, <1>3, TakeKeeps
  <2>2. req' = req /\ journal' = journal /\ active' = active /\ unanswered' = unanswered
    BY <1>3 DEF Take, storeVars
  <2> QED
    BY <1>1, <1>2, <2>1, <2>2, StillFlows DEF IInv
<1>4. CASE EventStored(e)
  BY <1>1, <1>2, <1>4, EventStoredStep DEF IInv
<1>5. CASE Start(e) \/ Event(e) \/ EventFails(e) \/ Stop(e)
  BY <1>1, <1>2, <1>5, WorkStep DEF IInv
<1> QED
  BY <1>3, <1>4, <1>5

\* Steps of the reconciler, the user and the Runtime Server.
LEMMA CtlStep ==
    ASSUME IInv,
           \/ Observe \/ BeginFinalization \/ Drain \/ EndNow \/ LeaseExpires \/ CloseQueue
           \/ CloseServer \/ Export \/ ApplyTerminal \/ Recover \/ Restart \/ ServerRestart
           \/ \E o \in Ops : Terminate(o)
           \/ \E mode \in {"Drain", "Immediate"} : RequestEnd(mode)
    PROVE  IInv'
<1>1. BaseInv /\ FlowInv /\ CtlInv
  BY DEF IInv
<1>2. CtlInv'
  BY <1>1, AskDrains, EndDrains, DrainDrains, CloseDrains, CrashDrains
<1>3. CASE \/ Observe \/ BeginFinalization \/ EndNow \/ LeaseExpires \/ CloseServer
           \/ Export \/ ApplyTerminal \/ \E o \in Ops : Terminate(o)
           \/ \E mode \in {"Drain", "Immediate"} : RequestEnd(mode)
  <2>1. /\ req' = req /\ journal' = journal /\ active' = active /\ unanswered' = unanswered
        /\ entries' = entries /\ current' = current /\ started' = started
    BY <1>3 DEF Observe, BeginFinalization, EndNow, LeaseExpires, CloseServer, Export,
                ApplyTerminal, Terminate, RequestEnd, queueVars, storeVars, serverOps
  <2>2. BaseInv'
    BY <1>1, <2>1, StillKeeps
  <2> QED
    BY <1>1, <1>2, <2>1, <2>2, StillFlows DEF IInv
<1>4. CASE Drain \/ Recover
  <2>1. req' = req /\ journal' = journal /\ active' = active /\ unanswered' = unanswered
    BY <1>4 DEF Drain, Recover, storeVars
  <2>2. BaseInv'
    BY <1>1, <1>4, DrainKeeps, RecoverKeeps
  <2> QED
    BY <1>1, <1>2, <2>1, <2>2, StillFlows DEF IInv
<1>5. CASE CloseQueue \/ ServerRestart
  <2>1. BaseInv'
    BY <1>1, <1>5, CloseQueueKept, ServerRestartKeeps
  <2> QED
    BY <1>1, <1>2, <1>5, <2>1, CloseFlows DEF IInv
<1>6. CASE Restart
  BY <1>1, <1>2, <1>6, RestartStep DEF IInv
<1> QED
  BY <1>3, <1>4, <1>5, <1>6

\* A step in which nothing happens.
LEMMA StutterStep ==
    ASSUME IInv, UNCHANGED vars
    PROVE  IInv'
<1>1. /\ req' = req /\ journal' = journal /\ active' = active /\ unanswered' = unanswered
      /\ entries' = entries /\ current' = current /\ started' = started /\ busy' = busy
      /\ run' = run /\ seen' = seen /\ ctl' = ctl
  BY DEF vars
<1>2. BaseInv'
  BY <1>1, StillKeeps DEF IInv
<1>3. FlowInv'
  BY <1>1, <1>2, StillFlows DEF IInv
<1> QED
  BY <1>1, <1>2, <1>3 DEF IInv, CtlInv, CtlOK, DrainInv

\* Every step keeps the invariant.
LEMMA NextInv ==
    ASSUME IInv, [Next]_vars
    PROVE  IInv'
<1>1. CASE UNCHANGED vars
  BY <1>1, StutterStep
<1>2. CASE Next
  <2>1. CASE \E r \in Requests :
                \/ Route(r) \/ Begin(r) \/ BeginFails(r) \/ Admit(r) \/ Accepted(r)
                \/ AcceptedFails(r) \/ Returns(r) \/ FailureStored(r) \/ FailureLost(r)
                \/ Disconnect(r) \/ Resume(r) \/ Interrupted(r) \/ InterruptFails(r)
                \/ Subscribe(r) \/ Follow(r)
    BY <2>1, RequestStep
  <2>2. CASE \E e \in 1..Len(entries) :
                Take(e) \/ Start(e) \/ Event(e) \/ EventStored(e) \/ EventFails(e) \/ Stop(e)
    BY <2>2, JobStep
  <2>3. CASE \/ Observe \/ BeginFinalization \/ Drain \/ EndNow \/ LeaseExpires \/ CloseQueue
             \/ CloseServer \/ Export \/ ApplyTerminal \/ Recover \/ Restart \/ ServerRestart
             \/ \E o \in Ops : Terminate(o)
             \/ \E mode \in {"Drain", "Immediate"} : RequestEnd(mode)
    BY <2>3, CtlStep
  <2> QED
    BY <1>2, <2>1, <2>2, <2>3 DEF Next, Progress
<1> QED
  BY <1>1, <1>2

\* The invariant holds in every behaviour.
LEMMA Invariance == Spec => []IInv
<1>1. Init => IInv
  BY InitInv
<1>2. IInv /\ [Next]_vars => IInv'
  BY NextInv
<1> QED
  BY <1>1, <1>2, PTL DEF Spec

------------------------------------------------------------------------------
(* What it gives.                                                           *)

\* Two requests executed at the same time without a cancellation would both be
\* the one the current entry works on.
LEMMA InTurn ==
    ASSUME IInv
    PROVE  ExecutedInTurn
<1>1. /\ ReqOK /\ OwnInv /\ Queue(entries, current, req) /\ StartInv /\ JournalInv
      /\ CtlOK /\ busy \subseteq Ops
  BY DEF IInv, BaseInv, QueueInv, CtlInv
<1>2. entries \in Seq(Entry) /\ current \in 0..Len(entries)
  BY <1>1 DEF Queue
<1>3. ASSUME NEW e \in 1..Len(entries)
      PROVE  /\ entries[e].state \in {"open", "draining", "closed"}
             /\ Len(entries[e].jobs) <= QueueSize
             /\ entries[e].pending = Len(entries[e].jobs) + Len(entries[e].job)
  <2>1. entries[e] \in Entry
    BY <1>2, SMT
  <2>2. Counted(entries[e])
    BY <1>1 DEF Queue, EntryOK
  <2> QED
    BY <2>1, <2>2 DEF Entry, Counted
<1>4. /\ seen.phase \in {"Ready", "Finalizing"} \cup Terminal
      /\ ctl.pc \in {"idle", "closing", "queueClosed", "exporting", "ending"}
  BY <1>1 DEF CtlOK, CtlShape, RunType
<1>5. TypeOK
  BY <1>1, <1>2, <1>3, <1>4 DEF TypeOK, CtlOK, RunType, JournalInv, OwnInv, Own
<1>6. RunOnce
  <2>1. ASSUME NEW o \in Ops
        PROVE  started[o] <= 1
    <3>1. started[o] = 0 \/ started[o] = 1
      BY <1>1 DEF StartInv
    <3> QED
      BY <3>1, SMT
  <2> QED
    BY <2>1 DEF RunOnce
<1>7. SerialUnlessCancelled
  <2>1. ASSUME NEW q \in Requests, req[q].work \in Working, ~req[q].cancelled
        PROVE  entries[current].job[1] = q
    <3>1. Queued(entries, current, req, q)
      BY <1>1 DEF Queue
    <3> QED
      BY <2>1, <3>1 DEF Queued, WorksOn
  <2> QED
    BY <2>1 DEF SerialUnlessCancelled
<1> QED
  BY <1>5, <1>6, <1>7 DEF ExecutedInTurn

\* What a client has is the beginning of a line that starts after its cursor.
LEMMA Faithful ==
    ASSUME IInv
    PROVE  StreamFaithful
<1>1. ReqOK /\ JournalInv /\ StreamInv
  BY DEF IInv, BaseInv, FlowInv
<1>2. JournalSound
  BY <1>1 DEF JournalSound, JournalInv, Sound
<1>3. ASSUME NEW q \in Requests, NEW i \in 1..Len(req[q].got)
      PROVE  LET got == req[q].got
                 prev == IF i = 1 THEN req[q].cursor ELSE got[i - 1]
             IN  /\ got[i] <= Len(journal[OpOf[q]])
                 /\ got[i] > prev
                 /\ OpOf[q] \in unanswered \/ got[i] = prev + 1
  <2> DEFINE g == req[q].got
             p == Prev(req[q].cursor, g, i)
             m == Count(OpOf[q])
  <2>1. req[q] \in Request
    BY <1>1 DEF ReqOK
  <2>2. m \in Nat
    BY <1>1, Counts
  <2>3. StreamOK(req[q], m, OpOf[q], unanswered)
    BY <1>1 DEF StreamInv
  <2>4. g \in Seq(Nat) /\ req[q].cursor \in Nat
    BY <2>1, LineType
  <2>5. Ordered(req[q].cursor, g, m, OpOf[q], unanswered)
    BY <2>1, <2>2, <2>3, GotOrdered
  <2>6. g[i] <= m /\ Follows(p, g[i], OpOf[q], unanswered)
    BY <2>5 DEF Ordered
  <2>7. g[i] \in Nat /\ p \in Nat
    <3> HIDE DEF g
    <3>1. i \in 1..Len(g)
      BY DEF g
    <3> QED
      BY <2>4, <3>1, SMT DEF Prev
  <2>8. m # 0
    <3> HIDE DEF g, p, m
    <3> QED
      BY <2>2, <2>6, <2>7, SMT DEF Follows
  <2>9. m = Len(journal[OpOf[q]])
    BY <2>8 DEF Count
  <2> QED
    BY <2>6, <2>9 DEF Follows, Prev
<1>4. Delivered
  BY <1>3 DEF Delivered
<1> QED
  BY <1>2, <1>4 DEF StreamFaithful

\* An entry with nothing pending holds no job.
LEMMA NothingPending ==
    ASSUME IInv
    PROVE  DrainedFirst
<1>1. Queue(entries, current, req) /\ DrainInv
  BY DEF IInv, BaseInv, QueueInv, CtlInv
<1>2. SUFFICES ASSUME ctl = [pc |-> "closing", outcome |-> "Succeeded"],
                      current # 0, entries[current].state = "draining",
                      NEW r \in Requests, req[r].entry = current, req[r].work # "ended"
               PROVE  FALSE
  BY DEF DrainedFirst
<1> DEFINE x == entries[current]
<1>3. x.pending = 0
  BY <1>1, <1>2 DEF DrainInv
<1>4. entries \in Seq(Entry) /\ current \in 1..Len(entries)
  <2>1. entries \in Seq(Entry) /\ current \in 0..Len(entries)
    BY <1>1 DEF Queue
  <2> QED
    BY <1>2, <2>1, SMT
<1>5. Holds(x, r)
  <2>1. Queued(entries, current, req, r)
    BY <1>1 DEF Queue
  <2> QED
    BY <1>2, <2>1 DEF Queued
<1>6. Counted(x)
  BY <1>1, <1>4 DEF Queue, EntryOK
<1>7. x.jobs \in Seq(Requests) /\ x.job \in Seq(Requests)
  <2>1. x \in Entry
    BY <1>4, SMT
  <2> QED
    BY <2>1 DEF Entry
<1> HIDE DEF x
<1>8. Len(x.jobs) = 0 /\ Len(x.job) = 0
  <2>1. Len(x.jobs) \in Nat /\ Len(x.job) \in Nat
    BY <1>7, SMT
  <2>2. Len(x.jobs) + Len(x.job) = 0
    BY <1>3, <1>6 DEF Counted
  <2> DEFINE a == Len(x.jobs)
             b == Len(x.job)
  <2>3. a \in Nat /\ b \in Nat /\ a + b = 0
    BY <2>1, <2>2
  <2> HIDE DEF a, b
  <2>4. a = 0 /\ b = 0
    BY <2>3, SMT
  <2> QED
    BY <2>4 DEF a, b
<1>9. x.job = <<>> /\ 1..Len(x.jobs) = {}
  BY <1>7, <1>8, SMT
<1> QED
  BY <1>5, <1>9 DEF Holds, WorksOn

\* Whatever clients retry, whichever of runtimed's calls fail and wherever the
\* Agent Runtime or the Runtime Server restarts, an operation is started at most
\* once, its queue counts what it holds, and two operations run at once only when
\* one was cancelled: for any number of requests and any size of the queue.
THEOREM OperationsInTurn == Spec => []ExecutedInTurn
<1>1. IInv => ExecutedInTurn
  BY InTurn
<1> QED
  BY <1>1, Invariance, PTL

\* Journals are numbered without gaps and end once, and what a client has seen is
\* in order, each event once, without a gap after its cursor unless a stored event
\* was taken for lost: for any size of the buffer between journal and client.
THEOREM StreamsFaithful == Spec => []StreamFaithful
<1>1. IInv => StreamFaithful
  BY Faithful
<1> QED
  BY <1>1, Invariance, PTL

\* When the reconciler goes on to close a Session it has drained, every operation
\* the queue had accepted has been answered.
THEOREM DrainsBeforeClose == Spec => []DrainedFirst
<1>1. IInv => DrainedFirst
  BY NothingPending
<1> QED
  BY <1>1, Invariance, PTL
==============================================================================
