------------------------------- MODULE ExtHost -------------------------------
(***************************************************************************)
(* The host of external plugins (ext_runtime.nim, broker_ext.h) together   *)
(* with a plugin that attaches and detaches at run time, as the C++        *)
(* storage plugin does (plugin.cpp).                                       *)
(*                                                                         *)
(* Foreign threads open ports and post control messages; the bridge thread *)
(* applies them, invokes the names of `bridge` dispatch and collects the   *)
(* replies; worker threads invoke the names of `workers` dispatch; other   *)
(* threads of the program send signals; one thread stops the host.         *)
(*                                                                         *)
(* One plugin on one broker context.  A port is its slot and generation,   *)
(* and so is the impl it was opened with.  A name stands for a request and *)
(* a signal of one dispatch that are provided together.  Left out: events, *)
(* in-place calls, imported C libraries and peer libraries, a second start *)
(* of the host, the withdrawal of a single name, and control calls made    *)
(* from within an invoke, which postCtl runs at once on the bridge thread: *)
(* this plugin does neither.                                               *)
(***************************************************************************)
EXTENDS Naturals, Sequences, FiniteSets

CONSTANTS
    Plugins,     \* foreign threads that attach and detach the plugin
    Libs,        \* threads that shut the library context down
    Calls,       \* requests, each issued once
    Signalers,   \* threads that send one signal each
    Workers,     \* threads of the plugin's worker pool
    BridgeNames, WorkerNames, \* names, by dispatch
    Slots,       \* port slots (0 .. ExtMaxPorts - 1)
    RingCap,     \* capacity of the reply ring and of the worker queue
    MaxGen,      \* bound: times a slot is opened
    MaxOpens,    \* bound: ports opened in all
    NoPort, Nobody

Sessions == Plugins \cup Libs  \* those who post control messages
Names == BridgeNames \cup WorkerNames
Ports == Slots \X (1 .. MaxGen)
Messages == Calls \cup Signalers
Opened(g) == {p \in Ports : p[2] <= g[p[1]]}

ASSUME HostAssumption ==
    /\ Slots \subseteq Nat /\ IsFiniteSet(Slots)
    /\ IsFiniteSet(Calls) /\ IsFiniteSet(Workers)
    /\ RingCap \in Nat \ {0} /\ MaxGen \in Nat /\ MaxOpens \in Nat
    /\ NoPort \notin Ports /\ Nobody \notin Sessions \cup Messages
    /\ BridgeNames \cap WorkerNames = {} /\ Calls \cap Signalers = {}

VARIABLES
    running,      \* ExtHostRt.running
    host,         \* extHostStop: "running", "stopping", "pools", "stopped"
    bridge,       \* bridge thread: "poll", "closing", "stopping", "draining", "down"
    resume,       \* where it goes when the control message in work is done
    client,       \* whose control message it works on
    scan,         \* slots it has still to look at
    shutting,     \* the port bridgeClose is in
    gen, open,    \* of each slot
    refs,         \* of each impl
    closed,       \* impls whose `closed` flag is set
    source,       \* the port that serves a name
    call,         \* of each request: where it is, its source, its ExtCallState,
                  \* and the port whose reply completed it
    invoked,      \* requests whose invoke has begun
    queue, stopPool, \* the worker pool
    wk,           \* what worker w does with which message
    sig, sigRing, \* the port a signal was sent to; the bridge's signal ring
    replies,      \* reply ring: a request with the port the plugin replied on
    ctl,          \* control ring: the sessions whose message waits
    stage, io,    \* of session t: step of attach / detach, step of its control call
    req, rc,      \* its control message and its result
    mine, left,   \* the Port object it holds, the names still to provide
    holder, gPort \* gPortMutex and what it guards

hostVars == <<running, host>>
bridgeVars == <<bridge, resume, client, scan, shutting>>
portVars == <<gen, open, refs, closed>>
poolVars == <<queue, stopPool, wk>>
sigVars == <<sig, sigRing>>
callVars == <<call, invoked>>
sessionVars == <<stage, io, req, rc, mine, left, holder, gPort>>
vars == <<hostVars, bridgeVars, portVars, source, callVars, poolVars, sigVars,
          replies, ctl, sessionVars>>

\* The results a control call can have, of those broker_ext.h defines: names,
\* arguments, schema and capabilities are right here and no ring is full.
Results == {"ok", "stale", "already_provided", "shutdown"}

NoReq == [op |-> "none", port |-> NoPort, name |-> Nobody]

Init ==
    /\ running = TRUE /\ host = "running"
    /\ bridge = "poll" /\ resume = "poll" /\ client = Nobody
    /\ scan = {} /\ shutting = NoPort
    /\ gen = [s \in Slots |-> 0] /\ open = [s \in Slots |-> FALSE]
    /\ refs = [p \in Ports |-> 0] /\ closed = {}
    /\ source = [n \in Names |-> NoPort]
    /\ call = [c \in Calls |-> [at |-> "new", port |-> NoPort, st |-> "none",
                                by |-> NoPort]]
    /\ invoked = {}
    /\ queue = <<>> /\ stopPool = FALSE
    /\ wk = [w \in Workers |-> [at |-> "idle", msg |-> Nobody]]
    /\ sig = [g \in Signalers |-> NoPort]
    /\ sigRing = <<>> /\ replies = <<>> /\ ctl = <<>>
    /\ stage = [t \in Sessions |-> "idle"] /\ io = [t \in Sessions |-> "no"]
    /\ req = [t \in Sessions |-> NoReq] /\ rc = [t \in Sessions |-> "ok"]
    /\ mine = [t \in Sessions |-> NoPort] /\ left = [t \in Sessions |-> {}]
    /\ holder = Nobody /\ gPort = NoPort

\* lookupPort
IsOpen(p) == p \in Ports /\ open[p[1]] /\ gen[p[1]] = p[2]

PortOf(m) == IF m \in Calls THEN call[m].port ELSE sig[m]
Least(S) == CHOOSE s \in S : \A x \in S : s <= x
Waiting == {c \in Calls : call[c].at = "waiting"}  \* gExtPending
Framed == {c \in Calls : call[c].at \in {"waiting", "ended"}}  \* extCall is not done

-----------------------------------------------------------------------------
(* A session: attach and detach of the plugin, under gPortMutex.           *)

Attach(t) ==
    /\ stage[t] = "idle" /\ holder = Nobody /\ running
    /\ holder' = t
    /\ stage' = [stage EXCEPT ![t] = "open"]
    /\ UNCHANGED <<hostVars, bridgeVars, portVars, source, callVars, poolVars, sigVars,
                   replies, ctl, io, req, rc, mine, left, gPort>>

\* extOpen after its test of `running`: a closed slot gets a new generation.
OpenPort(t) ==
    /\ stage[t] = "open"
    /\ IF \E s \in Slots : ~open[s]
       THEN LET s == Least({x \in Slots : ~open[x]})
                p == <<s, gen[s] + 1>>
            IN  /\ p \in Ports /\ Cardinality(Opened(gen)) < MaxOpens
                /\ gen' = [gen EXCEPT ![s] = @ + 1]
                /\ open' = [open EXCEPT ![s] = TRUE]
                /\ refs' = [refs EXCEPT ![p] = 1]
                /\ mine' = [mine EXCEPT ![t] = p]
                /\ left' = [left EXCEPT ![t] = Names]
                /\ stage' = [stage EXCEPT ![t] = "provide"]
                /\ UNCHANGED holder
       ELSE /\ stage' = [stage EXCEPT ![t] = "idle"] /\ holder' = Nobody
            /\ UNCHANGED <<gen, open, refs, mine, left>>
    /\ UNCHANGED <<hostVars, bridgeVars, closed, source, callVars, poolVars, sigVars,
                   replies, ctl, io, req, rc, gPort>>

\* A control call begins: the port is looked up on the calling thread.
Request(t, r) ==
    /\ io[t] = "no"
    /\ IF r.op = "ctx" \/ IsOpen(r.port)
       THEN io' = [io EXCEPT ![t] = "push"] /\ UNCHANGED rc
       ELSE io' = [io EXCEPT ![t] = "done"] /\ rc' = [rc EXCEPT ![t] = "stale"]
    /\ req' = [req EXCEPT ![t] = r]

Provide(t) ==
    /\ stage[t] = "provide"
    /\ \E n \in left[t] : Request(t, [op |-> "provide", port |-> mine[t], name |-> n])
    /\ UNCHANGED <<hostVars, bridgeVars, portVars, source, callVars, poolVars, sigVars,
                   replies, ctl, stage, mine, left, holder, gPort>>

\* Port::close: of the port a failed attach gives up, of the one a new port
\* replaces, of the attached one.
ClosePort(t) ==
    /\ stage[t] \in {"undo", "replace", "detach"}
    /\ Request(t, [op |-> "close", port |-> mine[t], name |-> Nobody])
    /\ UNCHANGED <<hostVars, bridgeVars, portVars, source, callVars, poolVars, sigVars,
                   replies, ctl, stage, mine, left, holder, gPort>>

Detach(t) ==
    /\ stage[t] = "idle" /\ holder = Nobody /\ gPort # NoPort
    /\ holder' = t
    /\ mine' = [mine EXCEPT ![t] = gPort]
    /\ stage' = [stage EXCEPT ![t] = "detach"]
    /\ UNCHANGED <<hostVars, bridgeVars, portVars, source, callVars, poolVars, sigVars,
                   replies, ctl, io, req, rc, left, gPort>>

\* extLibCtxClose: the library shuts the context down.
CloseCtx(t) ==
    /\ stage[t] = "idle" /\ running
    /\ stage' = [stage EXCEPT ![t] = "ctx"]
    /\ Request(t, [op |-> "ctx", port |-> NoPort, name |-> Nobody])
    /\ UNCHANGED <<hostVars, bridgeVars, portVars, source, callVars, poolVars, sigVars,
                   replies, ctl, mine, left, holder, gPort>>

\* Mutant: `running` is not tested again under the lock.
PostCtl_NoRecheck(t) ==
    /\ io[t] = "push"
    /\ ctl' = Append(ctl, t) /\ io' = [io EXCEPT ![t] = "wait"] /\ UNCHANGED rc
    /\ UNCHANGED <<hostVars, bridgeVars, portVars, source, callVars, poolVars, sigVars,
                   replies, stage, req, mine, left, holder, gPort>>

\* postCtl under ctlLock; the wait ends with Answer.
PostCtl(t) ==
    /\ io[t] = "push"
    /\ IF running
       THEN ctl' = Append(ctl, t) /\ io' = [io EXCEPT ![t] = "wait"] /\ UNCHANGED rc
       ELSE /\ io' = [io EXCEPT ![t] = "done"] /\ rc' = [rc EXCEPT ![t] = "shutdown"]
            /\ UNCHANGED ctl
    /\ UNCHANGED <<hostVars, bridgeVars, portVars, source, callVars, poolVars, sigVars,
                   replies, stage, req, mine, left, holder, gPort>>

\* The call's message and the locals of attach and detach are gone on return.
Leave(t) ==
    /\ stage' = [stage EXCEPT ![t] = "idle"]
    /\ holder' = IF stage[t] = "ctx" THEN holder ELSE Nobody
    /\ mine' = [mine EXCEPT ![t] = NoPort] /\ left' = [left EXCEPT ![t] = {}]

Continue(t, next, port, names) ==
    /\ stage' = [stage EXCEPT ![t] = next] /\ UNCHANGED holder
    /\ mine' = [mine EXCEPT ![t] = port] /\ left' = [left EXCEPT ![t] = names]

\* Mutant: the plugin keeps the port of a failed attach.
AttachFails_NoUndo(t) == stage[t] = "provide" /\ rc[t] # "ok" /\ Leave(t) /\ UNCHANGED gPort

\* A name could not be provided: attach returns and p is destroyed.
AttachFails(t) ==
    /\ stage[t] = "provide" /\ rc[t] # "ok"
    /\ Continue(t, "undo", mine[t], {}) /\ UNCHANGED gPort

NameProvided(t) ==
    /\ stage[t] = "provide" /\ rc[t] = "ok"
    /\ LET names == left[t] \ {req[t].name} IN
       IF names # {} THEN Continue(t, "provide", mine[t], names) /\ UNCHANGED gPort
       ELSE /\ gPort' = mine[t] \* the old Port is destroyed
            /\ IF gPort = NoPort THEN Leave(t) ELSE Continue(t, "replace", gPort, {})

PortClosed(t) ==
    /\ stage[t] \notin {"idle", "provide"}
    /\ Leave(t) /\ gPort' = IF stage[t] = "detach" THEN NoPort ELSE gPort

\* What attach, detach and the library do with the result of the control call.
Returned(t) ==
    /\ io[t] = "done"
    /\ AttachFails(t) \/ NameProvided(t) \/ PortClosed(t)
    /\ io' = [io EXCEPT ![t] = "no"] /\ rc' = [rc EXCEPT ![t] = "ok"]
    /\ req' = [req EXCEPT ![t] = NoReq]
    /\ UNCHANGED <<hostVars, bridgeVars, portVars, source, callVars, poolVars, sigVars,
                   replies, ctl>>

Session(t) ==
    \/ t \in Plugins /\ (Attach(t) \/ OpenPort(t) \/ Provide(t) \/ ClosePort(t) \/ Detach(t))
    \/ t \in Libs /\ CloseCtx(t)
    \/ PostCtl(t) \/ Returned(t)

-----------------------------------------------------------------------------
(* The bridge thread: control messages.                                    *)

\* Mutant: a queued request that fails is left to the workers.
EndCalls_LeftQueued(F, at, reply) ==
    call' = [c \in Calls |->
                IF c \notin F THEN call[c] ELSE [call[c] EXCEPT !.at = at, !.by = reply]]

\* The requests of F leave the pending table: a queued one is cancelled, so no
\* worker starts it.  A running one may get a cancel hint, which changes nothing
\* in the host; what the plugin makes of it is up to Answers.
EndCalls(F, at, reply) ==
    call' = [c \in Calls |->
                IF c \notin F THEN call[c]
                ELSE [call[c] EXCEPT !.at = at, !.by = reply,
                          !.st = IF reply = NoPort /\ @ = "queued" THEN "cancelled" ELSE @]]

Answer(t, result) ==
    io' = [io EXCEPT ![t] = "done"] /\ rc' = [rc EXCEPT ![t] = result]

\* Mutant: the port is not looked up again.
Stale_NotTested(r) == FALSE

\* runCtl: a message overtaken by the closing of its port is refused.
Stale(r) == r.op # "ctx" /\ ~IsOpen(r.port)

RunProvide(r) ==
    /\ r.op = "provide"
    /\ IF Stale(r) THEN Answer(Head(ctl), "stale") /\ UNCHANGED source
       ELSE IF source[r.name] # NoPort
       THEN Answer(Head(ctl), "already_provided") /\ UNCHANGED source
       ELSE Answer(Head(ctl), "ok") /\ source' = [source EXCEPT ![r.name] = r.port]
    /\ UNCHANGED bridgeVars

RunClose(r) ==
    /\ r.op \in {"close", "ctx"}
    /\ IF Stale(r) THEN Answer(Head(ctl), "stale") /\ UNCHANGED bridgeVars
       ELSE /\ bridge' = "closing" /\ resume' = bridge /\ client' = Head(ctl)
            /\ scan' = (IF r.op = "ctx" THEN Slots ELSE {r.port[1]})
            /\ UNCHANGED <<shutting, io, rc>>
    /\ UNCHANGED source

\* ctlPoll
CtlPoll ==
    /\ bridge \in {"poll", "draining"} /\ ctl # <<>>
    /\ ctl' = Tail(ctl)
    /\ RunProvide(req[Head(ctl)]) \/ RunClose(req[Head(ctl)])
    /\ UNCHANGED <<hostVars, portVars, callVars, poolVars, sigVars, replies,
                   stage, req, mine, left, holder, gPort>>

\* Mutant: the requests in flight are forgotten.
CloseWithdraws_KeepsCalls ==
    /\ bridge \in {"closing", "stopping"} /\ shutting = NoPort /\ scan # {}
    /\ LET s == Least(scan)
           p == <<s, gen[s]>>
       IN  IF open[s]
           THEN /\ shutting' = p
                /\ source' = [n \in Names |-> IF source[n] = p THEN NoPort ELSE source[n]]
                /\ UNCHANGED scan
           ELSE scan' = scan \ {s} /\ UNCHANGED <<shutting, source>>
    /\ UNCHANGED <<hostVars, bridge, resume, client, portVars, callVars, poolVars,
                   sigVars, replies, ctl, sessionVars>>

\* bridgeClose up to its locked section: every name is withdrawn and the
\* requests in flight on the port fail.
CloseWithdraws ==
    /\ bridge \in {"closing", "stopping"} /\ shutting = NoPort /\ scan # {}
    /\ LET s == Least(scan)
           p == <<s, gen[s]>>
           F == {c \in Waiting : call[c].port = p}
       IN  IF open[s]
           THEN /\ shutting' = p
                /\ source' = [n \in Names |-> IF source[n] = p THEN NoPort ELSE source[n]]
                /\ EndCalls(F, "ended", NoPort)
                /\ UNCHANGED scan
           ELSE /\ scan' = scan \ {s}
                /\ UNCHANGED <<shutting, source, call>>
    /\ UNCHANGED <<hostVars, bridge, resume, client, portVars, invoked, poolVars,
                   sigVars, replies, ctl, sessionVars>>

\* bridgeClose, its locked section and the release of the port's reference.
CloseEnds ==
    /\ shutting # NoPort
    /\ open' = [open EXCEPT ![shutting[1]] = FALSE]
    /\ closed' = closed \cup {shutting}
    /\ refs' = [refs EXCEPT ![shutting] = @ - 1]
    /\ shutting' = NoPort /\ scan' = scan \ {shutting[1]}
    /\ UNCHANGED <<hostVars, bridge, resume, client, gen, source, callVars, poolVars,
                   sigVars, replies, ctl, sessionVars>>

CtlDone ==
    /\ bridge = "closing" /\ scan = {}
    /\ bridge' = resume /\ resume' = "poll" /\ client' = Nobody
    /\ Answer(client, "ok")
    /\ UNCHANGED <<hostVars, scan, shutting, portVars, source, callVars, poolVars, sigVars,
                   replies, ctl, stage, req, mine, left, holder, gPort>>

-----------------------------------------------------------------------------
(* Requests (extCall, on the bridge thread) and signals (extSignal).       *)

\* broker_ext_invoke_fn, on the bridge or on a worker thread.  Of a signal nothing
\* is kept: it has no answer.
Invoke(M) == invoked' = invoked \cup (M \cap Calls)

Accepts == ~stopPool /\ Len(queue) < RingCap  \* poolPush

\* acquireSource, the pending entry, then the dispatch of the name.
ExtCall(c) ==
    /\ bridge = "poll" /\ call[c].at = "new"
    /\ \E n \in Names :
         LET p == source[n]
             Called(at, st) == call' = [call EXCEPT ![c] =
                 [at |-> at, port |-> p, st |-> st, by |-> NoPort]]
         IN  IF p = NoPort \/ (n \in WorkerNames /\ ~Accepts)
             THEN Called("done", "none") /\ UNCHANGED <<refs, queue, invoked>>
             ELSE IF n \in WorkerNames
             THEN /\ Called("waiting", "queued")
                  /\ refs' = [refs EXCEPT ![p] = @ + 2]  \* the call's and the worker's
                  /\ queue' = Append(queue, c)
                  /\ UNCHANGED invoked
             ELSE /\ Called("waiting", "none")
                  /\ refs' = [refs EXCEPT ![p] = @ + 1]
                  /\ Invoke({c})
                  /\ UNCHANGED queue
    /\ UNCHANGED <<hostVars, bridgeVars, gen, open, closed, source, stopPool, wk,
                   sigVars, replies, ctl, sessionVars>>

Unreferenced(c) == refs' = [refs EXCEPT ![call[c].port] = @ - 1]

\* withTimeout of extCall expires, or the public request is cancelled.
Abandon(c) ==
    /\ bridge = "poll" /\ c \in Waiting
    /\ EndCalls({c}, "done", NoPort) /\ Unreferenced(c)
    /\ UNCHANGED <<hostVars, bridgeVars, gen, open, closed, source, invoked, poolVars,
                   sigVars, replies, ctl, sessionVars>>

\* extCall resumes with its future completed and gives its reference back: in a
\* later turn of the loop, or of the loop teardownBrokerThread still drives, or
\* never.
CallReturns(c) ==
    /\ bridge = "poll" \/ (bridge = "draining" /\ ctl = <<>>)
    /\ call[c].at = "ended"
    /\ call' = [call EXCEPT ![c].at = "done"] /\ Unreferenced(c)
    /\ UNCHANGED <<hostVars, bridgeVars, gen, open, closed, source, invoked, poolVars,
                   sigVars, replies, ctl, sessionVars>>

\* The plugin answers what it was invoked with: at once, by an exception, or from
\* a thread of its own when the work is done or the cancel hint was seen.
Answers(c) == c \in invoked

\* extReply on a port of the plugin.  The host does not rely on the plugin: it
\* may answer twice, late, or on another port than the request's.
ExtReply(c, p) ==
    /\ Answers(c) /\ running /\ IsOpen(p) /\ Len(replies) < RingCap
    /\ replies' = Append(replies, [call |-> c, port |-> p])
    /\ UNCHANGED <<hostVars, bridgeVars, portVars, source, callVars, poolVars, sigVars,
                   ctl, sessionVars>>

\* Mutant: any port of the plugin may answer.
FromSource_AnyPort(r) == TRUE

FromSource(r) == call[r.call].port = r.port

\* replyPoll: a reply to an unknown request or of another port is dropped.
ReplyPoll ==
    /\ bridge = "poll" /\ replies # <<>>
    /\ replies' = Tail(replies)
    /\ LET r == Head(replies) IN
       IF r.call \in Waiting /\ FromSource(r)
       THEN EndCalls({r.call}, "ended", r.port)
       ELSE UNCHANGED call
    /\ UNCHANGED <<hostVars, bridgeVars, portVars, source, invoked, poolVars, sigVars,
                   ctl, sessionVars>>

\* extSignal on another thread than the bridge: acquireSource, then the push to
\* the pool or to the bridge's ring, which keeps the reference.
ExtSignal(g) ==
    /\ sig[g] = NoPort
    /\ \E n \in Names :
         LET p == source[n] IN
         /\ IsOpen(p)
         /\ sig' = [sig EXCEPT ![g] = p] /\ refs' = [refs EXCEPT ![p] = @ + 1]
         /\ IF n \in WorkerNames
            THEN Accepts /\ queue' = Append(queue, g) /\ UNCHANGED sigRing
            ELSE Len(sigRing) < RingCap /\ sigRing' = Append(sigRing, g) /\ UNCHANGED queue
    /\ UNCHANGED <<hostVars, bridgeVars, gen, open, closed, source, callVars, stopPool,
                   wk, replies, ctl, sessionVars>>

SigPoll ==
    /\ bridge = "poll" /\ sigRing # <<>>
    /\ LET g == Head(sigRing) IN
       /\ Invoke(IF sig[g] \in closed THEN {} ELSE {g})
       /\ refs' = [refs EXCEPT ![sig[g]] = @ - 1]
    /\ sigRing' = Tail(sigRing)
    /\ UNCHANGED <<hostVars, bridgeVars, gen, open, closed, source, call, poolVars,
                   sig, replies, ctl, sessionVars>>

-----------------------------------------------------------------------------
(* workerProc                                                              *)

\* The worker is done with a message: it gives its references back.
Drop(w, m) ==
    /\ wk' = [wk EXCEPT ![w] = [at |-> "idle", msg |-> Nobody]]
    /\ refs' = [refs EXCEPT ![PortOf(m)] = @ - 1]

TakeMessage(w) ==
    /\ wk[w].at = "idle" /\ queue # <<>>
    /\ wk' = [wk EXCEPT ![w] = [at |-> "taken", msg |-> Head(queue)]]
    /\ queue' = Tail(queue)
    /\ UNCHANGED <<hostVars, bridgeVars, portVars, source, callVars, stopPool, sigVars,
                   replies, ctl, sessionVars>>

SeeClosed(w) ==
    /\ wk[w].at = "taken"
    /\ IF PortOf(wk[w].msg) \in closed
       THEN Drop(w, wk[w].msg)
       ELSE wk' = [wk EXCEPT ![w].at = "open"] /\ UNCHANGED refs
    /\ UNCHANGED <<hostVars, bridgeVars, gen, open, closed, source, callVars, queue,
                   stopPool, sigVars, replies, ctl, sessionVars>>

\* Mutant: the worker does not ask whether the request was cancelled.
Starts_Unasked(m) == TRUE

\* ExtCallState: the compare-and-swap from queued to running.
Starts(m) == m \in Calls => call[m].st = "queued"

StartInvoke(w) ==
    /\ wk[w].at = "open"
    /\ LET m == wk[w].msg IN
       IF Starts(m)
       THEN /\ wk' = [wk EXCEPT ![w].at = "invoking"]
            /\ Invoke({m})
            /\ call' = (IF m \in Calls THEN [call EXCEPT ![m].st = "running"] ELSE call)
            /\ UNCHANGED refs
       ELSE Drop(w, m) /\ UNCHANGED <<invoked, call>>
    /\ UNCHANGED <<hostVars, bridgeVars, gen, open, closed, source, queue,
                   stopPool, sigVars, replies, ctl, sessionVars>>

\* A foreign invoke may never end.
EndInvoke(w) ==
    /\ wk[w].at = "invoking"
    /\ Drop(w, wk[w].msg)
    /\ UNCHANGED <<hostVars, bridgeVars, gen, open, closed, source, callVars, queue,
                   stopPool, sigVars, replies, ctl, sessionVars>>

Worker(w) == TakeMessage(w) \/ SeeClosed(w) \/ StartInvoke(w) \/ EndInvoke(w)

-----------------------------------------------------------------------------
(* extHostStop, and the bridge thread on its way out.                      *)

StopBegins ==
    /\ host = "running"
    /\ running' = FALSE /\ host' = "stopping"
    /\ UNCHANGED <<bridgeVars, portVars, source, callVars, poolVars, sigVars, replies,
                   ctl, sessionVars>>

\* awaitStop returns: every port is looked at ...
BridgeStops ==
    /\ bridge = "poll" /\ host = "stopping"
    /\ bridge' = "stopping" /\ scan' = Slots
    /\ UNCHANGED <<hostVars, resume, client, shutting, portVars, source, callVars, poolVars,
                   sigVars, replies, ctl, sessionVars>>

\* ... and what is still pending fails, with a cancel hint.
BridgeFailsAll ==
    /\ bridge = "stopping" /\ scan = {}
    /\ bridge' = "draining"
    /\ EndCalls(Waiting, "ended", NoPort)
    /\ UNCHANGED <<hostVars, resume, client, scan, shutting, portVars, source, invoked,
                   poolVars, sigVars, replies, ctl, sessionVars>>

BridgeDown ==
    /\ bridge = "draining" /\ ctl = <<>>
    /\ bridge' = "down"
    /\ UNCHANGED <<hostVars, resume, client, scan, shutting, portVars, source, callVars,
                   poolVars, sigVars, replies, ctl, sessionVars>>

InQueue(p) == Cardinality({i \in 1 .. Len(queue) : PortOf(queue[i]) = p})
InSigRing(p) == Cardinality({i \in 1 .. Len(sigRing) : PortOf(sigRing[i]) = p})

\* Mutant: the messages thrown away keep their references.
StopPool_Kept ==
    /\ host = "stopping" /\ bridge = "down"
    /\ host' = "pools" /\ stopPool' = TRUE /\ queue' = <<>> /\ UNCHANGED refs
    /\ UNCHANGED <<running, bridgeVars, gen, open, closed, source, callVars, wk, sigVars,
                   replies, ctl, sessionVars>>

\* stopPool: what is queued is never invoked.  A worker that does not leave in
\* time is leaked, the stop goes on.
StopPool ==
    /\ host = "stopping" /\ bridge = "down"
    /\ host' = "pools" /\ stopPool' = TRUE /\ queue' = <<>>
    /\ refs' = [p \in Ports |-> refs[p] - InQueue(p)]
    /\ UNCHANGED <<running, bridgeVars, gen, open, closed, source, callVars, wk, sigVars,
                   replies, ctl, sessionVars>>

\* The rings are emptied; a control message left over is answered.
StopEnds ==
    /\ host = "pools"
    /\ host' = "stopped" /\ replies' = <<>> /\ sigRing' = <<>> /\ ctl' = <<>>
    /\ refs' = [p \in Ports |-> refs[p] - InSigRing(p)]
    /\ LET left_over == {ctl[i] : i \in 1 .. Len(ctl)} IN
       /\ io' = [t \in Sessions |-> IF t \in left_over THEN "done" ELSE io[t]]
       /\ rc' = [t \in Sessions |-> IF t \in left_over THEN "shutdown" ELSE rc[t]]
    /\ UNCHANGED <<running, bridgeVars, gen, open, closed, source, callVars, poolVars, sig,
                   stage, req, mine, left, holder, gPort>>

Bridge ==
    \/ CtlPoll \/ CloseWithdraws \/ CloseEnds \/ CtlDone \/ ReplyPoll \/ SigPoll
    \/ BridgeStops \/ BridgeFailsAll \/ BridgeDown

\* broker_ext_host: the entries a foreign thread may call at any time.
Foreign ==
    \/ \E t \in Sessions : Session(t)
    \/ \E c \in Calls, p \in Ports : ExtReply(c, p)

Next ==
    \/ Foreign
    \/ Bridge
    \/ \E c \in Calls : ExtCall(c) \/ Abandon(c) \/ CallReturns(c)
    \/ \E g \in Signalers : ExtSignal(g)
    \/ \E w \in Workers : Worker(w)
    \/ StopBegins \/ StopPool \/ StopEnds

Spec == Init /\ [][Next]_vars

-----------------------------------------------------------------------------
(* Properties.                                                             *)

\* Every variable has its type.
TypeOK ==
    /\ running \in BOOLEAN /\ host \in {"running", "stopping", "pools", "stopped"}
    /\ bridge \in {"poll", "closing", "stopping", "draining", "down"}
    /\ resume \in {"poll", "draining"} /\ client \in Sessions \cup {Nobody}
    /\ scan \subseteq Slots /\ shutting \in Ports \cup {NoPort}
    /\ gen \in [Slots -> 0 .. MaxGen] /\ open \in [Slots -> BOOLEAN]
    /\ refs \in [Ports -> Nat] /\ closed \subseteq Ports
    /\ source \in [Names -> Ports \cup {NoPort}]
    /\ call \in [Calls -> [at : {"new", "waiting", "ended", "done"}, port : Ports \cup {NoPort},
                           by : Ports \cup {NoPort},
                           st : {"none", "queued", "running", "cancelled"}]]
    /\ invoked \subseteq Calls
    /\ queue \in Seq(Messages) /\ stopPool \in BOOLEAN
    /\ wk \in [Workers -> [at : {"idle", "taken", "open", "invoking"},
                           msg : Messages \cup {Nobody}]]
    /\ sig \in [Signalers -> Ports \cup {NoPort}]
    /\ sigRing \in Seq(Signalers) /\ replies \in Seq([call : Calls, port : Ports])
    /\ ctl \in Seq(Sessions)
    /\ stage \in [Sessions -> {"idle", "open", "provide", "undo", "replace", "detach", "ctx"}]
    /\ io \in [Sessions -> {"no", "push", "wait", "done"}]
    /\ req \in [Sessions -> [op : {"none", "provide", "close", "ctx"},
                             port : Ports \cup {NoPort}, name : Names \cup {Nobody}]]
    /\ rc \in [Sessions -> Results]
    /\ mine \in [Sessions -> Ports \cup {NoPort}] /\ left \in [Sessions -> SUBSET Names]
    /\ holder \in Sessions \cup {Nobody} /\ gPort \in Ports \cup {NoPort}

\* The plugin's impl is released when, and only when, nobody can call it any
\* more: its reference count is the open port, the extCall frames that have not
\* returned, the messages that carry it and the workers that hold it.
ImplCounted ==
    \A p \in Ports :
        refs[p] = (IF IsOpen(p) THEN 1 ELSE 0)
                  + Cardinality({c \in Framed : call[c].port = p})
                  + InQueue(p) + InSigRing(p)
                  + Cardinality({w \in Workers : wk[w].msg # Nobody /\ PortOf(wk[w].msg) = p})

\* The plugin's data is well formed and its impls are counted, in every state.
HostInv == TypeOK /\ ImplCounted

\* At most once: a request that was answered before a worker started it (its
\* port closed, it timed out, the host stopped) is never started afterwards.
AnsweredNeverStarts ==
    [][\A c \in Calls : call[c].at \in {"ended", "done"} /\ c \notin invoked
                        => c \notin invoked']_vars

\* A request is completed only by a reply of the very port it was sent to, not
\* by one of the port that was opened in that slot later.
OwnReply ==
    \A c \in Calls : call[c].by # NoPort => call[c].by = call[c].port /\ c \in invoked

\* The source table never names a closed port, whatever order the control
\* messages, the closing of a context and the reopening of a slot come in.
SourceIsOpen == \A n \in Names : source[n] # NoPort => IsOpen(source[n])

\* While the host runs and nobody is attaching or detaching, every open port is
\* the one the plugin knows and it serves all the names: an attach that fails
\* half way leaves nothing behind.
AttachIsWhole ==
    running /\ holder = Nobody /\ bridge = "poll" =>
        \A s \in Slots : open[s] =>
            gPort = <<s, gen[s]>> /\ \A n \in Names : source[n] = gPort

\* Nobody waits for the answer of a closed port, not even of one the host closed
\* because it stops: closing answers whatever is in flight.
NoWaitOnClosed == \A c \in Waiting : IsOpen(call[c].port)

\* Nobody waits for ever for a control message: it is in the ring or in the
\* bridge's hands, and a host that has stopped has neither, however the posting
\* and the stop overlap.
CtlNotLost ==
    \A t \in Sessions : io[t] = "wait" =>
        host # "stopped" /\ (t = client \/ \E i \in 1 .. Len(ctl) : ctl[i] = t)

\* "closes every port" (ext_runtime.nim:2478).
StopClosesPorts == host = "stopped" => \A s \in Slots : ~open[s]
=============================================================================
