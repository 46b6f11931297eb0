------------------------------- MODULE Runtime -------------------------------
(***************************************************************************)
(* src/runtime/{context,error,trace,server,postgres,runtime}.ts: a runtime *)
(* that serves HTTP requests, or runs one test.  A call of a script is a   *)
(* frame; a script may have several calls in flight, and may end before    *)
(* they do, so the frames are a tree whose nodes run interleaved.          *)
(***************************************************************************)
EXTENDS Integers, Sequences, FiniteSets

CONSTANTS
  Modules,      \* the modules of the runtime's config
  Scripts,      \* the scripts of the config; a string names each
  ModuleOf,     \* the module of each script
  Public,       \* the public scripts
  Deps,         \* config.modules[m].dependencies, m itself among them
  HasDb,        \* the modules with a database
  Codes,        \* the codes scripts throw a RuntimeError with
  ErrorsOf,     \* config.modules[m].errors: the codes m configures
  Requests,     \* the HTTP requests
  MaxFrames     \* bound: script calls in all

ASSUME ScriptsAssumption ==
  /\ ModuleOf \in [Scripts -> Modules]
  /\ Public \subseteq Scripts
ASSUME DepsAssumption ==
  /\ Deps \in [Modules -> SUBSET Modules]
  /\ \A m \in Modules : m \in Deps[m]
ASSUME ConfigAssumption ==
  /\ HasDb \subseteq Modules
  /\ ErrorsOf \in [Modules -> SUBSET (Codes \cup {"INTERNAL_ERROR", "CANNOT_ACCESS_MODULE"})]
ASSUME MaxFramesAssumption == MaxFrames \in Nat
\* The frames of a test have no request.
ASSUME RequestsAssumption == "none" \notin Requests

VARIABLES
  role,         \* what the runtime is for: "serve" or "test"
  frames,       \* the calls made so far, in order
  response,     \* per request: "none", "reading", "calling", or its status
  body,         \* per request: the error its 500 response shows
  pools,        \* postgres.pools, per module: "none", "open" or "closed"
  isShutDown,   \* postgres.isShutDown
  shutdownState, \* runtime.shutdown(): "none", "running", "done" or "failed"
  crashed       \* an unhandled rejection has ended the process

vars == <<role, frames, response, body, pools, isShutDown, shutdownState, crashed>>

None == "none"

\* A thrown value.  A RuntimeError has a code, and the module, trace and error
\* config (named by its module) enrich gave it last; an Error has code
\* "Error".  `origin` is the module whose code made it.
NoError == [code |-> None, module |-> None, trace |-> <<>>, config |-> None,
            origin |-> None]
NewError(code, m) == [NoError EXCEPT !.code = code, !.origin = m]
ServerError == NewError("Error", None)

\* RuntimeError.enrich by a module's context.
Enrich(e, m, trace) ==
  [e EXCEPT !.module = m,
            !.trace = trace,
            !.config = IF e.code \in ErrorsOf[m] THEN m ELSE @]

\* A runBlock that only adds context.
CaughtAsIs(e, m, trace) == Enrich(e, m, trace)

\* The catch of runBlock: anything else becomes the cause of an internal error.
Caught(e, m, trace) ==
  Enrich(IF e.code = "Error" THEN [e EXCEPT !.code = "INTERNAL_ERROR"] ELSE e,
         m, trace)

\* newTrace and appendTraceEntry, an entry being what it names.
NewTrace(entry) == <<entry>>
\* A mutant that starts from the request's entry.
AppendToRoot(trace, script) == <<trace[1], script>>
AppendTraceEntry(trace, script) == Append(trace, script)

\* The context and the progress of one call: who called it (a frame, or 0 for
\* the HTTP server and the test runner), and the last error a call it made
\* threw at it.
NewFrame(r, parent, m, script, trace) ==
  [request |-> r, parent |-> parent, module |-> m, script |-> script,
   trace |-> trace, state |-> "running", received |-> NoError, error |-> NoError]

Running(i) == i \in DOMAIN frames /\ frames[i].state = "running"

Init ==
  /\ role \in {"serve", "test"}
  /\ frames = <<>>
  /\ response = [r \in Requests |-> None]
  /\ body = [r \in Requests |-> NoError]
  /\ pools = [m \in Modules |-> None]
  /\ isShutDown = FALSE
  /\ shutdownState = None
  /\ crashed = FALSE

-----------------------------------------------------------------------------
\* getOrCreatePool: what it does to the pools, and when it throws.  The mutants
\* forget the pool they made, and the shutdown.
PoolsForgotten(m) == pools
NeverRefused(m) == FALSE
PoolsWith(m) == IF m \in HasDb /\ pools[m] = None
                  THEN [pools EXCEPT ![m] = "open"] ELSE pools
PoolRefused(m) == m \in HasDb /\ isShutDown

\* handleRequest up to the body: a POST to the call route of a public script,
\* or anything else, which gets the 404 response.
Request(r) ==
  /\ role = "serve" /\ response[r] = None
  /\ response' = [response EXCEPT ![r] = "reading"]
  /\ UNCHANGED <<role, crashed, frames, body, pools, isShutDown, shutdownState>>

NotFound(r) ==
  /\ response[r] = "reading"
  /\ response' = [response EXCEPT ![r] = "404"]
  /\ UNCHANGED <<role, crashed, frames, body, pools, isShutDown, shutdownState>>

\* req.json() rejects.
BadBody(r) ==
  /\ response[r] = "reading"
  /\ response' = [response EXCEPT ![r] = "400"]
  /\ UNCHANGED <<role, crashed, frames, body, pools, isShutDown, shutdownState>>

\* The mutant takes every script for public.
AnyScript(s) == s \in Scripts
CallableByHttp(s) == s \in Public

\* The root context calls the script; it may call every module.
HttpCall(r, s) ==
  /\ response[r] = "reading"
  /\ CallableByHttp(s)
  /\ Len(frames) < MaxFrames
  /\ response' = [response EXCEPT ![r] = "calling"]
  /\ frames' = Append(frames, NewFrame(r, 0, ModuleOf[s], s,
                                AppendTraceEntry(NewTrace("http"), s)))
  /\ pools' = PoolsWith(ModuleOf[s])
  /\ UNCHANGED <<role, crashed, body, isShutDown, shutdownState>>

\* Runtime.test: the function of the test runs in a module's context.
StartTest(m) ==
  /\ role = "test" /\ frames = <<>> /\ MaxFrames > 0
  /\ frames' = <<NewFrame(None, 0, m, None, NewTrace("test"))>>
  /\ pools' = PoolsWith(m)
  /\ UNCHANGED <<role, crashed, response, body, isShutDown, shutdownState>>

\* createPrisma throws in the root context's call, before any script runs.
HttpCallThrows(r, s) ==
  /\ response[r] = "reading"
  /\ CallableByHttp(s)
  /\ PoolsWith(ModuleOf[s]) # pools
  /\ response' = [response EXCEPT ![r] = "500"]
  /\ body' = [body EXCEPT ![r] = ServerError]
  /\ UNCHANGED <<role, crashed, frames, pools, isShutDown, shutdownState>>

\* ModuleContext.isAllowedModuleName
IsAllowedModuleName(m, target) == target \in Deps[m]

\* ctx.call by frame i: the callee's frame.
Call(i, s) ==
  LET target == ModuleOf[s]
  IN  /\ Running(i) /\ Len(frames) < MaxFrames
      /\ IsAllowedModuleName(frames[i].module, target)
      /\ ~PoolRefused(target)
      /\ frames' = Append(frames, NewFrame(frames[i].request, i, target, s,
                                    AppendTraceEntry(frames[i].trace, s)))
      /\ pools' = PoolsWith(target)
      /\ UNCHANGED <<role, crashed, response, body, isShutDown, shutdownState>>

\* A call of a script rejects.  When its caller does not await it, having ended
\* or not, Deno ends the process, with all requests in flight: nothing in
\* src/runtime handles the rejection of a promise nobody looks at.
Rejects == crashed' \in {crashed, TRUE}

\* ctx.call that throws at its caller, outside the callee's block: the module
\* is not a dependency; it, or its script, does not exist; Postgres is shut
\* down; or createPrisma throws.
CallThrows(i) ==
  /\ Running(i)
  /\ \E e \in {NewError("CANNOT_ACCESS_MODULE", frames[i].module),
               NewError("Error", frames[i].module)} :
       /\ e.code = "CANNOT_ACCESS_MODULE" =>
            \E m \in Modules : ~IsAllowedModuleName(frames[i].module, m)
       /\ frames' = [frames EXCEPT ![i].received = e]
  /\ Rejects
  /\ UNCHANGED <<role, response, body, pools, isShutDown, shutdownState>>

\* Is this the call handleRequest awaits?  The mutants answer when a nested
\* call settles, and forget to catch.
NestedAnswers(f) == f.request \in Requests
OnlyReturnAnswers(f) == f.parent = 0 /\ f.request \in Requests /\ f.state = "returned"
Answers(f) == f.parent = 0 /\ f.request \in Requests

\* What the promise of frame i's call does to the one who called it: the HTTP
\* server answers, a running script receives the error, and an error nobody
\* receives may end the process.  The frame ends as f; the response would be
\* `status`, and show e.
Settle(i, f, status, e) ==
  LET p == f.parent
  IN  /\ frames' = [k \in DOMAIN frames |->
                      IF k = i THEN f
                      ELSE IF k = p /\ f.state = "threw" /\ Running(p)
                             THEN [frames[p] EXCEPT !.received = f.error]
                      ELSE frames[k]]
      /\ IF Answers(f)
           THEN /\ response' = [response EXCEPT ![f.request] = status]
                /\ body' = [body EXCEPT ![f.request] = e]
           ELSE UNCHANGED <<response, body>>
      /\ IF p # 0 /\ f.state = "threw" THEN Rejects ELSE UNCHANGED crashed
      /\ UNCHANGED <<role, pools, isShutDown, shutdownState>>

\* The script's function returns; some of its calls may still run.  The server
\* cannot send every value: it throws at undefined, and at what has no JSON.
Return(i) ==
  LET f == [frames[i] EXCEPT !.state = "returned"]
  IN  /\ Running(i)
      /\ Settle(i, f, "200", NoError) \/ Settle(i, f, "500", ServerError)

\* The script's function throws e out of its runBlock.
Throw(i, e) ==
  LET error == Caught(e, frames[i].module, frames[i].trace)
      f == [frames[i] EXCEPT !.state = "threw", !.error = error]
  IN  Settle(i, f, "500", error)

\* It throws an error of its own, or lets one through that a call threw.
ThrowOwn(i) ==
  /\ Running(i)
  /\ \E code \in Codes \cup {"Error"} : Throw(i, NewError(code, frames[i].module))

Rethrow(i) ==
  /\ Running(i)
  /\ frames[i].received # NoError
  /\ Throw(i, frames[i].received)

\* runtime.shutdown() when the test has ended, however it did.
Shutdown ==
  /\ role = "test" /\ frames # <<>> /\ frames[1].state # "running"
  /\ shutdownState = None
  /\ isShutDown' = TRUE
  /\ shutdownState' = "running"
  /\ UNCHANGED <<role, crashed, frames, response, body, pools>>

\* The loop of Postgres.shutdown: one pool after another, until one fails.
Disconnect(m) ==
  /\ shutdownState = "running"
  /\ pools[m] = "open"
  /\ \/ pools' = [pools EXCEPT ![m] = "closed"] /\ UNCHANGED shutdownState
     \/ shutdownState' = "failed" /\ UNCHANGED pools
  /\ UNCHANGED <<role, crashed, frames, response, body, isShutDown>>

ShutdownDone ==
  /\ shutdownState = "running"
  /\ \A m \in Modules : pools[m] # "open"
  /\ shutdownState' = "done"
  /\ UNCHANGED <<role, crashed, frames, response, body, pools, isShutDown>>

-----------------------------------------------------------------------------
Ends(i) == Return(i) \/ ThrowOwn(i) \/ Rethrow(i)

FrameRuns(i) ==
  \/ \E s \in Scripts : Call(i, s)
  \/ CallThrows(i)
  \/ Ends(i)

Serve(r) == \/ NotFound(r) \/ BadBody(r)
            \/ \E s \in Scripts : HttpCall(r, s) \/ HttpCallThrows(r, s)

Next ==
  /\ ~crashed
  /\ \/ \E r \in Requests : Request(r) \/ Serve(r)
     \/ \E m \in Modules : StartTest(m) \/ Disconnect(m)
     \/ \E i \in DOMAIN frames : FrameRuns(i)
     \/ Shutdown
     \/ ShutdownDone

\* While the process lives, a script's function does not run forever, and a
\* body arrives or fails.
Spec == Init /\ [][Next]_vars
             /\ \A r \in Requests : WF_vars(~crashed /\ Serve(r))
             /\ \A i \in 1..MaxFrames : WF_vars(~crashed /\ Ends(i))

-----------------------------------------------------------------------------
ErrorCodes == Codes \cup {None, "Error", "INTERNAL_ERROR", "CANNOT_ACCESS_MODULE"}
IsTrace(t) == \A k \in DOMAIN t : t[k] \in Scripts \cup {"http", "test"}
IsError(e) ==
  /\ e.code \in ErrorCodes
  /\ {e.module, e.config, e.origin} \subseteq Modules \cup {None}
  /\ IsTrace(e.trace)

\* The state is well typed.
TypeOK ==
  /\ role \in {"serve", "test"}
  /\ Len(frames) <= MaxFrames
  /\ \A i \in DOMAIN frames :
       /\ frames[i].request \in Requests \cup {None}
       /\ frames[i].parent \in 0..(i - 1)
       /\ frames[i].module \in Modules
       /\ frames[i].script \in Scripts \cup {None}
       /\ frames[i].state \in {"running", "returned", "threw"}
       /\ IsTrace(frames[i].trace)
       /\ IsError(frames[i].received) /\ IsError(frames[i].error)
       /\ frames[i].error.code # "Error"
  /\ response \in [Requests -> {None, "reading", "calling", "404", "400", "200", "500"}]
  /\ \A r \in Requests : IsError(body[r])
  /\ pools \in [Modules -> {None, "open", "closed"}]
  /\ isShutDown \in BOOLEAN
  /\ shutdownState \in {None, "running", "done", "failed"}
  /\ crashed \in BOOLEAN

\* A trace is the chain of calls that led to its frame, whatever its siblings
\* and the other requests call meanwhile, and each link of the chain is a
\* dependency the calling module declares.
TraceIsCallChain ==
  \A i \in DOMAIN frames :
    LET f == frames[i]
        p == frames[f.parent]
        n == Len(f.trace)
    IN  /\ f.script # None => f.trace[n] = f.script
        /\ f.parent # 0 =>
             /\ n = Len(p.trace) + 1
             /\ \A k \in 1..(n - 1) : f.trace[k] = p.trace[k]
             /\ f.request = p.request
        /\ \A k \in 2..(n - 1) :
             ModuleOf[f.trace[k + 1]] \in Deps[ModuleOf[f.trace[k]]]

\* A script that is not public runs for another script or for a test, never
\* for a request directly; and a request that is refused runs nothing.
PrivateFromInside ==
  \A i \in DOMAIN frames :
    /\ role = "serve" /\ frames[i].script \notin Public => frames[i].parent # 0
    /\ frames[i].request \in Requests =>
         response[frames[i].request] \in {"calling", "200", "500"}

\* The response tells how the requested script ended, and an error response
\* shows that script's module and the trace of its call, or an error of the
\* server: a script's error is never shown as another request's, with another
\* call's trace, or as a success.
ResponseMatchesCall ==
  \A r \in Requests :
    LET Answered(state) == {i \in DOMAIN frames : /\ frames[i].request = r
                                                  /\ frames[i].parent = 0
                                                  /\ frames[i].state = state}
    IN  /\ response[r] = "200" => Answered("returned") # {}
        /\ response[r] = "500" =>
             IF body[r] = ServerError THEN Answered("threw") = {}
             ELSE \E i \in Answered("threw") : /\ body[r].module = frames[i].module
                                               /\ body[r].trace = frames[i].trace

\* After shutdown starts no connection pool is opened, however many calls the
\* test left running; when it is done none is open.
PoolsStayClosed ==
  [][/\ isShutDown => \A m \in Modules : pools'[m] = "open" => pools[m] = "open"
     /\ shutdownState' = "done" => \A m \in Modules : pools'[m] # "open"]_vars

\* A module with a database has its pool as long as a frame of it may query:
\* from its call until the shutdown.
FrameHasPool ==
  \A i \in DOMAIN frames :
    Running(i) /\ frames[i].module \in HasDb /\ ~isShutDown =>
      pools[frames[i].module] = "open"

\* Every request is answered, whatever the calls its script leaves running do,
\* unless one that nobody awaits rejects and ends the process.
RequestAnswered ==
  \A r \in Requests :
    response[r] # None ~> response[r] \in {"404", "400", "200", "500"} \/ crashed

\* "The module this error originated from." (error.ts:12)
ErrorNamesOrigin ==
  \A r \in Requests : response[r] = "500" => body[r].module = body[r].origin
=============================================================================
