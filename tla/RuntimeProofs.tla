---------------------------- MODULE RuntimeProofs ----------------------------
(***************************************************************************)
(* Theorems about the runtime, for every config, every set of requests and *)
(* every interleaving of their calls: whose trace, response and pool a     *)
(* call has, and that no pool is opened any more after a shutdown.         *)
(***************************************************************************)
EXTENDS Runtime, TLAPS

USE ScriptsAssumption, MaxFramesAssumption, RequestsAssumption

\* Whom a frame runs for, what it runs (None: a test's function), and traces.
Askers == Requests \cup {None}
Bodies == Scripts \cup {None}
Entries == Scripts \cup {"http", "test"}
ErrorType == [code : ErrorCodes, module : Modules \cup {None}, trace : Seq(Entries),
              config : Modules \cup {None}, origin : Modules \cup {None}]
FrameType == [request : Askers, parent : Nat, module : Modules, script : Bodies,
              trace : Seq(Entries),
              state : {"running", "returned", "threw"},
              received : ErrorType, error : ErrorType]

Typed ==
  /\ role \in {"serve", "test"}
  /\ frames \in Seq(FrameType) /\ Len(frames) <= MaxFrames
  /\ \A i \in DOMAIN frames : frames[i].parent < i /\ frames[i].error.code # "Error"
  /\ response \in [Requests -> {None, "reading", "calling", "404", "400", "200", "500"}]
  /\ body \in [Requests -> ErrorType]
  /\ pools \in [Modules -> {None, "open", "closed"}]
  /\ isShutDown \in BOOLEAN
  /\ shutdownState \in {None, "running", "done", "failed"}

-----------------------------------------------------------------------------
\* Errors are typed,
LEMMA ErrorsTyped ==
  /\ NoError \in ErrorType /\ ServerError \in ErrorType
  /\ NoError.code # "Error" /\ ServerError.code = "Error"
  /\ \A code \in ErrorCodes, m \in Modules : NewError(code, m) \in ErrorType
<1>1. <<>> \in Seq(Entries)
  OBVIOUS
<1>2. NoError \in ErrorType
  BY <1>1 DEF NoError, ErrorType, ErrorCodes
<1> QED
  BY <1>1, <1>2 DEF NoError, ServerError, NewError, ErrorType, ErrorCodes, None

\* also when a module's context has been added.
LEMMA CaughtTyped ==
  ASSUME NEW e \in ErrorType, NEW m \in Modules, NEW trace \in Seq(Entries)
  PROVE  /\ Caught(e, m, trace) \in ErrorType /\ Caught(e, m, trace).code # "Error"
         /\ Caught(e, m, trace).module = m /\ Caught(e, m, trace).trace = trace
<1> DEFINE x == IF e.code = "Error" THEN [e EXCEPT !.code = "INTERNAL_ERROR"] ELSE e
<1>1. x \in ErrorType /\ x.code # "Error"
  BY DEF ErrorType, ErrorCodes
<1>2. Caught(e, m, trace) = Enrich(x, m, trace)
  BY DEF Caught
<1> HIDE DEF x
<1>3. /\ Enrich(x, m, trace) \in ErrorType /\ Enrich(x, m, trace).code = x.code
      /\ Enrich(x, m, trace).module = m /\ Enrich(x, m, trace).trace = trace
  BY <1>1 DEF Enrich, ErrorType
<1> QED
  BY <1>1, <1>2, <1>3

\* A new frame has what it is given.
LEMMA NewFrameTyped ==
  ASSUME NEW r \in Askers, NEW parent \in Nat, NEW m \in Modules,
         NEW script \in Bodies, NEW trace \in Seq(Entries),
         NEW f, f = NewFrame(r, parent, m, script, trace)
  PROVE  /\ f \in FrameType /\ f.error.code # "Error"
         /\ f.request = r /\ f.parent = parent /\ f.module = m /\ f.script = script
         /\ f.trace = trace /\ f.state = "running"
BY ErrorsTyped DEF NewFrame, FrameType

\* A function on 1..n is a sequence.
LEMMA FunctionIsSeq ==
  ASSUME NEW S, NEW n \in Nat, NEW g \in [1..n -> S] PROVE g \in Seq(S) /\ Len(g) = n
OBVIOUS

\* A step that makes frame f,
Adds(f) ==
  /\ frames' = Append(frames, f) /\ f \in FrameType /\ f.error.code # "Error"
  /\ f.parent <= Len(frames) /\ Len(frames) < MaxFrames /\ f.state = "running"

\* and one that leaves alone what the frames are, and ends at most some of them.
Touches ==
  /\ Len(frames') = Len(frames) /\ frames' \in Seq(FrameType)
  /\ \A k \in DOMAIN frames :
       /\ frames'[k].request = frames[k].request /\ frames'[k].parent = frames[k].parent
       /\ frames'[k].module = frames[k].module /\ frames'[k].script = frames[k].script
       /\ frames'[k].trace = frames[k].trace
       /\ frames'[k].error.code # "Error"
       /\ frames'[k].state = "running" => frames[k].state = "running"

\* A call that is added keeps the calls well typed.
LEMMA AddsTyped ==
  ASSUME Typed, NEW f, Adds(f)
  PROVE  /\ frames' \in Seq(FrameType) /\ Len(frames') = Len(frames) + 1 /\ Len(frames') <= MaxFrames
         /\ \A k \in DOMAIN frames : frames'[k] = frames[k]
         /\ frames'[Len(frames) + 1] = f /\ DOMAIN frames' = 1..(Len(frames) + 1)
         /\ DOMAIN frames = 1..Len(frames) /\ Len(frames) \in Nat
         /\ \A i \in DOMAIN frames' : frames'[i].parent < i /\ frames'[i].error.code # "Error"
<1>1. /\ frames' \in Seq(FrameType) /\ Len(frames') = Len(frames) + 1 /\ Len(frames') <= MaxFrames
      /\ \A k \in DOMAIN frames : frames'[k] = frames[k]
      /\ frames'[Len(frames) + 1] = f /\ DOMAIN frames' = 1..(Len(frames) + 1)
      /\ DOMAIN frames = 1..Len(frames) /\ Len(frames) \in Nat
  BY DEF Typed, Adds
<1>2. f.parent \in Nat /\ f.parent < Len(frames) + 1
  BY <1>1 DEF Adds, FrameType
<1>3. ASSUME NEW i \in DOMAIN frames' PROVE frames'[i].parent < i /\ frames'[i].error.code # "Error"
  <2>1. CASE i \in DOMAIN frames
    BY <1>1, <2>1 DEF Typed
  <2>2. CASE i = Len(frames) + 1
    BY <1>1, <1>2, <2>2 DEF Adds
  <2> QED
    BY <1>1, <2>1, <2>2
<1> QED
  BY <1>1, <1>3

\* A step that changes the state of calls alone keeps them well typed.
LEMMA TouchesTyped ==
  ASSUME Typed, Touches
  PROVE  /\ frames' \in Seq(FrameType) /\ Len(frames') <= MaxFrames
         /\ DOMAIN frames' = DOMAIN frames /\ DOMAIN frames = 1..Len(frames) /\ Len(frames) \in Nat
         /\ \A i \in DOMAIN frames' : frames'[i].parent < i /\ frames'[i].error.code # "Error"
BY DEF Typed, Touches

\* Pools are made for modules only.
LEMMA PoolsTyped ==
  ASSUME Typed, NEW m \in Modules
  PROVE  /\ PoolsWith(m) \in [Modules -> {None, "open", "closed"}]
         /\ \A n \in Modules : PoolsWith(m)[n] = pools[n] \/ (n = m /\ m \in HasDb /\ PoolsWith(m)[n] = "open")
         /\ m \in HasDb /\ pools[m] # "closed" => PoolsWith(m)[m] = "open"
<1>1. CASE m \in HasDb /\ pools[m] = None
  <2>1. PoolsWith(m) = [pools EXCEPT ![m] = "open"]
    BY <1>1 DEF PoolsWith
  <2> QED
    BY <1>1, <2>1 DEF Typed
<1>2. CASE ~(m \in HasDb /\ pools[m] = None)
  <2>1. PoolsWith(m) = pools
    BY <1>2 DEF PoolsWith
  <2> QED
    BY <1>2, <2>1 DEF Typed
<1> QED
  BY <1>1, <1>2

\* The settling of a call ends its frame, and tells one who called it.
LEMMA SettleTouches ==
  ASSUME Typed, NEW i \in DOMAIN frames, Running(i), NEW f \in FrameType, NEW status, NEW e,
         f.request = frames[i].request, f.parent = frames[i].parent, f.module = frames[i].module,
         f.script = frames[i].script, f.trace = frames[i].trace, f.state # "running",
         f.error.code # "Error", Settle(i, f, status, e)
  PROVE  /\ Touches /\ frames'[i].state = f.state
         /\ \A k \in DOMAIN frames \ {i} : frames'[k].state = frames[k].state
         /\ UNCHANGED <<role, pools, isShutDown, shutdownState>>
<1>t. /\ frames \in Seq(FrameType) /\ DOMAIN frames = 1..Len(frames) /\ Len(frames) \in Nat
      /\ \A k \in DOMAIN frames : frames[k] \in FrameType /\ frames[k].error.code # "Error"
      /\ f.error \in ErrorType
  <2>1. f.error \in ErrorType
    BY DEF FrameType
  <2>2. \A k \in DOMAIN frames : frames[k] \in FrameType /\ frames[k].error.code # "Error"
    BY DEF Typed
  <2> QED
    BY <2>1, <2>2 DEF Typed
<1> DEFINE p == f.parent
           F(k) == IF k = i THEN f
                   ELSE IF k = p /\ f.state = "threw" /\ Running(p)
                          THEN [frames[p] EXCEPT !.received = f.error]
                   ELSE frames[k]
<1>1. frames' = [k \in DOMAIN frames |-> F(k)] /\ UNCHANGED <<role, pools, isShutDown, shutdownState>>
  BY DEF Settle
<1>2. ASSUME NEW k \in DOMAIN frames
      PROVE  /\ F(k) \in FrameType
             /\ F(k).request = frames[k].request /\ F(k).parent = frames[k].parent
             /\ F(k).module = frames[k].module /\ F(k).script = frames[k].script
             /\ F(k).trace = frames[k].trace /\ F(k).error.code # "Error"
             /\ (k # i => F(k).state = frames[k].state) /\ (k = i => F(k).state = f.state)
  <2>1. CASE k = i
    BY <1>t, <2>1
  <2>2. CASE k # i /\ k = p /\ f.state = "threw" /\ Running(p)
    <3> DEFINE g == [frames[k] EXCEPT !.received = f.error]
    <3>1. F(k) = g /\ frames[k] \in FrameType
      BY <1>t, <2>2
    <3>2. /\ g \in FrameType /\ g.request = frames[k].request /\ g.parent = frames[k].parent
          /\ g.module = frames[k].module /\ g.script = frames[k].script /\ g.trace = frames[k].trace
          /\ g.error = frames[k].error /\ g.state = frames[k].state
      BY <1>t, <3>1 DEF FrameType
    <3> QED
      BY <1>t, <2>2, <3>1, <3>2
  <2>3. CASE k # i /\ ~(k = p /\ f.state = "threw" /\ Running(p))
    BY <1>t, <2>3
  <2> QED
    BY <2>1, <2>2, <2>3
<1> HIDE DEF F
<1>3. frames' \in [1..Len(frames) -> FrameType] /\ \A k \in DOMAIN frames : frames'[k] = F(k)
  BY <1>t, <1>1, <1>2
<1>4. frames' \in Seq(FrameType) /\ Len(frames') = Len(frames)
  BY <1>t, <1>3, FunctionIsSeq
<1>5. frames[i].state = "running"
  BY DEF Running
<1> QED
  BY <1>1, <1>2, <1>3, <1>4, <1>5 DEF Touches

\* What Append appends.
LEMMA AppendLast ==
  ASSUME NEW S, NEW t \in Seq(S), NEW s \in S
  PROVE  /\ Append(t, s) \in Seq(S) /\ Len(Append(t, s)) = Len(t) + 1
         /\ Append(t, s)[Len(t) + 1] = s
         /\ \A k \in 1..Len(t) : Append(t, s)[k] = t[k]
OBVIOUS

\* A trace that starts, or goes on, with a script.
LEMMA TracesTyped ==
  /\ \A s \in Scripts : /\ AppendTraceEntry(NewTrace("http"), s) \in Seq(Entries)
                        /\ Len(AppendTraceEntry(NewTrace("http"), s)) = 2
                        /\ AppendTraceEntry(NewTrace("http"), s)[2] = s
                        /\ ModuleOf[s] \in Modules
  /\ NewTrace("test") \in Seq(Entries) /\ Len(NewTrace("test")) = 1
<1>1. /\ NewTrace("http") \in Seq(Entries) /\ Len(NewTrace("http")) = 1
      /\ NewTrace("test") \in Seq(Entries) /\ Len(NewTrace("test")) = 1
  BY DEF NewTrace, Entries
<1>2. ASSUME NEW s \in Scripts
      PROVE  /\ AppendTraceEntry(NewTrace("http"), s) \in Seq(Entries)
             /\ Len(AppendTraceEntry(NewTrace("http"), s)) = 2
             /\ AppendTraceEntry(NewTrace("http"), s)[2] = s
             /\ ModuleOf[s] \in Modules
  <2>t. PICK t : t = NewTrace("http")
    OBVIOUS
  <2>1. s \in Entries /\ t \in Seq(Entries) /\ Len(t) = 1 /\ ModuleOf[s] \in Modules
    BY <1>1, <2>t DEF Entries
  <2>2. AppendTraceEntry(t, s) = Append(t, s)
    BY DEF AppendTraceEntry
  <2>i. s \in Entries /\ t \in Seq(Entries)
    BY <2>1
  <2>3. /\ Append(t, s) \in Seq(Entries) /\ Len(Append(t, s)) = Len(t) + 1
        /\ Append(t, s)[Len(t) + 1] = s
    BY <2>i, AppendLast
  <2>4. Len(t) + 1 = 2
    BY <2>1
  <2> QED
    BY <2>t, <2>1, <2>2, <2>3, <2>4
<1> QED
  BY <1>1, <1>2

\* How the step of each action makes or touches frames: a request calls,
HttpCalls(r, s) ==
  \E f : /\ Adds(f) /\ f.request = r /\ f.parent = 0 /\ f.module = ModuleOf[s] /\ f.script = s
         /\ Len(f.trace) = 2 /\ f.trace[2] = s
\* a test starts,
Tests(m) ==
  \E f : /\ Adds(f) /\ f.request = None /\ f.parent = 0 /\ f.module = m /\ f.script = None
         /\ Len(f.trace) = 1
\* and a frame calls.
Nests(i, s) ==
  \E f : /\ Adds(f) /\ f.request = frames[i].request /\ f.parent = i /\ f.module = ModuleOf[s]
         /\ f.script = s /\ f.trace = Append(frames[i].trace, s)

\* Handling a request adds the root of a tree of calls.
LEMMA HttpCallAdds ==
  ASSUME Typed, NEW r \in Requests, NEW s \in Scripts, HttpCall(r, s) PROVE HttpCalls(r, s)
<1> DEFINE trace == AppendTraceEntry(NewTrace("http"), s)
<1>1. /\ trace \in Seq(Entries) /\ Len(trace) = 2 /\ trace[2] = s /\ ModuleOf[s] \in Modules
  BY TracesTyped
<1>2. frames' = Append(frames, NewFrame(r, 0, ModuleOf[s], s, trace)) /\ Len(frames) < MaxFrames
  BY DEF HttpCall
<1> HIDE DEF trace
<1>3. PICK f : f = NewFrame(r, 0, ModuleOf[s], s, trace)
  OBVIOUS
<1>4. /\ f \in FrameType /\ f.error.code # "Error"
      /\ f.request = r /\ f.parent = 0 /\ f.module = ModuleOf[s] /\ f.script = s
      /\ f.trace = trace /\ f.state = "running"
  <2>1. r \in Askers /\ s \in Bodies /\ 0 \in Nat
    BY DEF Askers, Bodies
  <2> QED
    BY <1>1, <1>3, <2>1, NewFrameTyped
<1>5. Len(frames) \in Nat
  BY DEF Typed
<1>6. Adds(f)
  BY <1>2, <1>3, <1>4, <1>5 DEF Adds
<1> QED
  BY <1>1, <1>4, <1>6 DEF HttpCalls

\* A test adds a root too, of no request.
LEMMA StartTestAdds ==
  ASSUME Typed, NEW m \in Modules, StartTest(m) PROVE Tests(m)
<1> DEFINE trace == NewTrace("test")
<1>1. trace \in Seq(Entries) /\ Len(trace) = 1
  BY TracesTyped
<1>2. frames = <<>> /\ frames' = <<NewFrame(None, 0, m, None, trace)>> /\ MaxFrames > 0
  BY DEF StartTest
<1> HIDE DEF trace
<1>3. PICK f : f = NewFrame(None, 0, m, None, trace)
  OBVIOUS
<1>4. /\ f \in FrameType /\ f.error.code # "Error"
      /\ f.request = None /\ f.parent = 0 /\ f.module = m /\ f.script = None
      /\ f.trace = trace /\ f.state = "running"
  <2>1. None \in Askers /\ None \in Bodies /\ 0 \in Nat
    BY DEF Askers, Bodies
  <2> QED
    BY <1>1, <1>3, <2>1, NewFrameTyped
<1>5. frames' = Append(frames, f) /\ Len(frames) = 0
  BY <1>2, <1>3
<1>6. Adds(f)
  BY <1>2, <1>4, <1>5 DEF Adds
<1> QED
  BY <1>1, <1>4, <1>6 DEF Tests

\* A call of a script adds a call below its caller.
LEMMA CallAdds ==
  ASSUME Typed, NEW i \in DOMAIN frames, NEW s \in Scripts, Call(i, s) PROVE Nests(i, s)
<1> DEFINE trace == AppendTraceEntry(frames[i].trace, s)
<1>t. /\ frames[i] \in FrameType /\ i \in Nat /\ i <= Len(frames) /\ ModuleOf[s] \in Modules
      /\ frames[i].trace \in Seq(Entries) /\ frames[i].request \in Askers /\ s \in Entries
  <2>1. frames[i] \in FrameType /\ i \in Nat /\ i <= Len(frames)
    BY DEF Typed
  <2>2. frames[i].trace \in Seq(Entries) /\ frames[i].request \in Askers
    BY <2>1 DEF FrameType
  <2> QED
    BY <2>1, <2>2 DEF Entries
<1>1. trace = Append(frames[i].trace, s) /\ trace \in Seq(Entries)
  BY <1>t DEF AppendTraceEntry
<1>2. /\ frames' = Append(frames, NewFrame(frames[i].request, i, ModuleOf[s], s, trace))
      /\ Len(frames) < MaxFrames
  BY DEF Call
<1> HIDE DEF trace
<1>3. PICK f : f = NewFrame(frames[i].request, i, ModuleOf[s], s, trace)
  OBVIOUS
<1>4. /\ f \in FrameType /\ f.error.code # "Error"
      /\ f.request = frames[i].request /\ f.parent = i /\ f.module = ModuleOf[s] /\ f.script = s
      /\ f.trace = trace /\ f.state = "running"
  <2>1. s \in Bodies
    BY DEF Bodies
  <2>r. PICK r \in Askers : r = frames[i].request
    BY <1>t
  <2>n. PICK n \in Nat : n = i
    BY <1>t
  <2>m. PICK m \in Modules : m = ModuleOf[s]
    BY <1>t
  <2>t. PICK t \in Seq(Entries) : t = trace
    BY <1>1
  <2>3. f = NewFrame(r, n, m, s, t)
    BY <1>3, <2>r, <2>n, <2>m, <2>t
  <2>4. /\ f \in FrameType /\ f.error.code # "Error"
        /\ f.request = r /\ f.parent = n /\ f.module = m /\ f.script = s
        /\ f.trace = t /\ f.state = "running"
    BY <2>1, <2>3, NewFrameTyped
  <2> QED
    BY <2>4, <2>r, <2>n, <2>m, <2>t
<1>5. Adds(f)
  BY <1>t, <1>2, <1>3, <1>4 DEF Adds
<1> QED
  BY <1>1, <1>4, <1>5 DEF Nests

\* A call that is refused adds none: it leaves the caller with an error.
LEMMA CallThrowsTouches ==
  ASSUME Typed, NEW i \in DOMAIN frames, CallThrows(i)
  PROVE  Touches /\ \A k \in DOMAIN frames : frames'[k].state = frames[k].state
<1>t. frames \in Seq(FrameType) /\ DOMAIN frames = 1..Len(frames) /\ Len(frames) \in Nat
      /\ \A k \in DOMAIN frames : frames[k] \in FrameType /\ frames[k].error.code # "Error"
  BY DEF Typed
<1>1. PICK e \in ErrorType : frames' = [frames EXCEPT ![i].received = e]
  <2>1. frames[i].module \in Modules /\ {"CANNOT_ACCESS_MODULE", "Error"} \subseteq ErrorCodes
    BY <1>t DEF FrameType, ErrorCodes
  <2> QED
    BY <2>1, ErrorsTyped DEF CallThrows
<1> DEFINE g == [frames[i] EXCEPT !.received = e]
<1>2. /\ g \in FrameType /\ g.request = frames[i].request /\ g.parent = frames[i].parent
      /\ g.module = frames[i].module /\ g.script = frames[i].script /\ g.trace = frames[i].trace
      /\ g.error = frames[i].error /\ g.state = frames[i].state
  BY <1>t DEF FrameType
<1>3. frames' = [frames EXCEPT ![i] = g]
  BY <1>1
<1> HIDE DEF g
<1>4. frames' \in Seq(FrameType) /\ Len(frames') = Len(frames)
      /\ \A k \in DOMAIN frames : frames'[k] = IF k = i THEN g ELSE frames[k]
  BY <1>t, <1>2, <1>3
<1> QED
  BY <1>t, <1>2, <1>4 DEF Touches

\* The end of a call: its frame has ended, in a state, with others as they were;
Ended(i, state) ==
  /\ Touches /\ frames'[i].state = state /\ frames[i].state = "running"
  /\ \A k \in DOMAIN frames \ {i} : frames'[k].state = frames[k].state
  /\ UNCHANGED <<role, pools, isShutDown, shutdownState>>
\* and what the server then answers, if it is a request's.
Tells(i, status, e) ==
  IF frames[i].parent = 0 /\ frames[i].request \in Requests
    THEN /\ response' = [response EXCEPT ![frames[i].request] = status]
         /\ body' = [body EXCEPT ![frames[i].request] = e]
    ELSE UNCHANGED <<response, body>>

\* A frame returns, and its value may not be one the server can send;
Returns(i) == Ended(i, "returned") /\ (Tells(i, "200", NoError) \/ Tells(i, "500", ServerError))
\* or it throws.
Throws(i) ==
  /\ Ended(i, "threw")
  /\ \E e \in ErrorType : /\ Tells(i, "500", e) /\ e # ServerError
                          /\ e.module = frames[i].module /\ e.trace = frames[i].trace

\* A script that returns: its caller, if it has one, goes on with the value.
LEMMA ReturnEffects ==
  ASSUME Typed, NEW i \in DOMAIN frames, Return(i) PROVE Returns(i)
<1>t. frames[i] \in FrameType /\ frames[i].error.code # "Error" /\ frames[i].state = "running"
  BY DEF Typed, Return, Running
<1>f. PICK f : f = [frames[i] EXCEPT !.state = "returned"]
  OBVIOUS
<1>1. /\ f \in FrameType /\ f.request = frames[i].request /\ f.parent = frames[i].parent
      /\ f.module = frames[i].module /\ f.script = frames[i].script /\ f.trace = frames[i].trace
      /\ f.error = frames[i].error /\ f.state = "returned"
  BY <1>t, <1>f DEF FrameType
<1>2. Running(i) /\ (Settle(i, f, "200", NoError) \/ Settle(i, f, "500", ServerError))
  BY <1>f DEF Return
<1>3. ASSUME NEW status, NEW e, Settle(i, f, status, e)
      PROVE  Ended(i, "returned") /\ Tells(i, status, e)
  <2>1. /\ Touches /\ frames'[i].state = f.state
        /\ \A k \in DOMAIN frames \ {i} : frames'[k].state = frames[k].state
        /\ UNCHANGED <<role, pools, isShutDown, shutdownState>>
    BY <1>t, <1>1, <1>2, <1>3, SettleTouches
  <2>2. Tells(i, status, e)
    BY <1>1, <1>3 DEF Settle, Answers, Tells
  <2> QED
    BY <1>t, <1>1, <2>1, <2>2 DEF Ended
<1> QED
  BY <1>2, <1>3 DEF Returns

\* A script that throws its own error or the one it was given.
LEMMA ThrowEffects ==
  ASSUME Typed, NEW i \in DOMAIN frames, ThrowOwn(i) \/ Rethrow(i) PROVE Throws(i)
<1>t. /\ frames[i] \in FrameType /\ frames[i].state = "running" /\ Running(i)
      /\ frames[i].module \in Modules /\ frames[i].trace \in Seq(Entries)
      /\ frames[i].received \in ErrorType
  <2>1. frames[i] \in FrameType /\ Running(i)
    BY DEF Typed, ThrowOwn, Rethrow
  <2> QED
    BY <2>1 DEF FrameType, Running
<1>1. PICK x \in ErrorType : Throw(i, x)
  <2>1. CASE ThrowOwn(i)
    <3>1. PICK code \in Codes \cup {"Error"} : Throw(i, NewError(code, frames[i].module))
      BY <2>1 DEF ThrowOwn
    <3>2. code \in ErrorCodes
      BY DEF ErrorCodes
    <3> QED
      BY <1>t, <3>1, <3>2, ErrorsTyped
  <2>2. CASE Rethrow(i)
    BY <1>t, <2>2 DEF Rethrow
  <2> QED
    BY <2>1, <2>2
<1>e. PICK e : e = Caught(x, frames[i].module, frames[i].trace)
  OBVIOUS
<1>2. e \in ErrorType /\ e.code # "Error" /\ e.module = frames[i].module /\ e.trace = frames[i].trace
  BY <1>t, <1>e, CaughtTyped
<1>f. PICK f : f = [frames[i] EXCEPT !.state = "threw", !.error = e]
  OBVIOUS
<1>3. /\ f \in FrameType /\ f.request = frames[i].request /\ f.parent = frames[i].parent
      /\ f.module = frames[i].module /\ f.script = frames[i].script /\ f.trace = frames[i].trace
      /\ f.error = e /\ f.state = "threw"
  BY <1>t, <1>2, <1>f DEF FrameType
<1>4. Settle(i, f, "500", e)
  BY <1>1, <1>e, <1>f DEF Throw
<1>5. /\ Touches /\ frames'[i].state = f.state
      /\ \A k \in DOMAIN frames \ {i} : frames'[k].state = frames[k].state
      /\ UNCHANGED <<role, pools, isShutDown, shutdownState>>
  BY <1>t, <1>2, <1>3, <1>4, SettleTouches
<1>6. Tells(i, "500", e)
  BY <1>3, <1>4 DEF Settle, Answers, Tells
<1>7. e # ServerError
  BY <1>2, ErrorsTyped
<1> QED
  BY <1>t, <1>2, <1>3, <1>5, <1>6, <1>7 DEF Throws, Ended

-----------------------------------------------------------------------------
\* Every step does one of these.  The server reads or refuses a request;
Refuses(r) ==
  /\ response[r] \in {None, "reading"} /\ (response[r] = None => role = "serve")
  /\ \E x \in {"reading", "404", "400", "500"} :
       /\ response' = [response EXCEPT ![r] = x]
       /\ x = "500" => body' = [body EXCEPT ![r] = ServerError]
       /\ x # "500" => body' = body
  /\ UNCHANGED <<role, frames, pools, isShutDown, shutdownState>>
\* it calls the requested script;
Starts(r, s) ==
  /\ response[r] = "reading" /\ s \in Public
  /\ response' = [response EXCEPT ![r] = "calling"]
  /\ HttpCalls(r, s) /\ pools' = PoolsWith(ModuleOf[s])
  /\ UNCHANGED <<role, body, isShutDown, shutdownState>>
\* a test starts;
StartsTest(m) ==
  /\ role = "test" /\ frames = <<>> /\ Tests(m) /\ pools' = PoolsWith(m)
  /\ UNCHANGED <<role, response, body, isShutDown, shutdownState>>
\* a frame calls,
Calls(i, s) ==
  /\ Running(i) /\ ModuleOf[s] \in Deps[frames[i].module] /\ ~PoolRefused(ModuleOf[s])
  /\ Nests(i, s) /\ pools' = PoolsWith(ModuleOf[s])
  /\ UNCHANGED <<role, response, body, isShutDown, shutdownState>>
\* or receives an error of a call that is none;
Receives ==
  /\ Touches /\ \A k \in DOMAIN frames : frames'[k].state = frames[k].state
  /\ UNCHANGED <<role, response, body, pools, isShutDown, shutdownState>>
\* or the runtime shuts down.
Stops ==
  /\ Shutdown \/ ShutdownDone \/ \E m \in Modules : Disconnect(m)
  /\ UNCHANGED <<role, frames, response, body>>

\* Every action is one of these kinds of step.
LEMMA StepKinds ==
  ASSUME Typed, Next
  PROVE  \/ \E r \in Requests : Refuses(r)
         \/ \E r \in Requests, s \in Scripts : Starts(r, s)
         \/ \E m \in Modules : StartsTest(m)
         \/ \E i \in DOMAIN frames, s \in Scripts : Calls(i, s)
         \/ Receives
         \/ \E i \in DOMAIN frames : Returns(i) \/ Throws(i)
         \/ Stops
<1>1. ASSUME NEW r \in Requests, Request(r) \/ NotFound(r) \/ BadBody(r) PROVE Refuses(r)
  <2>1. PICK x \in {"reading", "404", "400"} :
          /\ response[r] \in {None, "reading"} /\ (response[r] = None => role = "serve")
          /\ response' = [response EXCEPT ![r] = x] /\ x # "500"
          /\ UNCHANGED <<role, frames, body, pools, isShutDown, shutdownState>>
    <3>1. CASE Request(r)
      BY <3>1 DEF Request
    <3>2. CASE NotFound(r)
      BY <3>2 DEF NotFound, None
    <3>3. CASE BadBody(r)
      BY <3>3 DEF BadBody, None
    <3> QED
      BY <1>1, <3>1, <3>2, <3>3
  <2>2. x \in {"reading", "404", "400", "500"}
    OBVIOUS
  <2> QED
    BY <2>1, <2>2 DEF Refuses
<1>2. ASSUME NEW r \in Requests, NEW s \in Scripts, HttpCallThrows(r, s) PROVE Refuses(r)
  <2>1. /\ response[r] = "reading" /\ response' = [response EXCEPT ![r] = "500"]
        /\ body' = [body EXCEPT ![r] = ServerError]
        /\ UNCHANGED <<role, frames, pools, isShutDown, shutdownState>>
    BY <1>2 DEF HttpCallThrows
  <2>2. "reading" # None
    BY DEF None
  <2>3. \E x \in {"reading", "404", "400", "500"} :
          /\ response' = [response EXCEPT ![r] = x]
          /\ x = "500" => body' = [body EXCEPT ![r] = ServerError]
          /\ x # "500" => body' = body
    <3> WITNESS "500" \in {"reading", "404", "400", "500"}
    <3> QED
      BY <2>1
  <2> QED
    BY <2>1, <2>2, <2>3 DEF Refuses
<1>3. ASSUME NEW r \in Requests, NEW s \in Scripts, HttpCall(r, s) PROVE Starts(r, s)
  <2>1. HttpCalls(r, s)
    BY <1>3, HttpCallAdds
  <2> QED
    BY <1>3, <2>1 DEF HttpCall, Starts, CallableByHttp
<1>4. ASSUME NEW m \in Modules, StartTest(m) PROVE StartsTest(m)
  <2>1. Tests(m)
    BY <1>4, StartTestAdds
  <2> QED
    BY <1>4, <2>1 DEF StartTest, StartsTest
<1>5. ASSUME NEW i \in DOMAIN frames, NEW s \in Scripts, Call(i, s) PROVE Calls(i, s)
  <2>1. Nests(i, s)
    BY <1>5, CallAdds
  <2> QED
    BY <1>5, <2>1 DEF Call, Calls, IsAllowedModuleName
<1>6. ASSUME NEW i \in DOMAIN frames, CallThrows(i) PROVE Receives
  <2>1. Touches /\ \A k \in DOMAIN frames : frames'[k].state = frames[k].state
    BY <1>6, CallThrowsTouches
  <2> QED
    BY <1>6, <2>1 DEF CallThrows, Receives
<1>7. ASSUME NEW i \in DOMAIN frames, Return(i) PROVE Returns(i)
  BY <1>7, ReturnEffects
<1>8. ASSUME NEW i \in DOMAIN frames, ThrowOwn(i) \/ Rethrow(i) PROVE Throws(i)
  BY <1>8, ThrowEffects
<1>9. ASSUME Shutdown \/ ShutdownDone \/ \E m \in Modules : Disconnect(m) PROVE Stops
  BY <1>9 DEF Shutdown, ShutdownDone, Disconnect, Stops
<1>10. \/ \E r \in Requests : Request(r) \/ NotFound(r) \/ BadBody(r)
       \/ \E r \in Requests, s \in Scripts : HttpCall(r, s) \/ HttpCallThrows(r, s)
       \/ \E m \in Modules : StartTest(m)
       \/ \E i \in DOMAIN frames, s \in Scripts : Call(i, s)
       \/ \E i \in DOMAIN frames : CallThrows(i) \/ Return(i) \/ ThrowOwn(i) \/ Rethrow(i)
       \/ Shutdown \/ ShutdownDone \/ \E m \in Modules : Disconnect(m)
  BY DEF Next, Serve, FrameRuns, Ends
<1> QED
  BY <1>1, <1>2, <1>3, <1>4, <1>5, <1>6, <1>7, <1>8, <1>9, <1>10

-----------------------------------------------------------------------------
\* A server that was never called is well typed.
LEMMA TypedInit == Init => Typed
<1> SUFFICES ASSUME Init PROVE Typed
  OBVIOUS
<1>1. frames \in Seq(FrameType) /\ Len(frames) = 0 /\ Len(frames) <= MaxFrames /\ DOMAIN frames = {}
  BY DEF Init
<1>2. NoError \in ErrorType
  BY ErrorsTyped
<1>3. body \in [Requests -> ErrorType]
  BY <1>2 DEF Init
<1> QED
  BY <1>1, <1>3 DEF Init, Typed

\* Responses and bodies are typed after an answer,
LEMMA TellsTyped ==
  ASSUME Typed, NEW i \in DOMAIN frames, NEW status \in {"200", "500"}, NEW e \in ErrorType,
         Tells(i, status, e)
  PROVE  /\ response' \in [Requests -> {None, "reading", "calling", "404", "400", "200", "500"}]
         /\ body' \in [Requests -> ErrorType]
BY DEF Tells, Typed

\* and everything is after every step.
LEMMA TypedStep == Typed /\ [Next]_vars => Typed'
<1> SUFFICES ASSUME Typed, [Next]_vars PROVE Typed'
  OBVIOUS
<1> DEFINE Responses == [Requests -> {None, "reading", "calling", "404", "400", "200", "500"}]
           Frames == /\ frames' \in Seq(FrameType) /\ Len(frames') <= MaxFrames
                     /\ \A i \in DOMAIN frames' : frames'[i].parent < i /\ frames'[i].error.code # "Error"
<1>t. /\ response \in Responses /\ body \in [Requests -> ErrorType]
      /\ pools \in [Modules -> {None, "open", "closed"}] /\ ServerError \in ErrorType
      /\ NoError \in ErrorType /\ role \in {"serve", "test"} /\ isShutDown \in BOOLEAN
      /\ shutdownState \in {None, "running", "done", "failed"}
  BY ErrorsTyped DEF Typed
<1>f. ASSUME UNCHANGED frames PROVE Frames
  BY <1>f DEF Typed
<1>a. ASSUME NEW f, Adds(f) PROVE Frames
  BY <1>a, AddsTyped
<1>b. ASSUME Touches PROVE Frames
  BY <1>b, TouchesTyped
<1>m. \A s \in Scripts : ModuleOf[s] \in Modules
  OBVIOUS
<1>p. \A m \in Modules : PoolsWith(m) \in [Modules -> {None, "open", "closed"}]
  BY PoolsTyped
<1>1. ASSUME NEW r \in Requests, Refuses(r) PROVE Typed'
  <2>1. response' \in Responses /\ body' \in [Requests -> ErrorType]
    BY <1>t, <1>1 DEF Refuses
  <2>2. Frames
    BY <1>1, <1>f DEF Refuses
  <2> QED
    BY <1>t, <1>1, <2>1, <2>2 DEF Refuses, Typed
<1>2. ASSUME NEW r \in Requests, NEW s \in Scripts, Starts(r, s) PROVE Typed'
  <2>1. response' \in Responses
    BY <1>t, <1>2 DEF Starts
  <2>2. Frames
    BY <1>2, <1>a DEF Starts, HttpCalls
  <2>3. pools' \in [Modules -> {None, "open", "closed"}]
    BY <1>2, <1>m, <1>p DEF Starts
  <2> QED
    BY <1>t, <1>2, <2>1, <2>2, <2>3 DEF Starts, Typed
<1>3. ASSUME NEW m \in Modules, StartsTest(m) PROVE Typed'
  <2>2. Frames
    BY <1>3, <1>a DEF StartsTest, Tests
  <2>3. pools' \in [Modules -> {None, "open", "closed"}]
    BY <1>3, <1>p DEF StartsTest
  <2> QED
    BY <1>t, <1>3, <2>2, <2>3 DEF StartsTest, Typed
<1>4. ASSUME NEW i \in DOMAIN frames, NEW s \in Scripts, Calls(i, s) PROVE Typed'
  <2>2. Frames
    BY <1>4, <1>a DEF Calls, Nests
  <2>3. pools' \in [Modules -> {None, "open", "closed"}]
    BY <1>4, <1>m, <1>p DEF Calls
  <2> QED
    BY <1>t, <1>4, <2>2, <2>3 DEF Calls, Typed
<1>5. ASSUME Receives PROVE Typed'
  <2>2. Frames
    BY <1>5, <1>b DEF Receives
  <2> QED
    BY <1>t, <1>5, <2>2 DEF Receives, Typed
<1>6. ASSUME NEW i \in DOMAIN frames, Returns(i) \/ Throws(i) PROVE Typed'
  <2>1. response' \in Responses /\ body' \in [Requests -> ErrorType]
    BY <1>t, <1>6, TellsTyped DEF Returns, Throws
  <2>2. Frames /\ UNCHANGED <<role, pools, isShutDown, shutdownState>>
    BY <1>6, <1>b DEF Returns, Throws, Ended
  <2> QED
    BY <1>t, <2>1, <2>2 DEF Typed
<1>7. ASSUME Stops PROVE Typed'
  <2>1. Frames
    BY <1>7, <1>f DEF Stops
  <2>2. /\ pools' \in [Modules -> {None, "open", "closed"}] /\ isShutDown' \in BOOLEAN
        /\ shutdownState' \in {None, "running", "done", "failed"}
    BY <1>t, <1>7 DEF Stops, Shutdown, ShutdownDone, Disconnect
  <2> QED
    BY <1>t, <1>7, <2>1, <2>2 DEF Stops, Typed
<1>8. ASSUME UNCHANGED vars PROVE Typed'
  BY <1>8 DEF vars, Typed
<1> QED
  BY <1>1, <1>2, <1>3, <1>4, <1>5, <1>6, <1>7, <1>8, StepKinds

\* The types hold in every behaviour.
LEMMA AlwaysTyped == Spec => []Typed
BY TypedInit, TypedStep, PTL DEF Spec

\* A process lives or has crashed.
LEMMA CrashedTyped == Spec => [](crashed \in BOOLEAN)
<1>1. Init => crashed \in BOOLEAN
  BY DEF Init
<1>2. crashed \in BOOLEAN /\ [Next]_vars => (crashed \in BOOLEAN)'
  <2> SUFFICES ASSUME crashed \in BOOLEAN, [Next]_vars PROVE crashed' \in BOOLEAN
    OBVIOUS
  <2>1. ASSUME Rejects \/ UNCHANGED crashed PROVE crashed' \in BOOLEAN
    BY <2>1 DEF Rejects
  <2>2. ASSUME NEW r \in Requests, Request(r) \/ Serve(r) PROVE UNCHANGED crashed
    BY <2>2 DEF Request, Serve, NotFound, BadBody, HttpCall, HttpCallThrows
  <2>3. ASSUME NEW m \in Modules, StartTest(m) \/ Disconnect(m) PROVE UNCHANGED crashed
    BY <2>3 DEF StartTest, Disconnect
  <2>4. ASSUME NEW i \in DOMAIN frames, FrameRuns(i) PROVE Rejects \/ UNCHANGED crashed
    <3>1. ASSUME NEW s \in Scripts, Call(i, s) PROVE UNCHANGED crashed
      BY <3>1 DEF Call
    <3>2. ASSUME NEW f, NEW status, NEW e, Settle(i, f, status, e) PROVE Rejects \/ UNCHANGED crashed
      BY <3>2 DEF Settle
    <3>3. ASSUME Ends(i) PROVE Rejects \/ UNCHANGED crashed
      BY <3>2, <3>3 DEF Ends, Return, ThrowOwn, Rethrow, Throw
    <3>4. ASSUME CallThrows(i) PROVE Rejects
      BY <3>4 DEF CallThrows
    <3> QED
      BY <2>4, <3>1, <3>3, <3>4 DEF FrameRuns
  <2>5. ASSUME Shutdown \/ ShutdownDone PROVE UNCHANGED crashed
    BY <2>5 DEF Shutdown, ShutdownDone
  <2>6. Next => Rejects \/ UNCHANGED crashed
    BY <2>2, <2>3, <2>4, <2>5 DEF Next
  <2>7. ASSUME UNCHANGED vars PROVE UNCHANGED crashed
    BY <2>7 DEF vars
  <2> QED
    BY <2>1, <2>6, <2>7
<1> QED
  BY <1>1, <1>2, PTL DEF Spec

\* Whatever frames, errors and responses a runtime has are of their types.
THEOREM TypeCorrect == Spec => []TypeOK
<1>1. ASSUME NEW e \in ErrorType PROVE IsError(e)
  <2>1. \A k \in DOMAIN e.trace : e.trace[k] \in Entries
    BY DEF ErrorType
  <2>2. /\ e.code \in ErrorCodes
        /\ e.module \in Modules \cup {None} /\ e.config \in Modules \cup {None}
        /\ e.origin \in Modules \cup {None}
    BY DEF ErrorType
  <2> QED
    BY <2>1, <2>2 DEF IsError, IsTrace, Entries
<1>2. Typed /\ crashed \in BOOLEAN => TypeOK
  <2> SUFFICES ASSUME Typed, crashed \in BOOLEAN PROVE TypeOK
    OBVIOUS
  <2>1. ASSUME NEW i \in DOMAIN frames
        PROVE  /\ frames[i].request \in Requests \cup {None}
               /\ frames[i].parent \in 0..(i - 1)
               /\ frames[i].module \in Modules
               /\ frames[i].script \in Scripts \cup {None}
               /\ frames[i].state \in {"running", "returned", "threw"}
               /\ IsTrace(frames[i].trace)
               /\ IsError(frames[i].received) /\ IsError(frames[i].error)
               /\ frames[i].error.code # "Error"
    <3>1. /\ frames[i] \in FrameType /\ i \in Nat /\ frames[i].parent < i
          /\ frames[i].error.code # "Error"
      BY DEF Typed
    <3>2. PICK f \in FrameType : f = frames[i]
      BY <3>1
    <3>3. /\ f.request \in Requests \cup {None} /\ f.parent \in Nat /\ f.module \in Modules
          /\ f.script \in Scripts \cup {None} /\ f.state \in {"running", "returned", "threw"}
          /\ f.trace \in Seq(Entries) /\ f.received \in ErrorType /\ f.error \in ErrorType
      BY DEF FrameType, Askers, Bodies
    <3>4. \A k \in DOMAIN f.trace : f.trace[k] \in Entries
      BY <3>3
    <3>5. IsTrace(f.trace)
      BY <3>4 DEF IsTrace, Entries
    <3>6. IsError(f.received) /\ IsError(f.error)
      BY <1>1, <3>3
    <3>7. f.parent \in 0..(i - 1)
      BY <3>1, <3>2, <3>3
    <3> QED
      BY <3>1, <3>2, <3>3, <3>5, <3>6, <3>7
  <2>2. \A r \in Requests : IsError(body[r])
    BY <1>1 DEF Typed
  <2> QED
    BY <2>1, <2>2 DEF Typed, TypeOK
<1> QED
  BY <1>2, AlwaysTyped, CrashedTyped, PTL

-----------------------------------------------------------------------------
\* A frame's trace ends in what it runs, each entry past the first is a script,
\* and links are dependencies;
ChainOf(f) ==
  /\ Len(f.trace) >= 1
  /\ f.script # None => f.trace[Len(f.trace)] = f.script
  /\ Len(f.trace) >= 2 => /\ f.script \in Scripts /\ f.module = ModuleOf[f.script]
                          /\ f.trace[Len(f.trace)] = f.script
  /\ \A k \in 2..(Len(f.trace) - 1) : ModuleOf[f.trace[k + 1]] \in Deps[ModuleOf[f.trace[k]]]
\* it continues its caller's, for the same request.
Follows(f, p) ==
  /\ Len(f.trace) = Len(p.trace) + 1
  /\ \A k \in 1..Len(p.trace) : f.trace[k] = p.trace[k]
  /\ f.request = p.request
Chained ==
  \A i \in DOMAIN frames :
    /\ ChainOf(frames[i])
    /\ frames[i].parent # 0 => Follows(frames[i], frames[frames[i].parent])

\* The frame whose end answers request r.
IsRoot(i, r) == i \in DOMAIN frames /\ frames[i].request = r /\ frames[i].parent = 0
\* A request has one at most, which runs as long as the request is not answered;
\* frames of a request are there only once it has been accepted.
OneRoot ==
  /\ \A i \in DOMAIN frames :
       /\ role = "serve" /\ frames[i].script \notin Public => frames[i].parent # 0
       /\ frames[i].request \in Requests => response[frames[i].request] \in {"calling", "200", "500"}
  /\ \A r \in Requests : \A i, j \in DOMAIN frames : IsRoot(i, r) /\ IsRoot(j, r) => i = j
  /\ \A r \in Requests : \A i \in DOMAIN frames :
       IsRoot(i, r) /\ frames[i].state = "running" => response[r] = "calling"
\* What a response says of it.
Answered(r) ==
  /\ response[r] = "200" => \E i \in DOMAIN frames : IsRoot(i, r) /\ frames[i].state = "returned"
  /\ response[r] = "500" /\ body[r] = ServerError =>
       \A i \in DOMAIN frames : IsRoot(i, r) => frames[i].state # "threw"
  /\ response[r] = "500" /\ body[r] # ServerError =>
       \E i \in DOMAIN frames : /\ IsRoot(i, r) /\ frames[i].state = "threw"
                                /\ body[r].module = frames[i].module
                                /\ body[r].trace = frames[i].trace
Rooted == OneRoot /\ \A r \in Requests : Answered(r)

\* Only a test's runtime shuts down, once its test has started; until then no
\* pool is closed and running frames have theirs, and when it is done none is open.
PoolsKept ==
  /\ shutdownState # None => isShutDown = TRUE
  /\ isShutDown = FALSE => \A m \in Modules : pools[m] # "closed"
  /\ isShutDown = TRUE => role = "test" /\ frames # <<>>
  /\ shutdownState = "done" => \A m \in Modules : pools[m] # "open"
  /\ \A r \in Requests : response[r] # None => role = "serve"
  /\ \A i \in DOMAIN frames :
       frames[i].state = "running" /\ frames[i].module \in HasDb /\ isShutDown = FALSE =>
         pools[frames[i].module] = "open"

-----------------------------------------------------------------------------
\* The first frames have a chain of no link,
LEMMA RootChain ==
  ASSUME NEW f, f.parent = 0,
         \/ Len(f.trace) = 1 /\ f.script = None
         \/ Len(f.trace) = 2 /\ f.script \in Scripts /\ f.trace[2] = f.script /\ f.module = ModuleOf[f.script]
  PROVE  ChainOf(f)
BY DEF ChainOf

\* and a call adds a link to its caller's.
LEMMA CallChain ==
  ASSUME NEW p, ChainOf(p), p.trace \in Seq(Entries), NEW s \in Scripts,
         ModuleOf[s] \in Deps[p.module],
         NEW f, f.script = s, f.module = ModuleOf[s], f.trace = Append(p.trace, s),
         f.request = p.request
  PROVE  ChainOf(f) /\ Follows(f, p)
<1> DEFINE n == Len(p.trace)
<1>1. s \in Entries
  BY DEF Entries
<1>t. PICK t \in Seq(Entries) : t = p.trace
  OBVIOUS
<1>u. PICK u : u = Append(t, s)
  OBVIOUS
<1>2. /\ n \in Nat /\ n >= 1 /\ Len(u) = n + 1 /\ u[n + 1] = s /\ f.trace = u
      /\ \A k \in 1..n : u[k] = t[k]
  BY <1>1, <1>t, <1>u, AppendLast DEF ChainOf
<1>3. ASSUME NEW k \in 2..n PROVE ModuleOf[u[k + 1]] \in Deps[ModuleOf[u[k]]]
  <2>1. CASE k = n
    BY <1>2, <1>t, <2>1 DEF ChainOf
  <2>2. CASE k \in 2..(n - 1)
    <3>1. k + 1 \in 1..n /\ k \in 1..n
      BY <1>2, <2>2
    <3>2. u[k + 1] = t[k + 1] /\ u[k] = t[k]
      BY <1>2, <3>1
    <3> QED
      BY <1>t, <2>2, <3>2 DEF ChainOf
  <2> QED
    BY <1>2, <2>1, <2>2
<1> HIDE DEF n
<1>4. Len(f.trace) - 1 = n
  BY <1>2
<1>5. ChainOf(f)
  <2>1. f.trace[Len(f.trace)] = s /\ Len(f.trace) >= 1
    BY <1>2
  <2>2. \A k \in 2..(Len(f.trace) - 1) : ModuleOf[f.trace[k + 1]] \in Deps[ModuleOf[f.trace[k]]]
    BY <1>2, <1>3, <1>4
  <2> QED
    BY <2>1, <2>2 DEF ChainOf
<1>6. Follows(f, p)
  BY <1>t, <1>2 DEF Follows, n
<1> QED
  BY <1>5, <1>6

\* A step that makes no frame keeps the chains,
LEMMA TouchesChained ==
  ASSUME Typed, Chained, Touches PROVE Chained'
<1>1. ASSUME NEW i \in DOMAIN frames
      PROVE  /\ ChainOf(frames'[i])
             /\ frames'[i].parent # 0 => Follows(frames'[i], frames'[frames'[i].parent])
  <2>1. /\ frames'[i].request = frames[i].request /\ frames'[i].parent = frames[i].parent
        /\ frames'[i].module = frames[i].module /\ frames'[i].script = frames[i].script
        /\ frames'[i].trace = frames[i].trace
    BY DEF Touches
  <2>2. ChainOf(frames[i]) /\ (frames[i].parent # 0 => Follows(frames[i], frames[frames[i].parent]))
    BY DEF Chained
  <2>3. ChainOf(frames'[i])
    BY <2>1, <2>2 DEF ChainOf
  <2>4. ASSUME frames[i].parent # 0 PROVE Follows(frames'[i], frames'[frames[i].parent])
    <3>p. PICK p : p = frames[i].parent
      OBVIOUS
    <3>1. p \in DOMAIN frames
      <4>1. frames[i] \in FrameType /\ frames[i].parent < i /\ i \in 1..Len(frames) /\ DOMAIN frames = 1..Len(frames)
            /\ Len(frames) \in Nat
        BY DEF Typed
      <4>2. frames[i].parent \in Nat
        BY <4>1 DEF FrameType
      <4> QED
        BY <2>4, <3>p, <4>1, <4>2
    <3>2. frames'[p].trace = frames[p].trace /\ frames'[p].request = frames[p].request
      BY <3>1 DEF Touches
    <3>3. Follows(frames[i], frames[p])
      BY <2>2, <2>4, <3>p
    <3>4. Follows(frames'[i], frames'[p])
      BY <2>1, <3>2, <3>3 DEF Follows
    <3> QED
      BY <3>4, <3>p
  <2> QED
    BY <2>1, <2>3, <2>4
<1>2. DOMAIN frames' = DOMAIN frames
  BY TouchesTyped
<1> QED
  BY <1>1, <1>2 DEF Chained

\* and so does one that makes a frame with a chain of its own.
LEMMA AddsChained ==
  ASSUME Typed, Chained, NEW f, Adds(f), ChainOf(f),
         f.parent # 0 => f.parent \in DOMAIN frames /\ Follows(f, frames[f.parent])
  PROVE  Chained'
<1>1. /\ \A k \in DOMAIN frames : frames'[k] = frames[k]
      /\ frames'[Len(frames) + 1] = f /\ DOMAIN frames' = 1..(Len(frames) + 1)
      /\ DOMAIN frames = 1..Len(frames) /\ Len(frames) \in Nat
  BY AddsTyped
<1>2. ASSUME NEW i \in DOMAIN frames'
      PROVE  /\ ChainOf(frames'[i])
             /\ frames'[i].parent # 0 => Follows(frames'[i], frames'[frames'[i].parent])
  <2>1. CASE i \in DOMAIN frames
    <3>1. ChainOf(frames[i]) /\ (frames[i].parent # 0 => Follows(frames[i], frames[frames[i].parent]))
      BY <2>1 DEF Chained
    <3>2. frames[i].parent # 0 => frames[i].parent \in DOMAIN frames
      <4>1. frames[i] \in FrameType /\ frames[i].parent < i
        BY <2>1 DEF Typed
      <4>2. frames[i].parent \in Nat
        BY <4>1 DEF FrameType
      <4> QED
        BY <1>1, <2>1, <4>1, <4>2
    <3> QED
      BY <1>1, <2>1, <3>1, <3>2
  <2>2. CASE i = Len(frames) + 1
    BY <1>1, <2>2
  <2> QED
    BY <1>1, <2>1, <2>2
<1> QED
  BY <1>2 DEF Chained

\* Every step keeps the traces of calls and errors the chains of their callers.
LEMMA ChainedStep == Typed /\ Chained /\ [Next]_vars => Chained'
<1> SUFFICES ASSUME Typed, Chained, [Next]_vars PROVE Chained'
  OBVIOUS
<1>0. ASSUME UNCHANGED frames PROVE Chained'
  BY <1>0 DEF Chained
<1>1. ASSUME NEW r \in Requests, NEW s \in Scripts, Starts(r, s) PROVE Chained'
  <2>1. PICK f : /\ Adds(f) /\ f.parent = 0 /\ f.module = ModuleOf[s] /\ f.script = s
                 /\ Len(f.trace) = 2 /\ f.trace[2] = s
    BY <1>1 DEF Starts, HttpCalls
  <2>2. ChainOf(f)
    BY <2>1, RootChain
  <2> QED
    BY <2>1, <2>2, AddsChained
<1>2. ASSUME NEW m \in Modules, StartsTest(m) PROVE Chained'
  <2>1. PICK f : /\ Adds(f) /\ f.parent = 0 /\ f.script = None /\ Len(f.trace) = 1
    BY <1>2 DEF StartsTest, Tests
  <2>2. ChainOf(f)
    BY <2>1, RootChain
  <2> QED
    BY <2>1, <2>2, AddsChained
<1>3. ASSUME NEW i \in DOMAIN frames, NEW s \in Scripts, Calls(i, s) PROVE Chained'
  <2>1. PICK f : /\ Adds(f) /\ f.request = frames[i].request /\ f.parent = i
                 /\ f.module = ModuleOf[s] /\ f.script = s /\ f.trace = Append(frames[i].trace, s)
    BY <1>3 DEF Calls, Nests
  <2>2. ChainOf(frames[i]) /\ ModuleOf[s] \in Deps[frames[i].module]
    BY <1>3 DEF Chained, Calls
  <2>3. frames[i].trace \in Seq(Entries)
    <3>1. frames[i] \in FrameType
      BY DEF Typed
    <3> QED
      BY <3>1 DEF FrameType
  <2>p. PICK p : p = frames[i]
    OBVIOUS
  <2>4. ChainOf(f) /\ Follows(f, p)
    BY <2>1, <2>2, <2>3, <2>p, CallChain
  <2> QED
    BY <2>1, <2>4, <2>p, AddsChained
<1>4. ASSUME Touches PROVE Chained'
  BY <1>4, TouchesChained
<1> QED
  BY <1>0, <1>1, <1>2, <1>3, <1>4, StepKinds
     DEF Refuses, Receives, Returns, Throws, Ended, Stops, vars

\* A trace is the chain of calls that led to its frame, and links of it are
\* dependencies, however many calls run beside it.
THEOREM TracesAreCallChains == Spec => []TraceIsCallChain
<1>1. Init => Chained
  BY DEF Init, Chained
<1>2. Typed /\ Chained => TraceIsCallChain
  <2> SUFFICES ASSUME Typed, Chained, NEW i \in DOMAIN frames
               PROVE  /\ frames[i].script # None => frames[i].trace[Len(frames[i].trace)] = frames[i].script
                      /\ frames[i].parent # 0 =>
                           /\ Len(frames[i].trace) = Len(frames[frames[i].parent].trace) + 1
                           /\ \A k \in 1..(Len(frames[i].trace) - 1) :
                                frames[i].trace[k] = frames[frames[i].parent].trace[k]
                           /\ frames[i].request = frames[frames[i].parent].request
                      /\ \A k \in 2..(Len(frames[i].trace) - 1) :
                           ModuleOf[frames[i].trace[k + 1]] \in Deps[ModuleOf[frames[i].trace[k]]]
    BY DEF TraceIsCallChain
  <2>1. ChainOf(frames[i])
    BY DEF Chained
  <2>2. ASSUME frames[i].parent # 0
        PROVE  /\ Len(frames[i].trace) = Len(frames[frames[i].parent].trace) + 1
               /\ \A k \in 1..(Len(frames[i].trace) - 1) :
                    frames[i].trace[k] = frames[frames[i].parent].trace[k]
               /\ frames[i].request = frames[frames[i].parent].request
    <3>p. PICK p : p = frames[i].parent
      OBVIOUS
    <3>1. Follows(frames[i], frames[p])
      BY <2>2, <3>p DEF Chained
    <3>2. p \in DOMAIN frames /\ frames[p] \in FrameType
      <4>1. /\ frames[i] \in FrameType /\ frames[i].parent < i /\ i \in 1..Len(frames)
            /\ DOMAIN frames = 1..Len(frames) /\ Len(frames) \in Nat
        BY DEF Typed
      <4>2. frames[i].parent \in Nat
        BY <4>1 DEF FrameType
      <4>3. p \in DOMAIN frames
        BY <2>2, <3>p, <4>1, <4>2
      <4> QED
        BY <4>3 DEF Typed
    <3>3. frames[p].trace \in Seq(Entries)
      BY <3>2 DEF FrameType
    <3>4. Len(frames[p].trace) \in Nat
      BY <3>3
    <3>5. Len(frames[i].trace) - 1 = Len(frames[p].trace)
      BY <3>1, <3>4 DEF Follows
    <3> QED
      BY <3>1, <3>5, <3>p DEF Follows
  <2> QED
    BY <2>1, <2>2 DEF ChainOf
<1> QED
  BY <1>1, <1>2, AlwaysTyped, ChainedStep, PTL DEF Spec

-----------------------------------------------------------------------------
\* A server that was never called has no roots.
LEMMA RootedInit == Init => Rooted
<1> SUFFICES ASSUME Init PROVE Rooted
  OBVIOUS
<1>1. DOMAIN frames = {} /\ \A r \in Requests : response[r] = None
  BY DEF Init
<1> QED
  BY <1>1 DEF Rooted, OneRoot, Answered, None

\* A step that makes a frame: a request's first, when its call begins, or any
\* that answers no request.
LEMMA AddsRooted ==
  ASSUME Typed, Rooted, NEW f, Adds(f), UNCHANGED <<role, body>>,
         role = "serve" /\ f.script \notin Public => f.parent # 0,
         f.request \in Requests => response'[f.request] \in {"calling", "200", "500"},
         f.request \in Requests /\ f.parent = 0 =>
           response[f.request] = "reading" /\ response'[f.request] = "calling",
         \A q \in Requests : response'[q] = response[q] \/ (q = f.request /\ f.parent = 0)
  PROVE  Rooted'
<1>n. PICK n \in Nat : n = Len(frames)
  BY DEF Typed
<1>1. /\ \A k \in DOMAIN frames : frames'[k] = frames[k]
      /\ frames'[n + 1] = f /\ DOMAIN frames' = 1..(n + 1)
      /\ DOMAIN frames = 1..n /\ n \in Nat
  BY <1>n, AddsTyped
<1>2. \A k \in DOMAIN frames' : k \in DOMAIN frames \/ k = n + 1
  BY <1>1
<1>3. \A k \in DOMAIN frames : k \in DOMAIN frames' /\ k # n + 1
  BY <1>1
<1>4. /\ \A q, k : k \in DOMAIN frames => (IsRoot(k, q)' <=> IsRoot(k, q))
      /\ \A q : IsRoot(n + 1, q)' <=> f.request = q /\ f.parent = 0
  BY <1>1, <1>3 DEF IsRoot
<1>5. ASSUME NEW q \in Requests, response[q] = "reading" PROVE \A k \in DOMAIN frames : ~IsRoot(k, q)
  BY <1>5 DEF Rooted, OneRoot, IsRoot
<1>6. ASSUME NEW i \in DOMAIN frames'
      PROVE  /\ role = "serve" /\ frames'[i].script \notin Public => frames'[i].parent # 0
             /\ frames'[i].request \in Requests =>
                  response'[frames'[i].request] \in {"calling", "200", "500"}
  <2>1. CASE i \in DOMAIN frames
    BY <1>1, <2>1 DEF Rooted, OneRoot
  <2>2. CASE i = n + 1
    BY <1>1, <2>2
  <2> QED
    BY <1>2, <2>1, <2>2
<1>7. ASSUME NEW q \in Requests, NEW i \in DOMAIN frames', NEW j \in DOMAIN frames',
             IsRoot(i, q)', IsRoot(j, q)'
      PROVE  i = j
  <2>1. CASE i \in DOMAIN frames /\ j \in DOMAIN frames
    BY <1>4, <1>7, <2>1 DEF Rooted, OneRoot
  <2>2. CASE i = n + 1 /\ j \in DOMAIN frames
    BY <1>4, <1>5, <1>7, <2>2
  <2>3. CASE j = n + 1 /\ i \in DOMAIN frames
    BY <1>4, <1>5, <1>7, <2>3
  <2> QED
    BY <1>2, <2>1, <2>2, <2>3
<1>8. ASSUME NEW q \in Requests, NEW i \in DOMAIN frames', IsRoot(i, q)', frames'[i].state = "running"
      PROVE  response'[q] = "calling"
  <2>1. CASE i \in DOMAIN frames
    <3>1. IsRoot(i, q) /\ response[q] = "calling"
      BY <1>1, <1>4, <1>8, <2>1 DEF Rooted, OneRoot
    <3> QED
      BY <3>1
  <2>2. CASE i = n + 1
    BY <1>4, <1>8, <2>2
  <2> QED
    BY <1>2, <2>1, <2>2
<1>9. OneRoot'
  BY <1>6, <1>7, <1>8 DEF OneRoot
<1>10. ASSUME NEW q \in Requests PROVE Answered(q)'
  <2>1. CASE q = f.request /\ f.parent = 0
    BY <2>1 DEF Answered
  <2>2. CASE ~(q = f.request /\ f.parent = 0)
    <3>1. response'[q] = response[q] /\ body'[q] = body[q]
      BY <2>2
    <3>2. ~IsRoot(n + 1, q)'
      BY <1>4, <2>2
    <3>3. Answered(q)
      BY DEF Rooted
    <3>4. ASSUME response[q] = "200" PROVE \E i \in DOMAIN frames' : IsRoot(i, q)' /\ frames'[i].state = "returned"
      BY <1>1, <1>3, <1>4, <3>3, <3>4 DEF Answered
    <3>5. ASSUME response[q] = "500", body[q] = ServerError, NEW i \in DOMAIN frames', IsRoot(i, q)'
          PROVE  frames'[i].state # "threw"
      <4>1. i \in DOMAIN frames /\ IsRoot(i, q)
        BY <1>2, <1>4, <3>2, <3>5
      <4> QED
        BY <1>1, <3>3, <3>5, <4>1 DEF Answered
    <3>6. ASSUME response[q] = "500", body[q] # ServerError
          PROVE  \E i \in DOMAIN frames' : /\ IsRoot(i, q)' /\ frames'[i].state = "threw"
                                           /\ body[q].module = frames'[i].module
                                           /\ body[q].trace = frames'[i].trace
      <4>1. PICK i \in DOMAIN frames : /\ IsRoot(i, q) /\ frames[i].state = "threw"
                                       /\ body[q].module = frames[i].module
                                       /\ body[q].trace = frames[i].trace
        BY <3>3, <3>6 DEF Answered
      <4> QED
        BY <1>1, <1>3, <1>4, <4>1
    <3>7. ServerError' = ServerError
      OBVIOUS
    <3> QED
      BY <3>1, <3>4, <3>5, <3>6 DEF Answered
  <2> QED
    BY <2>1, <2>2
<1> QED
  BY <1>9, <1>10 DEF Rooted

\* A step that ends at most frame i, and answers request r if i is its first.
LEMMA TouchesRooted ==
  ASSUME Typed, Rooted, Touches, UNCHANGED role, NEW i \in DOMAIN frames,
         \A k \in DOMAIN frames \ {i} : frames'[k].state = frames[k].state,
         \/ UNCHANGED <<response, body>> /\ frames'[i].state = frames[i].state
         \/ UNCHANGED <<response, body>> /\ \A q \in Requests : ~IsRoot(i, q)
         \/ \E r \in Requests :
              /\ IsRoot(i, r) /\ frames[i].state = "running" /\ frames'[i].state # "running"
              /\ response'[r] \in {"200", "500"} /\ Answered(r)'
              /\ \A q \in Requests \ {r} : response'[q] = response[q] /\ body'[q] = body[q]
  PROVE  Rooted'
<1>1. /\ DOMAIN frames' = DOMAIN frames
      /\ \A k \in DOMAIN frames :
           /\ frames'[k].request = frames[k].request /\ frames'[k].parent = frames[k].parent
           /\ frames'[k].module = frames[k].module /\ frames'[k].script = frames[k].script
           /\ frames'[k].trace = frames[k].trace
           /\ frames'[k].state = "running" => frames[k].state = "running"
  BY TouchesTyped DEF Touches
<1>2. \A k, q : IsRoot(k, q)' <=> IsRoot(k, q)
  BY <1>1 DEF IsRoot
<1>3. \A q \in Requests : response'[q] = response[q] \/ response'[q] \in {"200", "500"}
  OBVIOUS
<1>4. ASSUME NEW k \in DOMAIN frames
      PROVE  /\ role = "serve" /\ frames'[k].script \notin Public => frames'[k].parent # 0
             /\ frames'[k].request \in Requests =>
                  response'[frames'[k].request] \in {"calling", "200", "500"}
  BY <1>1, <1>3 DEF Rooted, OneRoot
<1>5. ASSUME NEW q \in Requests, NEW k \in DOMAIN frames, IsRoot(k, q), frames'[k].state = "running"
      PROVE  response'[q] = "calling"
  <2>1. frames[k].state = "running" /\ response[q] = "calling"
    BY <1>1, <1>5 DEF Rooted, OneRoot
  <2>2. ASSUME NEW r \in Requests, IsRoot(i, r), frames'[i].state # "running",
               \A p \in Requests \ {r} : response'[p] = response[p]
        PROVE  response'[q] = response[q]
    <3>1. q # r
      BY <1>5, <2>2 DEF Rooted, OneRoot
    <3> QED
      BY <2>2, <3>1
  <2> QED
    BY <2>1, <2>2
<1>6. OneRoot'
  BY <1>1, <1>2, <1>4, <1>5 DEF Rooted, OneRoot
<1>7. ASSUME NEW q \in Requests, response'[q] = response[q], body'[q] = body[q],
             IsRoot(i, q) => frames'[i].state = frames[i].state
      PROVE  Answered(q)'
  <2>1. Answered(q)
    BY DEF Rooted
  <2>2. \A k \in DOMAIN frames : IsRoot(k, q) => frames'[k].state = frames[k].state
    BY <1>7
  <2>3. ASSUME response[q] = "200" PROVE \E k \in DOMAIN frames' : IsRoot(k, q)' /\ frames'[k].state = "returned"
    BY <1>1, <1>2, <2>1, <2>2, <2>3 DEF Answered
  <2>4. ASSUME response[q] = "500", body[q] = ServerError, NEW k \in DOMAIN frames', IsRoot(k, q)'
        PROVE  frames'[k].state # "threw"
    BY <1>1, <1>2, <2>1, <2>2, <2>4 DEF Answered
  <2>5. ASSUME response[q] = "500", body[q] # ServerError
        PROVE  \E k \in DOMAIN frames' : /\ IsRoot(k, q)' /\ frames'[k].state = "threw"
                                         /\ body[q].module = frames'[k].module
                                         /\ body[q].trace = frames'[k].trace
    <3>1. PICK k \in DOMAIN frames : /\ IsRoot(k, q) /\ frames[k].state = "threw"
                                     /\ body[q].module = frames[k].module
                                     /\ body[q].trace = frames[k].trace
      BY <2>1, <2>5 DEF Answered
    <3> QED
      BY <1>1, <1>2, <2>2, <3>1
  <2> QED
    BY <1>7, <2>3, <2>4, <2>5 DEF Answered
<1>8. ASSUME NEW q \in Requests PROVE Answered(q)'
  <2>1. ASSUME NEW r \in Requests, IsRoot(i, r), Answered(r)',
               \A p \in Requests \ {r} : response'[p] = response[p] /\ body'[p] = body[p]
        PROVE  Answered(q)'
    <3>1. CASE q = r
      BY <2>1, <3>1
    <3>2. CASE q # r
      <4>1. ~IsRoot(i, q)
        BY <2>1, <3>2 DEF IsRoot
      <4> QED
        BY <1>7, <2>1, <3>2, <4>1
    <3> QED
      BY <3>1, <3>2
  <2> QED
    BY <1>7, <2>1
<1> QED
  BY <1>6, <1>8 DEF Rooted

\* Every step keeps one root to a request, and an answer to a root that ended.
LEMMA RootedStep == Typed /\ Rooted /\ [Next]_vars => Rooted'
<1> SUFFICES ASSUME Typed, Rooted, [Next]_vars PROVE Rooted'
  OBVIOUS
<1>1. ASSUME NEW r \in Requests, Refuses(r) PROVE Rooted'
  <2>1. \A i \in DOMAIN frames : frames[i].request # r
    BY <1>1 DEF Refuses, Rooted, OneRoot, None
  <2>2. PICK x \in {"reading", "404", "400", "500"} :
          /\ response' = [response EXCEPT ![r] = x]
          /\ x = "500" => body' = [body EXCEPT ![r] = ServerError]
          /\ x # "500" => body' = body
    BY <1>1 DEF Refuses
  <2>3. /\ UNCHANGED <<role, frames>>
        /\ \A q \in Requests \ {r} : response'[q] = response[q] /\ body'[q] = body[q]
        /\ response'[r] = x /\ (x = "500" => body'[r] = ServerError)
    BY <1>1, <2>2 DEF Refuses, Typed
  <2>4. OneRoot'
    BY <2>1, <2>3 DEF Rooted, OneRoot, IsRoot
  <2>5. ASSUME NEW q \in Requests PROVE Answered(q)'
    <3>1. CASE q = r
      BY <2>1, <2>3, <3>1 DEF Answered, IsRoot
    <3>2. CASE q # r
      BY <2>3, <3>2 DEF Rooted, Answered, IsRoot
    <3> QED
      BY <3>1, <3>2
  <2> QED
    BY <2>4, <2>5 DEF Rooted
<1>2. ASSUME NEW r \in Requests, NEW s \in Scripts, Starts(r, s) PROVE Rooted'
  <2>1. PICK f : Adds(f) /\ f.request = r /\ f.parent = 0 /\ f.script = s
    BY <1>2 DEF Starts, HttpCalls
  <2>2. /\ response[r] = "reading" /\ response'[r] = "calling"
        /\ \A q \in Requests \ {r} : response'[q] = response[q]
        /\ UNCHANGED <<role, body>> /\ s \in Public
    BY <1>2 DEF Starts, Typed
  <2> QED
    BY <2>1, <2>2, AddsRooted
<1>3. ASSUME NEW m \in Modules, StartsTest(m) PROVE Rooted'
  <2>1. PICK f : Adds(f) /\ f.request = None
    BY <1>3 DEF StartsTest, Tests
  <2>2. f.request \notin Requests
    BY <2>1 DEF None
  <2>3. role # "serve" /\ UNCHANGED <<role, response, body>>
    BY <1>3 DEF StartsTest
  <2> QED
    BY <2>1, <2>2, <2>3, AddsRooted
<1>4. ASSUME NEW i \in DOMAIN frames, NEW s \in Scripts, Calls(i, s) PROVE Rooted'
  <2>1. PICK f : Adds(f) /\ f.request = frames[i].request /\ f.parent = i
    BY <1>4 DEF Calls, Nests
  <2>2. f.parent # 0
    BY <2>1 DEF Typed
  <2>3. f.request \in Requests => response[f.request] \in {"calling", "200", "500"}
    BY <2>1 DEF Rooted, OneRoot
  <2>4. UNCHANGED <<role, response, body>>
    BY <1>4 DEF Calls
  <2> QED
    BY <2>1, <2>2, <2>3, <2>4, AddsRooted
<1>5. ASSUME Receives PROVE Rooted'
  <2>1. /\ Touches /\ \A k \in DOMAIN frames : frames'[k].state = frames[k].state
        /\ UNCHANGED <<role, response, body>>
    BY <1>5 DEF Receives
  <2>2. CASE DOMAIN frames # {}
    BY <2>1, <2>2, TouchesRooted
  <2>3. CASE DOMAIN frames = {}
    <3>1. DOMAIN frames' = {}
      BY <2>1, <2>3, TouchesTyped
    <3> QED
      BY <2>1, <2>3, <3>1 DEF Rooted, OneRoot, Answered, IsRoot
  <2> QED
    BY <2>2, <2>3
<1>6. ASSUME NEW i \in DOMAIN frames, Returns(i) \/ Throws(i) PROVE Rooted'
  <2>1. /\ Touches /\ UNCHANGED role /\ frames[i].state = "running" /\ frames'[i].state # "running"
        /\ \A k \in DOMAIN frames \ {i} : frames'[k].state = frames[k].state
    BY <1>6 DEF Returns, Throws, Ended
  <2>2. CASE ~(frames[i].parent = 0 /\ frames[i].request \in Requests)
    <3>1. UNCHANGED <<response, body>> /\ \A q \in Requests : ~IsRoot(i, q)
      BY <1>6, <2>2 DEF Returns, Throws, Tells, IsRoot
    <3> QED
      BY <2>1, <3>1, TouchesRooted
  <2>3. CASE frames[i].parent = 0 /\ frames[i].request \in Requests
    <3>r. PICK r \in Requests : r = frames[i].request
      BY <2>3
    <3>1. ASSUME NEW status, NEW e, Tells(i, status, e)
          PROVE  /\ response'[r] = status /\ body'[r] = e
                 /\ \A q \in Requests \ {r} : response'[q] = response[q] /\ body'[q] = body[q]
      BY <2>3, <3>r, <3>1 DEF Tells, Typed
    <3>2. IsRoot(i, r) /\ IsRoot(i, r)'
      BY <2>1, <2>3, <3>r, TouchesTyped DEF IsRoot, Touches
    <3>3. \A k \in DOMAIN frames' : IsRoot(k, r)' => k = i
      <4>1. \A k \in DOMAIN frames : IsRoot(k, r) => k = i
        BY <3>2 DEF Rooted, OneRoot
      <4> QED
        BY <2>1, <4>1, TouchesTyped DEF IsRoot, Touches
    <3>4. i \in DOMAIN frames'
      BY <3>2 DEF IsRoot
    <3>5. response'[r] \in {"200", "500"} /\ Answered(r)'
      <4>1. CASE Returns(i)
        <5>1. frames'[i].state = "returned" /\ response'[r] \in {"200", "500"}
              /\ (response'[r] = "500" => body'[r] = ServerError)
          BY <3>1, <4>1 DEF Returns, Ended
        <5> QED
          BY <3>2, <3>3, <3>4, <5>1 DEF Answered
      <4>2. CASE Throws(i)
        <5>1. /\ frames'[i].state = "threw" /\ response'[r] = "500" /\ body'[r] # ServerError
              /\ body'[r].module = frames[i].module /\ body'[r].trace = frames[i].trace
          BY <3>1, <4>2 DEF Throws, Ended
        <5>2. frames'[i].module = frames[i].module /\ frames'[i].trace = frames[i].trace
          BY <2>1 DEF Touches
        <5> QED
          BY <3>2, <3>4, <5>1, <5>2 DEF Answered
      <4> QED
        BY <1>6, <4>1, <4>2
    <3>6. \A q \in Requests \ {r} : response'[q] = response[q] /\ body'[q] = body[q]
      BY <1>6, <3>1 DEF Returns, Throws
    <3> QED
      BY <2>1, <3>2, <3>5, <3>6, TouchesRooted
  <2> QED
    BY <2>2, <2>3
<1>7. ASSUME UNCHANGED <<role, frames, response, body>> PROVE Rooted'
  BY <1>7 DEF Rooted, OneRoot, Answered, IsRoot
<1> QED
  BY <1>1, <1>2, <1>3, <1>4, <1>5, <1>6, <1>7, StepKinds DEF Stops, vars

\* The roots are kept in every behaviour.
LEMMA AlwaysRooted == Spec => []Rooted
BY AlwaysTyped, RootedInit, RootedStep, PTL DEF Spec

\* A script that is not public runs for a script or a test only, and a request
\* that is refused runs nothing.
THEOREM PrivateScriptsRunInside == Spec => []PrivateFromInside
<1>1. Rooted => PrivateFromInside
  BY DEF Rooted, OneRoot, PrivateFromInside
<1> QED
  BY <1>1, AlwaysRooted, PTL

\* A response tells how the requested script ended, with that script's module
\* and trace, or shows an error of the server.
THEOREM ResponsesMatchCalls == Spec => []ResponseMatchesCall
<1>1. Rooted => ResponseMatchesCall
  <2> SUFFICES ASSUME Rooted PROVE ResponseMatchesCall
    OBVIOUS
  <2>1. ASSUME NEW r \in Requests
        PROVE  /\ response[r] = "200" =>
                    {i \in DOMAIN frames : /\ frames[i].request = r /\ frames[i].parent = 0
                                           /\ frames[i].state = "returned"} # {}
               /\ response[r] = "500" =>
                    IF body[r] = ServerError
                      THEN {i \in DOMAIN frames : /\ frames[i].request = r /\ frames[i].parent = 0
                                                  /\ frames[i].state = "threw"} = {}
                      ELSE \E i \in {k \in DOMAIN frames : /\ frames[k].request = r /\ frames[k].parent = 0
                                                           /\ frames[k].state = "threw"} :
                             /\ body[r].module = frames[i].module
                             /\ body[r].trace = frames[i].trace
    <3>1. Answered(r)
      BY DEF Rooted
    <3> QED
      BY <3>1 DEF Answered, IsRoot
  <2> QED
    BY <2>1 DEF ResponseMatchesCall
<1> QED
  BY <1>1, AlwaysRooted, PTL

-----------------------------------------------------------------------------
\* A server that was never called has no pools.
LEMMA PoolsInit == Init => PoolsKept
<1> SUFFICES ASSUME Init PROVE PoolsKept
  OBVIOUS
<1>1. DOMAIN frames = {} /\ shutdownState = None /\ isShutDown = FALSE
  BY DEF Init
<1>2. \A m \in Modules : pools[m] = None
  BY DEF Init
<1>3. \A r \in Requests : response[r] = None
  BY DEF Init
<1> QED
  BY <1>1, <1>2, <1>3 DEF PoolsKept, None

\* A step that makes a frame, and the pool of its module, while nothing is shut
\* down or where there is no database.
LEMMA PoolsAdded ==
  ASSUME Typed, PoolsKept, NEW f, Adds(f), f.module \in Modules,
         pools' = PoolsWith(f.module), isShutDown = TRUE => f.module \notin HasDb,
         UNCHANGED <<role, isShutDown, shutdownState>>,
         \A r \in Requests : response'[r] # None => role = "serve"
  PROVE  PoolsKept'
<1> DEFINE m == f.module
<1>1. /\ \A k \in DOMAIN frames : frames'[k] = frames[k]
      /\ frames'[Len(frames) + 1] = f /\ DOMAIN frames' = 1..(Len(frames) + 1)
      /\ DOMAIN frames = 1..Len(frames) /\ Len(frames) \in Nat /\ frames' # <<>>
  BY AddsTyped
<1>2. /\ \A n \in Modules : pools'[n] = pools[n] \/ (n = m /\ m \in HasDb /\ pools'[n] = "open")
      /\ m \in HasDb /\ pools[m] # "closed" => pools'[m] = "open"
  BY PoolsTyped
<1>3. isShutDown = FALSE => \A n \in Modules : pools'[n] # "closed"
  BY <1>2 DEF PoolsKept
<1>4. shutdownState = "done" => \A n \in Modules : pools'[n] # "open"
  <2>1. shutdownState = "done" => isShutDown = TRUE
    BY DEF PoolsKept, None
  <2> QED
    BY <1>2, <2>1 DEF PoolsKept
<1>5. ASSUME NEW i \in DOMAIN frames', frames'[i].state = "running", frames'[i].module \in HasDb,
             isShutDown = FALSE
      PROVE  pools'[frames'[i].module] = "open"
  <2>1. CASE i \in DOMAIN frames
    <3>1. pools[frames[i].module] = "open"
      BY <1>1, <1>5, <2>1 DEF PoolsKept
    <3>2. frames[i].module \in Modules
      <4>1. frames[i] \in FrameType
        BY <2>1 DEF Typed
      <4> QED
        BY <4>1 DEF FrameType
    <3> QED
      BY <1>1, <1>2, <2>1, <3>1, <3>2
  <2>2. CASE i = Len(frames) + 1
    BY <1>1, <1>2, <1>5, <2>2 DEF PoolsKept
  <2> QED
    BY <1>1, <2>1, <2>2
<1>6. /\ shutdownState' # None => isShutDown' = TRUE
      /\ isShutDown' = TRUE => role' = "test" /\ frames' # <<>>
  BY <1>1 DEF PoolsKept
<1> QED
  BY <1>3, <1>4, <1>5, <1>6 DEF PoolsKept

\* A step that leaves the pools alone, and makes no frame.
LEMMA PoolsLeft ==
  ASSUME Typed, PoolsKept, Touches \/ UNCHANGED frames,
         UNCHANGED <<role, pools, isShutDown, shutdownState>>,
         \A r \in Requests : response'[r] # None => role = "serve"
  PROVE  PoolsKept'
<1>1. CASE Touches
  <2>1. DOMAIN frames' = DOMAIN frames /\ (frames # <<>> => frames' # <<>>)
    <3>1. DOMAIN frames' = DOMAIN frames /\ DOMAIN frames = 1..Len(frames) /\ Len(frames) \in Nat
      BY <1>1, TouchesTyped
    <3>2. frames' \in Seq(FrameType) /\ frames \in Seq(FrameType) /\ Len(frames') = Len(frames)
      BY <1>1 DEF Typed, Touches
    <3> QED
      BY <3>1, <3>2
  <2>2. \A i \in DOMAIN frames : /\ frames'[i].module = frames[i].module
                                 /\ frames'[i].state = "running" => frames[i].state = "running"
    BY <1>1 DEF Touches
  <2> QED
    BY <2>1, <2>2 DEF PoolsKept
<1>2. CASE UNCHANGED frames
  BY <1>2 DEF PoolsKept
<1> QED
  BY <1>1, <1>2

\* Every step keeps the pools that running calls use.
LEMMA PoolsStep == Typed /\ Rooted /\ PoolsKept /\ [Next]_vars => PoolsKept'
<1> SUFFICES ASSUME Typed, Rooted, PoolsKept, [Next]_vars PROVE PoolsKept'
  OBVIOUS
<1>r. \A r \in Requests : response[r] # None => role = "serve"
  BY DEF PoolsKept
<1>m. \A s \in Scripts : ModuleOf[s] \in Modules
  OBVIOUS
<1>1. ASSUME NEW r \in Requests, Refuses(r) PROVE PoolsKept'
  <2>1. role = "serve"
    BY <1>r, <1>1 DEF Refuses, None
  <2> QED
    BY <1>1, <2>1, PoolsLeft DEF Refuses
<1>2. ASSUME NEW r \in Requests, NEW s \in Scripts, Starts(r, s) PROVE PoolsKept'
  <2>1. PICK f : Adds(f) /\ f.module = ModuleOf[s]
    BY <1>2 DEF Starts, HttpCalls
  <2>2. role = "serve"
    BY <1>r, <1>2 DEF Starts, None
  <2>3. isShutDown # TRUE
    BY <2>2 DEF PoolsKept
  <2> QED
    BY <1>2, <1>m, <2>1, <2>2, <2>3, PoolsAdded DEF Starts
<1>3. ASSUME NEW m \in Modules, StartsTest(m) PROVE PoolsKept'
  <2>1. PICK f : Adds(f) /\ f.module = m
    BY <1>3 DEF StartsTest, Tests
  <2>2. isShutDown # TRUE
    BY <1>3 DEF StartsTest, PoolsKept
  <2> QED
    BY <1>3, <1>r, <2>1, <2>2, PoolsAdded DEF StartsTest
<1>4. ASSUME NEW i \in DOMAIN frames, NEW s \in Scripts, Calls(i, s) PROVE PoolsKept'
  <2>1. PICK f : Adds(f) /\ f.module = ModuleOf[s]
    BY <1>4 DEF Calls, Nests
  <2>2. isShutDown = TRUE => f.module \notin HasDb
    BY <1>4, <2>1 DEF Calls, PoolRefused
  <2> QED
    BY <1>4, <1>m, <1>r, <2>1, <2>2, PoolsAdded DEF Calls
<1>5. ASSUME Receives PROVE PoolsKept'
  BY <1>5, <1>r, PoolsLeft DEF Receives
<1>6. ASSUME NEW i \in DOMAIN frames, Returns(i) \/ Throws(i) PROVE PoolsKept'
  <2>1. Touches /\ UNCHANGED <<role, pools, isShutDown, shutdownState>>
    BY <1>6 DEF Returns, Throws, Ended
  <2>2. \A r \in Requests : response'[r] # None => role = "serve"
    <3>1. PICK status, e : Tells(i, status, e)
      BY <1>6 DEF Returns, Throws
    <3>2. CASE frames[i].parent = 0 /\ frames[i].request \in Requests
      \* The request the frame answers has been accepted.
      <4>1. response[frames[i].request] # None
        BY <3>2 DEF Rooted, OneRoot, None
      <4> QED
        BY <1>r, <3>1, <3>2, <4>1 DEF Tells, Typed
    <3>3. CASE ~(frames[i].parent = 0 /\ frames[i].request \in Requests)
      BY <1>r, <3>1, <3>3 DEF Tells
    <3> QED
      BY <3>2, <3>3
  <2> QED
    BY <2>1, <2>2, PoolsLeft
<1>7. ASSUME Stops PROVE PoolsKept'
  <2>1. CASE Shutdown
    BY <1>7, <2>1 DEF Shutdown, Stops, PoolsKept, None
  <2>2. CASE ShutdownDone
    BY <1>7, <2>2 DEF ShutdownDone, Stops, PoolsKept, None
  <2>3. ASSUME NEW m \in Modules, Disconnect(m) PROVE PoolsKept'
    <3>1. shutdownState = "running" /\ isShutDown = TRUE /\ isShutDown' = TRUE
      BY <2>3 DEF Disconnect, PoolsKept, None
    <3>2. shutdownState' # "done"
      BY <2>3 DEF Disconnect
    <3> QED
      BY <1>7, <3>1, <3>2 DEF Stops, PoolsKept
  <2> QED
    BY <1>7, <2>1, <2>2, <2>3 DEF Stops
<1>8. ASSUME UNCHANGED vars PROVE PoolsKept'
  BY <1>8 DEF vars, PoolsKept
<1> QED
  BY <1>1, <1>2, <1>3, <1>4, <1>5, <1>6, <1>7, <1>8, StepKinds

\* Until the shutdown, the module of a running call has its connection pool.
THEOREM RunningCallsHavePools == Spec => []FrameHasPool
<1>1. Typed /\ PoolsKept => FrameHasPool
  BY DEF Typed, PoolsKept, FrameHasPool, Running
<1> QED
  BY <1>1, AlwaysTyped, AlwaysRooted, PoolsInit, PoolsStep, PTL DEF Spec

\* After the shutdown has started no pool is opened, by any call still running,
\* and when it is done none is open.
THEOREM ShutPoolsStayClosed == Spec => PoolsStayClosed
<1> DEFINE Closed == /\ isShutDown => \A m \in Modules : pools'[m] = "open" => pools[m] = "open"
                     /\ shutdownState' = "done" => \A m \in Modules : pools'[m] # "open"
<1>1. ASSUME Typed, PoolsKept, PoolsKept', Next PROVE Closed
  <2>1. shutdownState' = "done" => \A m \in Modules : pools'[m] # "open"
    BY <1>1 DEF PoolsKept
  <2>2. ASSUME isShutDown PROVE \A m \in Modules : pools'[m] = "open" => pools[m] = "open"
    <3>1. role = "test" /\ frames # <<>> /\ isShutDown = TRUE
      BY <1>1, <2>2 DEF PoolsKept
    <3>2. ASSUME NEW r \in Requests, NEW s \in Scripts, Starts(r, s) PROVE FALSE
      BY <1>1, <3>1, <3>2 DEF Starts, PoolsKept, None
    <3>3. ASSUME NEW m \in Modules, StartsTest(m) PROVE FALSE
      BY <3>1, <3>3 DEF StartsTest
    <3>4. ASSUME NEW i \in DOMAIN frames, NEW s \in Scripts, Calls(i, s) PROVE UNCHANGED pools
      BY <3>1, <3>4 DEF Calls, PoolRefused, PoolsWith
    <3>5. ASSUME Stops, NEW n \in Modules, pools'[n] = "open" PROVE pools[n] = "open"
      <4>1. CASE UNCHANGED pools
        BY <3>5, <4>1
      <4>2. ASSUME NEW m \in Modules, pools' = [pools EXCEPT ![m] = "closed"]
            PROVE  pools[n] = "open"
        BY <1>1, <3>5, <4>2 DEF Typed
      <4> QED
        BY <3>5, <4>1, <4>2 DEF Stops, Shutdown, ShutdownDone, Disconnect
    <3> QED
      BY <1>1, <3>2, <3>3, <3>4, <3>5, StepKinds DEF Refuses, Receives, Returns, Throws, Ended
  <2> QED
    BY <2>1, <2>2
<1>2. ASSUME Typed, PoolsKept, PoolsKept', [Next]_vars PROVE [Closed]_vars
  BY <1>1, <1>2
<1>3. Spec => []PoolsKept
  BY AlwaysTyped, AlwaysRooted, PoolsInit, PoolsStep, PTL DEF Spec
<1> QED
  BY <1>2, <1>3, AlwaysTyped, PTL DEF Spec, PoolsStayClosed
==============================================================================
