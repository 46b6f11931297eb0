------------------------------- MODULE ActorCf -------------------------------
(***************************************************************************)
(* src/dynamic/actor_cf.ts behind src/runtime/actor.ts: the actor driver   *)
(* of the Cloudflare runtime, a durable object per actor, for the scripts  *)
(* of ActorDeno.  While an event of an object waits for its storage, the   *)
(* input gate keeps other events out; any other await lets them in.        *)
(***************************************************************************)
EXTENDS ActorDeno

VARIABLES
  driver,   \* "deno" or "cf": which of the two the entrypoint imports
  objects,  \* per id, the durable object
  held,     \* per client: this.state of the actor its call has made
  failed    \* ids whose last __init threw in buildState

vars == <<denoVars, driver, objects, held, failed>>

\* The storage: __path, the state (0 if undefined; a method adds one), and the
\* pongs.  Further the methods that have ended since the state was built, the
\* pongs put, and whether a method awaited anything but the storage.
NoObject == [path |-> "none", state |-> 0, pongs |-> 0, ended |-> 0, put |-> 0,
             outside |-> FALSE]

Object(c) == objects[Id(target[c])]
Store(c, object) == objects' = [objects EXCEPT ![Id(target[c])] = object]

\* Does no event of the client's object hold its input gate?
Inside(c) == pc[c] \in {"build", "method", "put", "back"}
Gate(c) == \A d \in Clients : Inside(d) => Id(target[d]) # Id(target[c])

Init ==
  /\ DenoInit
  /\ driver \in {"deno", "cf"}
  /\ objects = [id \in Ids |-> NoObject]
  /\ held = [c \in Clients |-> 0]
  /\ failed = {}

Rest == UNCHANGED <<ACTOR_STORAGE, instances, target, stub, runs, driver>>

\* actorExists, __initialized
CfExists(c) ==
  /\ pc[c] = "exists" /\ Gate(c)
  /\ Goto(c, IF Object(c).path # "none" THEN "get" ELSE "create")
  /\ UNCHANGED <<objects, held, local, failed>> /\ Rest

\* createActor, __init up to its first put,
CfCreate(c) ==
  /\ pc[c] = "create" /\ Gate(c)
  /\ Store(c, [Object(c) EXCEPT !.path = target[c].class])
  /\ Goto(c, "build")
  /\ UNCHANGED <<held, local, failed>> /\ Rest

\* and after it: buildState may throw.
CfBuild(c) ==
  /\ pc[c] = "build"
  /\ \/ /\ Store(c, [Object(c) EXCEPT !.state = 1, !.ended = 0])
        /\ failed' = failed \ {Id(target[c])}
        /\ Goto(c, "get")
     \/ /\ failed' = failed \cup {Id(target[c])}
        /\ Goto(c, "threw") /\ UNCHANGED objects
  /\ UNCHANGED <<held, local>> /\ Rest

\* getActor does not ask the object.
CfGet(c) ==
  /\ pc[c] \in {"get", "blind"}
  /\ Goto(c, "call")
  /\ UNCHANGED <<objects, held, local, failed>> /\ Rest

\* __call up to the actor's method; the mutant is an actor that lets two of
\* its calls in.
CallUngated(c) ==
  /\ pc[c] = "call"
  /\ Goto(c, IF Object(c).state = 0 THEN "threw" ELSE "method")
  /\ held' = [held EXCEPT ![c] = Object(c).state]
  /\ UNCHANGED <<objects, local, failed>> /\ Rest
CfCall(c) ==
  /\ pc[c] = "call" /\ Gate(c)
  /\ Goto(c, IF Object(c).state = 0 THEN "threw" ELSE "method")
  /\ held' = [held EXCEPT ![c] = Object(c).state]
  /\ UNCHANGED <<objects, local, failed>> /\ Rest

\* addPong, which then may go on to something outside of the object,
CfPongGet(c) ==
  /\ pc[c] = "method"
  /\ local' = [local EXCEPT ![c] = Object(c).pongs]
  /\ Goto(c, "put")
  /\ UNCHANGED <<objects, held, failed>> /\ Rest
CfPongPut(c) ==
  /\ pc[c] = "put"
  /\ \E out \in BOOLEAN :
       /\ Store(c, [Object(c) EXCEPT !.pongs = local[c] + 1, !.put = @ + 1,
                                     !.outside = @ \/ out])
       /\ Goto(c, IF out THEN "outside" ELSE "back")
  /\ UNCHANGED <<held, local, failed>> /\ Rest
CfOutside(c) ==
  /\ pc[c] = "outside" /\ Gate(c)
  /\ Goto(c, "back")
  /\ UNCHANGED <<objects, held, local, failed>> /\ Rest

\* and the rest of __call: the state that the method has left is put.
CfPutState(c) ==
  /\ pc[c] = "back"
  /\ Store(c, [Object(c) EXCEPT !.state = held[c] + 1, !.ended = @ + 1])
  /\ Goto(c, "done")
  /\ UNCHANGED <<held, local, failed>> /\ Rest

CfCallAgain(c) ==
  /\ pc[c] = "done" /\ runs < MaxRuns
  /\ runs' = runs + 1
  /\ Goto(c, "call")
  /\ UNCHANGED <<ACTOR_STORAGE, instances, target, stub, local, driver, objects, held,
                 failed>>

CfNext ==
  \E c \in Clients :
    \/ CfExists(c) \/ CfCreate(c) \/ CfBuild(c) \/ CfGet(c) \/ CfCall(c)
    \/ CfPongGet(c) \/ CfPongPut(c) \/ CfOutside(c) \/ CfPutState(c) \/ CfCallAgain(c)
    \/ Begin(c) /\ UNCHANGED <<driver, objects, held, failed>>

Next ==
  \/ driver = "deno" /\ DenoNext /\ UNCHANGED <<driver, objects, held, failed>>
  \/ driver = "cf" /\ CfNext

Spec == Init /\ [][Next]_vars

-----------------------------------------------------------------------------
\* The state is well typed, and a handle that is called has its object.
TypeOK ==
  /\ driver = "deno" => DenoTypeOK
  /\ objects \in [Ids -> [path : Classes \cup {"none"}, state : 0..(MaxRuns + 1),
                         pongs : 0..MaxRuns, ended : 0..MaxRuns, put : 0..MaxRuns,
                         outside : BOOLEAN]]
  /\ held \in [Clients -> 0..(MaxRuns + 1)]
  /\ failed \subseteq Ids

\* A script that has seen the actor, or made it, can call it: nothing another
\* script does meanwhile makes getActor, or __call, throw at it.  The exception
\* is an actor whose buildState threw.
SeenIsCallable ==
  /\ driver = "deno" => SeenInDeno
  /\ driver = "cf" => \A c \in Clients :
       pc[c] = "get" /\ Id(target[c]) \notin failed => Object(c).state # 0

\* A handle reaches objects with the storage of its label, and of its class, if
\* the class's storage id is apart from all others: "A globally unique string for
\* storing data for this actor." (config/module.ts:67), which nothing checks.
HandleOfItsClass ==
  /\ driver = "deno" => HandleInDeno
  /\ driver = "cf" => \A c \in Clients :
       /\ pc[c] \in {"method", "put", "outside", "back"}
       /\ Apart(target[c].class)
       => Object(c).path = target[c].class

\* No update of a durable object is lost to another call: every pong that was
\* put counts, and the state has every method since it was built, as long as
\* methods await nothing but the storage.
UpdatesKept ==
  driver = "cf" => \A id \in Ids :
    /\ objects[id].pongs = objects[id].put
    /\ objects[id].state # 0 /\ ~objects[id].outside =>
         objects[id].state = 1 + objects[id].ended
=============================================================================
