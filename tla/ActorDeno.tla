------------------------------ MODULE ActorDeno ------------------------------
(***************************************************************************)
(* src/dynamic/actor.ts behind src/runtime/actor.ts: the actor driver of   *)
(* the Deno runtime, which keeps every actor and its storage in one Map    *)
(* (ActorCf has the other driver, and the specification of both).          *)
(* The clients are scripts like tests/basic/modules/foo/scripts/actor.ts;  *)
(* the actor's method is addPong of tests/basic/modules/foo/actors.  The   *)
(* event loop switches clients at every await.                             *)
(***************************************************************************)
EXTENDS Integers, Sequences, FiniteSets

CONSTANTS
  Classes,      \* the actors of all modules
  StorageId,    \* the storage_id of each, as a sequence of characters
  Labels,       \* the labels actors are created with, as such sequences
  Clients,      \* the script calls
  MaxRuns       \* bound: runs of the script, over all clients

ASSUME MaxRunsAssumption == MaxRuns \in Nat
ASSUME LabelsAssumption == Labels \subseteq Seq(STRING)

\* Nothing more is known of a storage id: the code keeps two actors of one module
\* from having the same (config/module.ts:112), but not two of different modules,
\* nor the delimiter of getId out of it.
ASSUME StorageIdAssumption == StorageId \in [Classes -> Seq(STRING)]

VARIABLES
  ACTOR_STORAGE,  \* per id: the instance, and the pongs in its storage
  instances,      \* every actor object made, in order
  pc,             \* per client: the await it is at
  target,         \* per client: the class and label it uses
  stub,           \* per client: the actor object of its handle, 0 if none yet
  local,          \* per client: the pongs addPong has read
  runs            \* runs begun so far

denoVars == <<ACTOR_STORAGE, instances, pc, target, stub, local, runs>>

\* A mutant of getId: labels without their actor.
IdOfLabel(t) == <<"%", "%">> \o t.label

\* getId: the hash of this name; the hash itself never collides.
Id(t) == <<"%", "%">> \o StorageId[t.class] \o <<"%", "%">> \o t.label

Targets == [class : Classes, label : Labels]
Ids == {Id(t) : t \in Targets}

NoEntry == [actor |-> 0, pongs |-> 0]
Has(id) == ACTOR_STORAGE[id] # NoEntry

\* What actorExists returns; the mutant looks for any actor of the storage.
AnyExists(t) == \E label \in Labels : Has(Id([t EXCEPT !.label = label]))
Exists(t) == Has(Id(t))

DenoInit ==
  /\ ACTOR_STORAGE = [id \in Ids |-> NoEntry]
  /\ instances = <<>>
  /\ pc = [c \in Clients |-> "idle"]
  /\ target \in [Clients -> Targets]
  /\ stub = [c \in Clients |-> 0]
  /\ local = [c \in Clients |-> 0]
  /\ runs = 0

Goto(c, label) == pc' = [pc EXCEPT ![c] = label]

\* The script begins: it asks whether the actor exists, or takes a handle
\* without asking (ActorProxy.get).
Begin(c) ==
  /\ pc[c] \in {"idle", "done", "threw"} /\ runs < MaxRuns
  /\ runs' = runs + 1
  /\ target' \in {[target EXCEPT ![c] = t] : t \in Targets}
  /\ stub' = [stub EXCEPT ![c] = 0]
  /\ pc' \in {[pc EXCEPT ![c] = "exists"], [pc EXCEPT ![c] = "blind"]}
  /\ UNCHANGED <<ACTOR_STORAGE, instances, local>>

\* actorExists, after the await of getId.
ActorExists(c) ==
  /\ pc[c] = "exists"
  /\ Goto(c, IF Exists(target[c]) THEN "get" ELSE "create")
  /\ UNCHANGED <<ACTOR_STORAGE, instances, target, stub, local, runs>>

\* createActor, after the await of getId: a new object and a new storage, put
\* over the old ones if there are any; or buildState throws before that.
CreateActor(c) ==
  LET id == Id(target[c])
  IN  /\ pc[c] = "create"
      /\ \/ /\ instances' = Append(instances, [class |-> target[c].class, id |-> id])
            /\ ACTOR_STORAGE' = [ACTOR_STORAGE EXCEPT
                                   ![id] = [actor |-> Len(instances) + 1, pongs |-> 0]]
            /\ Goto(c, "get")
         \/ Goto(c, "threw") /\ UNCHANGED <<instances, ACTOR_STORAGE>>
      /\ UNCHANGED <<target, stub, local, runs>>

\* A getActor that returns what the Map does, undefined or not.
GetActorUnchecked(c) ==
  /\ pc[c] \in {"get", "blind"}
  /\ stub' = [stub EXCEPT ![c] = ACTOR_STORAGE[Id(target[c])].actor]
  /\ Goto(c, "call")
  /\ UNCHANGED <<ACTOR_STORAGE, instances, target, local, runs>>

\* The handle's first call: getActor, after the await of getId.
GetActor(c) ==
  LET id == Id(target[c])
  IN  /\ pc[c] \in {"get", "blind"}
      /\ \/ /\ Has(id)
            /\ stub' = [stub EXCEPT ![c] = ACTOR_STORAGE[id].actor]
            /\ Goto(c, "call")
         \/ /\ ~Has(id)
            /\ Goto(c, "threw")
            /\ UNCHANGED stub
      /\ UNCHANGED <<ACTOR_STORAGE, instances, target, local, runs>>

\* callActor: addPong up to its first await, the get of StorageProxy, which
\* looks the storage up by the id of the object.
AddPongGet(c) ==
  /\ pc[c] = "call"
  /\ local' = [local EXCEPT ![c] = ACTOR_STORAGE[instances[stub[c]].id].pongs]
  /\ Goto(c, "put")
  /\ UNCHANGED <<ACTOR_STORAGE, instances, target, stub, runs>>

\* addPong after the await: the put of StorageProxy.
AddPongPut(c) ==
  /\ pc[c] = "put"
  /\ ACTOR_STORAGE' = [ACTOR_STORAGE EXCEPT ![instances[stub[c]].id].pongs = local[c] + 1]
  /\ Goto(c, "done")
  /\ UNCHANGED <<instances, target, stub, local, runs>>

\* The same handle is called again.
CallAgain(c) ==
  /\ pc[c] = "done" /\ stub[c] # 0 /\ runs < MaxRuns
  /\ runs' = runs + 1
  /\ Goto(c, "call")
  /\ UNCHANGED <<ACTOR_STORAGE, instances, target, stub, local>>

DenoNext ==
  \E c \in Clients :
    \/ Begin(c) \/ ActorExists(c) \/ CreateActor(c) \/ GetActor(c)
    \/ AddPongGet(c) \/ AddPongPut(c) \/ CallAgain(c)

-----------------------------------------------------------------------------
\* The state is well typed, and a handle that is called has its object.
DenoTypeOK ==
  /\ \A id \in Ids : /\ ACTOR_STORAGE[id].actor \in 0..Len(instances)
                     /\ ACTOR_STORAGE[id].pongs \in 0..MaxRuns
  /\ \A n \in DOMAIN instances : /\ instances[n].class \in Classes
                                 /\ instances[n].id \in Ids
  /\ pc \in [Clients -> {"idle", "exists", "blind", "create", "get", "call",
                         "put", "done", "threw"}]
  /\ target \in [Clients -> Targets]
  /\ stub \in [Clients -> 0..Len(instances)]
  /\ \A c \in Clients : pc[c] \in {"call", "put", "done"} => stub[c] # 0
  /\ local \in [Clients -> 0..MaxRuns]
  /\ runs \in 0..MaxRuns

\* A script that has seen the actor, or made it, can call it: nothing another
\* script does meanwhile makes getActor throw at it.
SeenInDeno ==
  \A c \in Clients : pc[c] = "get" => Has(Id(target[c]))

\* No other class's storage id makes a name of this one: neither of the two, with
\* the delimiter after it, begins the other.
Key(x) == StorageId[x] \o <<"%", "%">>
Begins(s, r) == Len(s) <= Len(r) /\ \A n \in DOMAIN s : s[n] = r[n]
Apart(x) == \A y \in Classes \ {x} : ~Begins(Key(x), Key(y)) /\ ~Begins(Key(y), Key(x))

\* A handle reaches an object with the storage of its label, and of its class, if
\* the class's storage id is apart from all others: "A globally unique string for
\* storing data for this actor." (config/module.ts:67), which nothing checks.
HandleInDeno ==
  \A c \in Clients : stub[c] # 0 =>
    /\ Apart(target[c].class) => instances[stub[c]].class = target[c].class
    /\ instances[stub[c]].id = Id(target[c])
=============================================================================
