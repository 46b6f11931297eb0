----------------------------- MODULE ActorProofs -----------------------------
(***************************************************************************)
(* Theorems about both actor drivers, for every set of clients, classes    *)
(* and labels and every bound: a script that has seen an actor can call    *)
(* it, a handle whose storage id is apart from all others reaches objects  *)
(* of its class only, and no update of a durable object is lost.           *)
(***************************************************************************)
EXTENDS ActorCf, FiniteSetTheorems, SequenceTheorems, TLAPS

USE MaxRunsAssumption

\* Where a client is in a run, or before the put of its run.
Running == {"exists", "blind", "create", "build", "get", "call", "method", "put",
            "outside", "back"}
Unput == Running \ {"outside", "back"}
Places == Running \cup {"idle", "done", "threw"}

\* The clients that are at one of these places.
At(place, L) == {c \in Clients : place[c] \in L}

Entry(id) == ACTOR_STORAGE[id].actor # 0

\* Clients at these places have a run each that has not got as far; counts of
\* what was done are at most the number of the others.
Left(L) == runs - Cardinality(At(pc, L))

\* The state of the clients, whichever driver they use.
ClientTypes ==
  /\ pc \in [Clients -> Places]
  /\ target \in [Clients -> Targets]
  /\ runs \in Nat /\ runs <= MaxRuns
  /\ local \in [Clients -> Nat]

\* The Map of the Deno driver: an id's entry holds the last object of that id.
DenoMap ==
  /\ ACTOR_STORAGE \in [Ids -> [actor : Nat, pongs : Nat]]
  /\ instances \in Seq([class : Classes, id : Ids])
  /\ \A id \in Ids : IF Entry(id)
                      THEN /\ ACTOR_STORAGE[id].actor \in DOMAIN instances
                           /\ instances[ACTOR_STORAGE[id].actor].id = id
                      ELSE ACTOR_STORAGE[id].pongs = 0
  /\ \A n \in DOMAIN instances :
       /\ Entry(instances[n].id)
       /\ \E t \in Targets : instances[n] = [class |-> t.class, id |-> Id(t)]

\* A handle has an object of the client's target, once it is called; and an actor
\* that was seen is in the Map.
DenoHandles ==
  /\ stub \in [Clients -> {0} \cup DOMAIN instances]
  /\ \A c \in Clients :
       /\ stub[c] # 0 => instances[stub[c]].id = Id(target[c])
       /\ pc[c] \in {"call", "put", "done"} => stub[c] # 0
       /\ pc[c] = "get" => Entry(Id(target[c]))
       /\ pc[c] \notin {"build", "method", "outside", "back"}

DenoCounts ==
  /\ IsFiniteSet(At(pc, Running))
  /\ 0 <= Left(Running)
  /\ \A id \in Ids : ACTOR_STORAGE[id].pongs <= Left(Running)
  /\ \A c \in Clients : local[c] <= Left(Running)

DenoInv == ClientTypes /\ DenoMap /\ DenoHandles /\ DenoCounts

\* The objects of the Cloudflare driver.
DurableObject == [path : Classes \cup {"none"}, state : Nat, pongs : Nat,
                  ended : Nat, put : Nat, outside : BOOLEAN]
CfTypes ==
  /\ objects \in [Ids -> DurableObject]
  /\ held \in [Clients -> Nat]
  /\ failed \subseteq Ids

\* A put counts for a run that is past it, an ended method for one that is over.
CfCounts ==
  /\ IsFiniteSet(At(pc, Unput)) /\ IsFiniteSet(At(pc, Running))
  /\ 0 <= Left(Unput) /\ 0 <= Left(Running)
  /\ \A id \in Ids : /\ objects[id].pongs <= Left(Unput)
                     /\ objects[id].put <= Left(Unput)
                     /\ objects[id].state <= 1 + Left(Running)
                     /\ objects[id].ended <= Left(Running)
  /\ \A c \in Clients : local[c] <= Left(Unput) /\ held[c] <= 1 + Left(Running)

\* The input gate: one event at a time is inside an object.
Exclusive ==
  \A c, d \in Clients : Inside(c) /\ Inside(d) /\ Id(target[c]) = Id(target[d]) => c = d

\* Is this the class of an actor with this id?  Storage ids may give it to several.
OfName(id, class) == \E t \in Targets : Id(t) = id /\ t.class = class

\* An object with a state, or one that a client is in, is of a class with its id;
\* and an object without a state is being built, or has failed.
CfMade ==
  /\ \A id \in Ids : objects[id].state # 0 => OfName(id, objects[id].path)
  /\ \A c \in Clients :
       pc[c] \in {"build", "method", "put", "outside", "back"} =>
         OfName(Id(target[c]), Object(c).path)
  /\ \A id \in Ids :
       objects[id].path # "none" /\ objects[id].state = 0 /\ id \notin failed =>
         \E c \in Clients : pc[c] = "build" /\ Id(target[c]) = id
  /\ \A c \in Clients :
       pc[c] = "get" => Id(target[c]) \in failed \/ Object(c).state # 0

\* What a client that is inside has read is still so.
CfKept ==
  /\ \A id \in Ids :
       /\ objects[id].pongs = objects[id].put
       /\ objects[id].state # 0 /\ ~objects[id].outside =>
            objects[id].state = 1 + objects[id].ended
  /\ \A c \in Clients :
       /\ pc[c] = "put" => local[c] = Object(c).pongs
       /\ pc[c] \in {"method", "put", "outside", "back"} =>
            held[c] # 0 /\ Object(c).state # 0
       /\ pc[c] \in {"method", "put", "back"} /\ ~Object(c).outside =>
            held[c] = Object(c).state
       /\ pc[c] = "outside" => Object(c).outside

CfInv == ClientTypes /\ CfTypes /\ CfCounts /\ Exclusive /\ CfMade /\ CfKept

\* Each driver leaves the state of the other as it was.
Inv ==
  /\ driver \in {"deno", "cf"}
  /\ driver = "deno" => /\ DenoInv
                        /\ objects = [id \in Ids |-> NoObject]
                        /\ held = [c \in Clients |-> 0] /\ failed = {}
  /\ driver = "cf" => CfInv

-----------------------------------------------------------------------------
\* Of two equal names, the shorter storage id with its delimiter begins the other.
LEMMA NamesBegin ==
  ASSUME NEW s \in Seq(STRING), NEW r \in Seq(STRING), NEW l \in Seq(STRING),
         NEW m \in Seq(STRING), Len(s) <= Len(r),
         <<"%", "%">> \o s \o <<"%", "%">> \o l = <<"%", "%">> \o r \o <<"%", "%">> \o m
  PROVE  Begins(s \o <<"%", "%">>, r \o <<"%", "%">>)
<1> DEFINE f == <<"%", "%">> \o s \o <<"%", "%">> \o l
           g == <<"%", "%">> \o r \o <<"%", "%">> \o m
           p == s \o <<"%", "%">>
           q == r \o <<"%", "%">>
<1>1. /\ DOMAIN p = 1..Len(p) /\ Len(p) = Len(s) + 2
      /\ \A n \in 1..(Len(s) + 2) : f[n + 2] = p[n]
  OBVIOUS
<1>2. /\ DOMAIN q = 1..Len(q) /\ Len(q) = Len(r) + 2
      /\ \A n \in 1..(Len(r) + 2) : g[n + 2] = q[n]
  OBVIOUS
<1>3. f = g
  OBVIOUS
<1> HIDE DEF f, g, p, q
<1>5. Len(s) \in Nat /\ Len(r) \in Nat
  OBVIOUS
<1>4. Begins(p, q)
  BY <1>1, <1>2, <1>3, <1>5 DEF Begins
<1> QED
  BY <1>4 DEF p, q

\* So an actor whose storage id is apart shares its id with its own class only.
LEMMA ClassesApart ==
  ASSUME NEW t \in Targets, NEW u \in Targets, Id(t) = Id(u), Apart(t.class)
  PROVE  u.class = t.class
<1> DEFINE s == StorageId[t.class]
           r == StorageId[u.class]
           l == t.label
           m == u.label
<1>1. /\ s \in Seq(STRING) /\ r \in Seq(STRING)
      /\ l \in Seq(STRING) /\ m \in Seq(STRING)
      /\ Len(s) \in Nat /\ Len(r) \in Nat
      /\ t.class \in Classes /\ u.class \in Classes
  BY StorageIdAssumption, LabelsAssumption DEF Targets
<1>2. <<"%", "%">> \o s \o <<"%", "%">> \o l = <<"%", "%">> \o r \o <<"%", "%">> \o m
  BY DEF Id
<1>3. Key(t.class) = s \o <<"%", "%">> /\ Key(u.class) = r \o <<"%", "%">>
  BY DEF Key
<1> HIDE DEF s, r, l, m
<1>4. Begins(Key(t.class), Key(u.class)) \/ Begins(Key(u.class), Key(t.class))
  <2>1. CASE Len(s) <= Len(r)
    BY <1>1, <1>2, <1>3, <2>1, NamesBegin
  <2>2. CASE Len(r) <= Len(s)
    BY <1>1, <1>2, <1>3, <2>2, NamesBegin
  <2> QED
    BY <1>1, <2>1, <2>2
<1> QED
  BY <1>1, <1>4 DEF Apart

\* The id of an actor is one of the ids.
LEMMA IdType == \A t \in Targets : Id(t) \in Ids
BY DEF Ids

\* What a step of one client does to the number of clients at certain places.
LEMMA Moves ==
  ASSUME NEW L, NEW p \in [Clients -> Places], NEW c \in Clients,
         NEW l \in Places, IsFiniteSet(At(p, L))
  PROVE  LET q == [p EXCEPT ![c] = l]
         IN  /\ IsFiniteSet(At(q, L))
             /\ Cardinality(At(p, L)) \in Nat /\ Cardinality(At(q, L)) \in Nat
             /\ (p[c] \in L <=> l \in L) => Cardinality(At(q, L)) = Cardinality(At(p, L))
             /\ p[c] \notin L /\ l \in L =>
                  Cardinality(At(q, L)) = Cardinality(At(p, L)) + 1
             /\ p[c] \in L /\ l \notin L =>
                  Cardinality(At(q, L)) = Cardinality(At(p, L)) - 1
<1> DEFINE q == [p EXCEPT ![c] = l]
<1>1. q \in [Clients -> Places] /\ q[c] = l /\ \A d \in Clients \ {c} : q[d] = p[d]
  OBVIOUS
<1> HIDE DEF q
<1>2. CASE p[c] \in L <=> l \in L
  <2>1. At(q, L) = At(p, L)
    BY <1>1, <1>2 DEF At
  <2> QED
    BY <1>2, <2>1, FS_CardinalityType DEF q
<1>3. CASE p[c] \notin L /\ l \in L
  <2>1. At(q, L) = At(p, L) \cup {c} /\ c \notin At(p, L)
    BY <1>1, <1>3 DEF At
  <2>2. /\ Cardinality(At(p, L)) \in Nat
        /\ IsFiniteSet(At(q, L)) /\ Cardinality(At(q, L)) = Cardinality(At(p, L)) + 1
    BY <2>1, FS_CardinalityType, FS_AddElement
  <2> QED
    BY <1>3, <2>2 DEF q
<1>4. CASE p[c] \in L /\ l \notin L
  <2>1. At(q, L) = At(p, L) \ {c} /\ c \in At(p, L)
    BY <1>1, <1>4 DEF At
  <2>2. /\ Cardinality(At(p, L)) \in Nat /\ Cardinality(At(q, L)) \in Nat
        /\ IsFiniteSet(At(q, L)) /\ Cardinality(At(q, L)) = Cardinality(At(p, L)) - 1
    BY <2>1, FS_CardinalityType, FS_RemoveElement
  <2> QED
    BY <1>4, <2>2 DEF q
<1> QED
  BY <1>2, <1>3, <1>4

-----------------------------------------------------------------------------
\* The Deno driver, first.
LEMMA DenoInitInv == DenoInit => DenoInv
<1> SUFFICES ASSUME DenoInit PROVE DenoInv
  OBVIOUS
<1>1. ClientTypes
  BY DEF DenoInit, ClientTypes, Places
<1>2. DenoMap
  BY DEF DenoInit, DenoMap, Entry, NoEntry
<1>3. DenoHandles
  BY DEF DenoInit, DenoHandles
<1>4. DenoCounts
  <2>1. At(pc, Running) = {}
    BY DEF DenoInit, At, Running
  <2>2. Left(Running) = 0 /\ IsFiniteSet(At(pc, Running))
    BY <2>1, FS_EmptySet DEF Left, DenoInit
  <2> QED
    BY <2>2 DEF DenoCounts, DenoInit, NoEntry
<1> QED
  BY <1>1, <1>2, <1>3, <1>4 DEF DenoInv

\* What a client's step from one place to another does to the count of those left.
LEMMA LeftMoves ==
  ASSUME NEW L, ClientTypes, IsFiniteSet(At(pc, L)), NEW c \in Clients,
         NEW l \in Places, Goto(c, l)
  PROVE  /\ IsFiniteSet(At(pc', L)) /\ Left(L) \in Int
         /\ UNCHANGED runs /\ (pc[c] \in L <=> l \in L) => Left(L)' = Left(L)
         /\ UNCHANGED runs /\ pc[c] \in L /\ l \notin L => Left(L)' = Left(L) + 1
         /\ runs' = runs + 1 /\ pc[c] \notin L /\ l \in L => Left(L)' = Left(L)
<1>1. pc \in [Clients -> Places] /\ runs \in Nat
  BY DEF ClientTypes
<1>2. LET q == pc'
      IN  /\ IsFiniteSet(At(q, L))
          /\ Cardinality(At(pc, L)) \in Nat /\ Cardinality(At(q, L)) \in Nat
          /\ (pc[c] \in L <=> l \in L) => Cardinality(At(q, L)) = Cardinality(At(pc, L))
          /\ pc[c] \notin L /\ l \in L =>
               Cardinality(At(q, L)) = Cardinality(At(pc, L)) + 1
          /\ pc[c] \in L /\ l \notin L =>
               Cardinality(At(q, L)) = Cardinality(At(pc, L)) - 1
  BY <1>1, Moves DEF Goto
<1> QED
  BY <1>1, <1>2 DEF Left

\* A script that begins has no handle yet.
LEMMA BeginDeno ==
  ASSUME DenoInv, NEW c \in Clients, Begin(c)
  PROVE  DenoInv'
<1> USE DEF DenoInv
<1>1. PICK t \in Targets, l \in {"exists", "blind"} :
        target' = [target EXCEPT ![c] = t] /\ Goto(c, l)
  BY DEF Begin, Goto
<1>2. /\ runs' = runs + 1 /\ runs < MaxRuns /\ stub' = [stub EXCEPT ![c] = 0]
      /\ pc[c] \in {"idle", "done", "threw"}
      /\ UNCHANGED <<ACTOR_STORAGE, instances, local>>
  BY DEF Begin
<1>3. pc' = [pc EXCEPT ![c] = l] /\ l \in Places
  BY <1>1 DEF Goto, Places, Running
<1>4. ClientTypes'
  BY <1>1, <1>2, <1>3 DEF ClientTypes
<1>5. DenoMap'
  BY <1>2 DEF DenoMap, Entry
<1>6. DenoHandles'
  BY <1>1, <1>2, <1>3 DEF DenoHandles, ClientTypes, Entry
<1>7. DenoCounts'
  <2>1. pc[c] \notin Running /\ l \in Running
    BY <1>1, <1>2 DEF Running
  <2>2. IsFiniteSet(At(pc', Running)) /\ Left(Running)' = Left(Running)
    BY <1>1, <1>2, <1>3, <2>1, LeftMoves DEF DenoCounts
  <2> QED
    BY <1>2, <2>2 DEF DenoCounts
<1> QED
  BY <1>4, <1>5, <1>6, <1>7

\* Asking for the actor changes nothing but the place.
LEMMA ExistsDeno ==
  ASSUME DenoInv, NEW c \in Clients, ActorExists(c)
  PROVE  DenoInv'
<1> USE DEF DenoInv
<1> DEFINE l == IF Exists(target[c]) THEN "get" ELSE "create"
<1>1. /\ pc[c] = "exists" /\ Goto(c, l)
      /\ UNCHANGED <<ACTOR_STORAGE, instances, target, stub, local, runs>>
  BY DEF ActorExists
<1>2. l \in {"get", "create"} /\ (l = "get" => Entry(Id(target[c])))
  <2>1. target[c] \in Targets /\ Id(target[c]) \in Ids
    BY IdType DEF ClientTypes
  <2> QED
    BY <2>1 DEF Exists, Has, NoEntry, Entry, DenoMap
<1> HIDE DEF l
<1>3. pc' = [pc EXCEPT ![c] = l] /\ l \in Places
  BY <1>1, <1>2 DEF Goto, Places, Running
<1>4. ClientTypes'
  BY <1>1, <1>3 DEF ClientTypes
<1>5. DenoMap'
  BY <1>1 DEF DenoMap, Entry
<1>6. DenoHandles'
  BY <1>1, <1>2, <1>3 DEF DenoHandles, ClientTypes, Entry
<1>7. DenoCounts'
  <2>1. pc[c] \in Running /\ l \in Running
    BY <1>1, <1>2 DEF Running
  <2>2. IsFiniteSet(At(pc', Running)) /\ Left(Running)' = Left(Running)
    BY <1>1, <1>3, <2>1, LeftMoves DEF DenoCounts
  <2> QED
    BY <1>1, <2>2 DEF DenoCounts
<1> QED
  BY <1>4, <1>5, <1>6, <1>7

\* An actor whose buildState threw leaves nothing.
LEMMA BuildThrows ==
  ASSUME DenoInv, NEW c \in Clients, pc[c] = "create", Goto(c, "threw"),
         UNCHANGED <<instances, ACTOR_STORAGE, target, stub, local, runs>>
  PROVE  DenoInv'
<1> USE DEF DenoInv
<1>1. pc' = [pc EXCEPT ![c] = "threw"] /\ "threw" \in Places
  BY DEF Goto, Places, Running
<1>2. ClientTypes'
  BY <1>1 DEF ClientTypes
<1>3. DenoMap'
  BY DEF DenoMap, Entry
<1>4. DenoHandles'
  BY <1>1 DEF DenoHandles, ClientTypes, Entry
<1>5. DenoCounts'
  <2>1. pc[c] \in Running /\ "threw" \notin Running
    BY DEF Running
  <2>2. IsFiniteSet(At(pc', Running)) /\ Left(Running)' = Left(Running) + 1 /\ Left(Running) \in Int
    BY <1>1, <2>1, LeftMoves DEF DenoCounts
  <2>3. \A id \in Ids : ACTOR_STORAGE[id].pongs \in Nat
    BY DEF DenoMap
  <2> QED
    BY <2>2, <2>3 DEF DenoCounts, ClientTypes
<1> QED
  BY <1>2, <1>3, <1>4, <1>5

\* An actor put over another leaves the handles of the other their id.
LEMMA CreateDeno ==
  ASSUME DenoInv, NEW c \in Clients, CreateActor(c), Goto(c, "get")
  PROVE  DenoInv'
<1> USE DEF DenoInv
<1> DEFINE id == Id(target[c])
           new == [class |-> target[c].class, id |-> id]
           n == Len(instances) + 1
<1>1. /\ pc[c] = "create" /\ Goto(c, "get")
      /\ instances' = Append(instances, new)
      /\ ACTOR_STORAGE' = [ACTOR_STORAGE EXCEPT ![id] = [actor |-> n, pongs |-> 0]]
      /\ UNCHANGED <<target, stub, local, runs>>
  <2>1. ~Goto(c, "threw")
    <3>1. pc \in [Clients -> Places]
      BY DEF ClientTypes
    <3>2. pc'[c] = "get"
      BY <3>1 DEF Goto
    <3> QED
      BY <3>1, <3>2 DEF Goto
  <2> QED
    BY <2>1 DEF CreateActor
<1>2. /\ target[c] \in Targets /\ id \in Ids
      /\ new \in [class : Classes, id : Ids]
  BY IdType DEF ClientTypes, Targets
<1>3. pc' = [pc EXCEPT ![c] = "get"] /\ "get" \in Places
  BY <1>1 DEF Goto, Places, Running
<1>4. ClientTypes'
  BY <1>1, <1>3 DEF ClientTypes
<1>5. /\ instances \in Seq([class : Classes, id : Ids])
      /\ ACTOR_STORAGE \in [Ids -> [actor : Nat, pongs : Nat]]
      /\ DOMAIN instances = 1..Len(instances) /\ Len(instances) \in Nat
  BY DEF DenoMap
<1>6. /\ instances' \in Seq([class : Classes, id : Ids])
      /\ DOMAIN instances' = 1..n /\ instances'[n] = new /\ n \in Nat \ {0}
      /\ \A k \in DOMAIN instances : instances'[k] = instances[k] /\ k \in DOMAIN instances'
      /\ \A k \in DOMAIN instances' : k = n \/ k \in DOMAIN instances
      /\ new.id = id /\ new = [class |-> target[c].class, id |-> Id(target[c])]
  BY <1>1, <1>2, <1>5
<1>7. /\ ACTOR_STORAGE' \in [Ids -> [actor : Nat, pongs : Nat]]
      /\ ACTOR_STORAGE'[id] = [actor |-> n, pongs |-> 0]
      /\ \A i \in Ids \ {id} : ACTOR_STORAGE'[i] = ACTOR_STORAGE[i]
  BY <1>1, <1>2, <1>5, <1>6
<1> HIDE DEF id, new, n
<1>8. \A i \in Ids : Entry(i)' <=> i = id \/ Entry(i)
  BY <1>2, <1>6, <1>7 DEF Entry
<1>9. DenoMap'
  <2>1. ASSUME NEW i \in Ids
        PROVE  IF Entry(i)'
               THEN /\ ACTOR_STORAGE'[i].actor \in DOMAIN instances'
                    /\ instances'[ACTOR_STORAGE'[i].actor].id = i
               ELSE ACTOR_STORAGE'[i].pongs = 0
    <3>1. CASE i = id
      BY <1>6, <1>7, <1>8, <3>1
    <3>2. CASE i # id
      <4>1. ACTOR_STORAGE'[i] = ACTOR_STORAGE[i] /\ (Entry(i)' <=> Entry(i))
        BY <1>7, <1>8, <3>2
      <4>2. CASE Entry(i)
        BY <1>6, <4>1, <4>2 DEF DenoMap
      <4>3. CASE ~Entry(i)
        BY <4>1, <4>3 DEF DenoMap
      <4> QED
        BY <4>2, <4>3
    <3> QED
      BY <3>1, <3>2
  <2>2. ASSUME NEW k \in DOMAIN instances'
        PROVE  /\ ACTOR_STORAGE'[instances'[k].id].actor # 0
               /\ \E t \in Targets : instances'[k] = [class |-> t.class, id |-> Id(t)]
    <3>1. CASE k = n
      BY <1>2, <1>6, <1>7, <3>1
    <3>2. CASE k \in DOMAIN instances
      <4>1. /\ instances'[k] = instances[k] /\ instances[k].id \in Ids
            /\ Entry(instances[k].id)
            /\ \E t \in Targets : instances[k] = [class |-> t.class, id |-> Id(t)]
        BY <1>5, <1>6, <3>2 DEF DenoMap
      <4>2. Entry(instances[k].id)'
        <5>1. \A i \in Ids : Entry(i) => ACTOR_STORAGE'[i].actor # 0
          BY <1>8 DEF Entry
        <5> QED
          BY <4>1, <5>1 DEF Entry
      <4> QED
        BY <4>1, <4>2 DEF Entry
    <3> QED
      BY <1>6, <2>2, <3>1, <3>2
  <2> QED
    BY <1>6, <1>7, <2>1, <2>2 DEF DenoMap, Entry
<1>10. DenoHandles'
  <2>1. \A d \in Clients : Id(target[d]) \in Ids
    BY IdType DEF ClientTypes
  <2> QED
    BY <1>1, <1>3, <1>6, <1>8, <2>1 DEF DenoHandles, ClientTypes, id
<1>11. DenoCounts'
  <2>1. pc[c] \in Running /\ "get" \in Running
    BY <1>1 DEF Running
  <2>2. IsFiniteSet(At(pc', Running)) /\ Left(Running)' = Left(Running)
    BY <1>1, <1>3, <2>1, LeftMoves DEF DenoCounts
  <2> QED
    BY <1>1, <1>2, <1>7, <2>2 DEF DenoCounts
<1> QED
  BY <1>4, <1>9, <1>10, <1>11

\* A handle gets the object the Map has, or the script throws.
LEMMA GetDeno ==
  ASSUME DenoInv, NEW c \in Clients, GetActor(c)
  PROVE  DenoInv'
<1> USE DEF DenoInv
<1> DEFINE id == Id(target[c])
<1>1. id \in Ids
  BY IdType DEF ClientTypes
<1>2. Has(id) <=> Entry(id)
  BY <1>1 DEF DenoMap, Has, NoEntry, Entry
<1>3. PICK l \in {"call", "threw"} :
        /\ Goto(c, l) /\ pc[c] \in {"get", "blind"}
        /\ IF l = "call"
           THEN Entry(id) /\ stub' = [stub EXCEPT ![c] = ACTOR_STORAGE[id].actor]
           ELSE UNCHANGED stub
        /\ UNCHANGED <<ACTOR_STORAGE, instances, target, local, runs>>
  BY <1>2 DEF GetActor
<1>4. pc' = [pc EXCEPT ![c] = l] /\ l \in Places
  BY <1>3 DEF Goto, Places, Running
<1>5. ClientTypes'
  BY <1>3, <1>4 DEF ClientTypes
<1>6. DenoMap'
  BY <1>3 DEF DenoMap, Entry
<1>7. DenoHandles'
  <2>1. /\ Entry(id) => /\ ACTOR_STORAGE[id].actor \in DOMAIN instances
                        /\ instances[ACTOR_STORAGE[id].actor].id = id
                        /\ ACTOR_STORAGE[id].actor # 0
    BY <1>1 DEF DenoMap, Entry
  <2>2. CASE l = "call"
    BY <1>3, <1>4, <2>1, <2>2 DEF DenoHandles, ClientTypes, Entry
  <2>3. CASE l = "threw"
    BY <1>3, <1>4, <2>3 DEF DenoHandles, ClientTypes, Entry
  <2> QED
    BY <2>2, <2>3
<1>8. DenoCounts'
  <2>1. pc[c] \in Running
    BY <1>3 DEF Running
  <2>2. IsFiniteSet(At(pc', Running)) /\ Left(Running) \in Int /\
        (Left(Running)' = Left(Running) \/ Left(Running)' = Left(Running) + 1)
    BY <1>3, <1>4, <2>1, LeftMoves DEF DenoCounts
  <2> QED
    BY <1>3, <2>2 DEF DenoCounts, ClientTypes, DenoMap
<1> QED
  BY <1>5, <1>6, <1>7, <1>8

\* The method reads the storage of the handle's object.
LEMMA PongGetDeno ==
  ASSUME DenoInv, NEW c \in Clients, AddPongGet(c)
  PROVE  DenoInv'
<1> USE DEF DenoInv
<1> DEFINE id == instances[stub[c]].id
<1>1. /\ pc[c] = "call" /\ Goto(c, "put")
      /\ local' = [local EXCEPT ![c] = ACTOR_STORAGE[id].pongs]
      /\ UNCHANGED <<ACTOR_STORAGE, instances, target, stub, runs>>
  BY DEF AddPongGet
<1>2. id \in Ids
  BY <1>1 DEF DenoHandles, DenoMap
<1>3. pc' = [pc EXCEPT ![c] = "put"] /\ "put" \in Places
  BY <1>1 DEF Goto, Places, Running
<1>4. ClientTypes'
  BY <1>1, <1>2, <1>3 DEF ClientTypes, DenoMap
<1>5. DenoMap'
  BY <1>1 DEF DenoMap, Entry
<1>6. DenoHandles'
  BY <1>1, <1>3 DEF DenoHandles, ClientTypes, Entry
<1>7. DenoCounts'
  <2>1. pc[c] \in Running /\ "put" \in Running
    BY <1>1 DEF Running
  <2>2. IsFiniteSet(At(pc', Running)) /\ Left(Running)' = Left(Running)
    BY <1>1, <1>3, <2>1, LeftMoves DEF DenoCounts
  <2> QED
    BY <1>1, <1>2, <2>2 DEF DenoCounts, ClientTypes
<1> QED
  BY <1>4, <1>5, <1>6, <1>7

\* Its put, and its end, make the count and what is left grow by one.
LEMMA PongPutDeno ==
  ASSUME DenoInv, NEW c \in Clients, AddPongPut(c)
  PROVE  DenoInv'
<1> USE DEF DenoInv
<1> DEFINE id == instances[stub[c]].id
<1>1. /\ pc[c] = "put" /\ Goto(c, "done")
      /\ ACTOR_STORAGE' = [ACTOR_STORAGE EXCEPT ![id].pongs = local[c] + 1]
      /\ UNCHANGED <<instances, target, stub, local, runs>>
  BY DEF AddPongPut
<1>2. id \in Ids /\ Entry(id)
  BY <1>1 DEF DenoHandles, DenoMap
<1>3. pc' = [pc EXCEPT ![c] = "done"] /\ "done" \in Places
  BY <1>1 DEF Goto, Places, Running
<1>4. ClientTypes'
  BY <1>1, <1>3 DEF ClientTypes
<1>5. /\ ACTOR_STORAGE' \in [Ids -> [actor : Nat, pongs : Nat]]
      /\ \A i \in Ids : ACTOR_STORAGE'[i].actor = ACTOR_STORAGE[i].actor
      /\ \A i \in Ids \ {id} : ACTOR_STORAGE'[i] = ACTOR_STORAGE[i]
      /\ ACTOR_STORAGE'[id].pongs = local[c] + 1
  <2>1. /\ ACTOR_STORAGE \in [Ids -> [actor : Nat, pongs : Nat]]
        /\ local[c] + 1 \in Nat
    BY DEF DenoMap, ClientTypes
  <2> HIDE DEF id
  <2>2. /\ ACTOR_STORAGE'[id] = [actor |-> ACTOR_STORAGE[id].actor, pongs |-> local[c] + 1]
        /\ \A i \in Ids \ {id} : ACTOR_STORAGE'[i] = ACTOR_STORAGE[i]
        /\ DOMAIN ACTOR_STORAGE' = Ids
    BY <1>1, <1>2, <2>1
  <2>3. ACTOR_STORAGE' \in [Ids -> [actor : Nat, pongs : Nat]]
    BY <1>1, <1>2, <2>1
  <2> QED
    BY <1>2, <2>1, <2>2, <2>3
<1> HIDE DEF id
<1>6. \A i \in Ids : Entry(i)' <=> Entry(i)
  BY <1>5 DEF Entry
<1>7. DenoMap'
  <2>1. ASSUME NEW i \in Ids
        PROVE  IF Entry(i)'
               THEN /\ ACTOR_STORAGE'[i].actor \in DOMAIN instances'
                    /\ instances'[ACTOR_STORAGE'[i].actor].id = i
               ELSE ACTOR_STORAGE'[i].pongs = 0
    <3>1. CASE Entry(i)
      BY <1>1, <1>5, <1>6, <3>1 DEF DenoMap
    <3>2. CASE ~Entry(i)
      BY <1>2, <1>5, <1>6, <3>2 DEF DenoMap
    <3> QED
      BY <3>1, <3>2
  <2>2. \A n \in DOMAIN instances : /\ ACTOR_STORAGE'[instances[n].id].actor # 0
                                    /\ instances[n].id \in Ids
    BY <1>5 DEF DenoMap, Entry
  <2> QED
    BY <1>1, <1>5, <2>1, <2>2 DEF DenoMap, Entry
<1>8. DenoHandles'
  <2>1. \A d \in Clients : Id(target[d]) \in Ids
    BY IdType DEF ClientTypes
  <2>2. \A d \in Clients : Entry(Id(target[d])) => ACTOR_STORAGE'[Id(target[d])].actor # 0
    BY <1>5, <2>1 DEF Entry
  <2> QED
    BY <1>1, <1>3, <2>2 DEF DenoHandles, ClientTypes, Entry
<1>9. DenoCounts'
  <2>1. pc[c] \in Running /\ "done" \notin Running
    BY <1>1 DEF Running
  <2>2. IsFiniteSet(At(pc', Running)) /\ Left(Running) \in Int
        /\ Left(Running)' = Left(Running) + 1
    BY <1>1, <1>3, <2>1, LeftMoves DEF DenoCounts
  <2>3. \A i \in Ids : ACTOR_STORAGE[i].pongs \in Nat
    BY DEF DenoMap
  <2> QED
    BY <1>1, <1>5, <2>2, <2>3 DEF DenoCounts, ClientTypes
<1> QED
  BY <1>4, <1>7, <1>8, <1>9

\* A handle that is called again is a run again.
LEMMA CallAgainDeno ==
  ASSUME DenoInv, NEW c \in Clients, CallAgain(c)
  PROVE  DenoInv'
<1> USE DEF DenoInv
<1>1. /\ pc[c] = "done" /\ stub[c] # 0 /\ runs < MaxRuns /\ runs' = runs + 1
      /\ Goto(c, "call")
      /\ UNCHANGED <<ACTOR_STORAGE, instances, target, stub, local>>
  BY DEF CallAgain
<1>2. pc' = [pc EXCEPT ![c] = "call"] /\ "call" \in Places
  BY <1>1 DEF Goto, Places, Running
<1>3. ClientTypes'
  BY <1>1, <1>2 DEF ClientTypes
<1>4. DenoMap'
  BY <1>1 DEF DenoMap, Entry
<1>5. DenoHandles'
  BY <1>1, <1>2 DEF DenoHandles, ClientTypes, Entry
<1>6. DenoCounts'
  <2>1. pc[c] \notin Running /\ "call" \in Running
    BY <1>1 DEF Running
  <2>2. IsFiniteSet(At(pc', Running)) /\ Left(Running)' = Left(Running)
    BY <1>1, <1>2, <2>1, LeftMoves DEF DenoCounts
  <2> QED
    BY <1>1, <2>2 DEF DenoCounts
<1> QED
  BY <1>3, <1>4, <1>5, <1>6

\* DenoInv is inductive for the Deno driver.
LEMMA DenoStep == DenoInv /\ DenoNext => DenoInv'
<1> SUFFICES ASSUME DenoInv, NEW c \in Clients,
                    \/ Begin(c) \/ ActorExists(c) \/ CreateActor(c) \/ GetActor(c)
                    \/ AddPongGet(c) \/ AddPongPut(c) \/ CallAgain(c)
             PROVE  DenoInv'
  BY DEF DenoNext
<1>1. CreateActor(c) => /\ pc[c] = "create"
                        /\ UNCHANGED <<target, stub, local, runs>>
                        /\ \/ Goto(c, "get")
                           \/ Goto(c, "threw") /\ UNCHANGED <<instances, ACTOR_STORAGE>>
  BY DEF CreateActor
<1> QED
  BY <1>1, BeginDeno, ExistsDeno, CreateDeno, BuildThrows, GetDeno, PongGetDeno, PongPutDeno, CallAgainDeno

\* What DenoInv says of the properties.
LEMMA DenoInvImplies == DenoInv => DenoTypeOK /\ SeenInDeno /\ HandleInDeno
<1> SUFFICES ASSUME DenoInv PROVE DenoTypeOK /\ SeenInDeno /\ HandleInDeno
  OBVIOUS
<1> USE DEF DenoInv
<1>1. /\ DOMAIN instances = 1..Len(instances) /\ Len(instances) \in Nat
      /\ Left(Running) \in Int /\ Left(Running) <= MaxRuns
  BY FS_CardinalityType DEF DenoMap, DenoCounts, Left, ClientTypes
<1>2. DenoTypeOK
  <2>1. \A id \in Ids : /\ ACTOR_STORAGE[id].actor \in 0..Len(instances)
                        /\ ACTOR_STORAGE[id].pongs \in 0..MaxRuns
    BY <1>1 DEF DenoMap, DenoCounts, Entry
  <2>2. \A n \in DOMAIN instances : instances[n].class \in Classes /\ instances[n].id \in Ids
    BY DEF DenoMap
  <2>3. /\ pc \in [Clients -> {"idle", "exists", "blind", "create", "get", "call",
                               "put", "done", "threw"}]
        /\ target \in [Clients -> Targets]
        /\ stub \in [Clients -> 0..Len(instances)]
        /\ \A c \in Clients : pc[c] \in {"call", "put", "done"} => stub[c] # 0
        /\ runs \in 0..MaxRuns
    BY <1>1 DEF DenoHandles, ClientTypes, Places, Running
  <2>4. local \in [Clients -> 0..MaxRuns]
    BY <1>1 DEF DenoCounts, ClientTypes
  <2> QED
    BY <2>1, <2>2, <2>3, <2>4 DEF DenoTypeOK
<1>3. SeenInDeno
  BY DEF SeenInDeno, DenoHandles, Entry, Has, NoEntry
<1>4. HandleInDeno
  <2> SUFFICES ASSUME NEW c \in Clients, stub[c] # 0
               PROVE  /\ Apart(target[c].class) => instances[stub[c]].class = target[c].class
                      /\ instances[stub[c]].id = Id(target[c])
    BY DEF HandleInDeno
  <2>1. stub[c] \in DOMAIN instances /\ instances[stub[c]].id = Id(target[c])
    BY DEF DenoHandles
  <2>2. PICK t \in Targets : instances[stub[c]] = [class |-> t.class, id |-> Id(t)]
    BY <2>1 DEF DenoMap
  <2>3. Apart(target[c].class) => t.class = target[c].class
    BY <2>1, <2>2, ClassesApart DEF ClientTypes
  <2> QED
    BY <2>1, <2>2, <2>3
<1> QED
  BY <1>2, <1>3, <1>4

-----------------------------------------------------------------------------
\* The Cloudflare driver.  A step keeps clients apart in an object if it goes inside
\* through the gate only.
LEMMA GateKeeps ==
  ASSUME ClientTypes, Exclusive, NEW c \in Clients, NEW l \in Places, Goto(c, l),
         UNCHANGED target,
         \/ Gate(c)
         \/ Inside(c)
         \/ l \notin {"build", "method", "put", "back"}
  PROVE  Exclusive'
<1>1. /\ pc \in [Clients -> Places] /\ pc' = [pc EXCEPT ![c] = l]
      /\ \A d \in Clients : d # c => (Inside(d)' <=> Inside(d))
      /\ Inside(c)' <=> l \in {"build", "method", "put", "back"}
  BY DEF ClientTypes, Goto, Inside
<1> SUFFICES ASSUME NEW d \in Clients, NEW e \in Clients, Inside(d)', Inside(e)',
                    Id(target[d]) = Id(target[e]), d # e
             PROVE  FALSE
  BY DEF Exclusive
<1>2. CASE d # c /\ e # c
  BY <1>1, <1>2 DEF Exclusive
<1>3. CASE d = c \/ e = c
  BY <1>1, <1>3 DEF Exclusive, Gate
<1> QED
  BY <1>2, <1>3

\* What a put to the storage of a client's object changes.
LEMMA Stored ==
  ASSUME ClientTypes, CfTypes, NEW c \in Clients, NEW r \in DurableObject, Store(c, r),
         UNCHANGED target
  PROVE  /\ objects' \in [Ids -> DurableObject]
         /\ objects'[Id(target[c])] = r
         /\ \A id \in Ids : id # Id(target[c]) => objects'[id] = objects[id]
         /\ \A d \in Clients : /\ Id(target[d]) \in Ids
                               /\ Object(d)' = objects'[Id(target[d])]
<1>1. \A d \in Clients : target[d] \in Targets /\ Id(target[d]) \in Ids
  BY IdType DEF ClientTypes
<1> QED
  BY <1>1 DEF Store, CfTypes, Object

\* A script that begins.
LEMMA BeginCf ==
  ASSUME CfInv, NEW c \in Clients, Begin(c), UNCHANGED <<objects, held, failed>>
  PROVE  CfInv'
<1> USE DEF CfInv
<1>1. PICK t \in Targets, l \in {"exists", "blind"} :
        target' = [target EXCEPT ![c] = t] /\ Goto(c, l)
  BY DEF Begin, Goto
<1>2. /\ runs' = runs + 1 /\ runs < MaxRuns /\ UNCHANGED local
      /\ pc[c] \in {"idle", "done", "threw"}
  BY DEF Begin
<1>3. pc' = [pc EXCEPT ![c] = l] /\ l \in Places
  BY <1>1 DEF Goto, Places, Running
<1>4. ClientTypes'
  BY <1>1, <1>2, <1>3 DEF ClientTypes
<1>5. CfTypes'
  BY DEF CfTypes
<1>6. CfCounts'
  <2>1. pc[c] \notin Running /\ l \in Running /\ pc[c] \notin Unput /\ l \in Unput
    BY <1>1, <1>2 DEF Running, Unput
  <2>2. /\ IsFiniteSet(At(pc', Running)) /\ Left(Running)' = Left(Running)
        /\ IsFiniteSet(At(pc', Unput)) /\ Left(Unput)' = Left(Unput)
    BY <1>1, <1>2, <1>3, <2>1, LeftMoves DEF CfCounts
  <2> QED
    BY <1>2, <2>2 DEF CfCounts
<1>7. \A d \in Clients : d # c => pc'[d] = pc[d] /\ target'[d] = target[d]
  BY <1>1, <1>3 DEF ClientTypes
<1>8. pc'[c] = l
  BY <1>3 DEF ClientTypes
<1>9. Exclusive'
  BY <1>1, <1>7, <1>8 DEF Exclusive, Inside
<1>10. CfMade'
  <2>1. \A d \in Clients : pc'[d] \notin {"exists", "blind"} => d # c /\ Object(d)' = Object(d)
    BY <1>1, <1>7, <1>8 DEF Object
  <2>2. \A id \in Ids : (\E d \in Clients : pc[d] = "build" /\ Id(target[d]) = id) =>
                          \E d \in Clients : pc'[d] = "build" /\ Id(target'[d]) = id
    BY <1>2, <1>7
  <2> QED
    BY <1>7, <2>1, <2>2 DEF CfMade
<1>11. CfKept'
  <2>1. \A d \in Clients : pc'[d] \notin {"exists", "blind"} => d # c /\ Object(d)' = Object(d)
    BY <1>1, <1>7, <1>8 DEF Object
  <2> QED
    BY <1>2, <1>7, <2>1 DEF CfKept
<1> QED
  BY <1>4, <1>5, <1>6, <1>9, <1>10, <1>11

\* A step that leaves the objects as they are, and what the client has read, unless
\* it goes on with the method.
LEMMA MoveCf ==
  ASSUME CfInv, NEW c \in Clients, NEW l \in Places, Goto(c, l),
         UNCHANGED <<target, objects, held, local, failed>>,
         \/ runs' = runs /\ pc[c] \in Unput /\ l \in Unput
         \/ runs' = runs /\ pc[c] = "outside" /\ l = "back" /\ Gate(c)
         \/ runs' = runs + 1 /\ runs < MaxRuns /\ pc[c] = "done" /\ l = "call",
         pc[c] \notin {"build", "method", "put", "back"},
         l \notin {"build", "method", "put", "outside"},
         l = "get" => Object(c).state # 0 \/ Id(target[c]) \in failed
  PROVE  CfInv'
<1> USE DEF CfInv
<1>1. pc' = [pc EXCEPT ![c] = l]
  BY DEF Goto
<1>2. ClientTypes'
  BY <1>1 DEF ClientTypes
<1>3. CfTypes'
  BY DEF CfTypes
<1>4. CfCounts'
  <2>1. /\ \/ runs' = runs /\ pc[c] \in Running /\ l \in Running
           \/ runs' = runs + 1 /\ pc[c] \notin Running /\ l \in Running
        /\ \/ runs' = runs /\ pc[c] \in Unput /\ l \in Unput
           \/ runs' = runs /\ pc[c] \notin Unput /\ l \notin Unput
           \/ runs' = runs + 1 /\ pc[c] \notin Unput /\ l \in Unput
    BY DEF Running, Unput
  <2>2. /\ IsFiniteSet(At(pc', Running)) /\ Left(Running)' = Left(Running)
        /\ IsFiniteSet(At(pc', Unput)) /\ Left(Unput)' = Left(Unput)
    BY <2>1, LeftMoves DEF CfCounts
  <2> QED
    BY <2>2 DEF CfCounts
<1>5. Exclusive'
  <2>1. Gate(c) \/ l # "back"
    BY DEF Unput, Running
  <2> QED
    BY <2>1, GateKeeps
<1>6. \A d \in Clients : Object(d)' = Object(d) /\ (d # c => pc'[d] = pc[d])
  BY <1>1 DEF Object, ClientTypes
<1>7. pc'[c] = l
  BY <1>1 DEF ClientTypes
<1>8. CfMade'
  <2>1. \A id \in Ids : (\E d \in Clients : pc[d] = "build" /\ Id(target[d]) = id) =>
                          \E d \in Clients : pc'[d] = "build" /\ Id(target'[d]) = id
    BY <1>6
  <2>2. l = "back" => pc[c] = "outside"
    BY DEF Unput, Running
  <2> QED
    BY <1>6, <1>7, <2>1, <2>2 DEF CfMade
<1>9. CfKept'
  <2>1. l = "back" => pc[c] = "outside"
    BY DEF Unput, Running
  <2> QED
    BY <1>6, <1>7, <2>1 DEF CfKept
<1> QED
  BY <1>2, <1>3, <1>4, <1>5, <1>8, <1>9

\* Asking for the actor, taking the handle, going on from an outside await and
\* calling again change only where the client is.
LEMMA QuietCf ==
  ASSUME CfInv, NEW c \in Clients,
         CfExists(c) \/ CfGet(c) \/ CfOutside(c) \/ CfCallAgain(c)
  PROVE  CfInv'
<1>1. pc[c] \in Places /\ Id(target[c]) \in Ids
  BY IdType DEF CfInv, ClientTypes
<1>2. CASE CfExists(c)
  <2> DEFINE l == IF Object(c).path # "none" THEN "get" ELSE "create"
  <2>1. /\ pc[c] = "exists" /\ Goto(c, l) /\ Gate(c)
        /\ UNCHANGED <<objects, held, local, failed, target, runs>>
    BY <1>2 DEF CfExists, Rest
  <2>2. l = "get" => Object(c).state # 0 \/ Id(target[c]) \in failed
    <3> SUFFICES ASSUME Object(c).path # "none", Object(c).state = 0,
                        Id(target[c]) \notin failed
                 PROVE  FALSE
      OBVIOUS
    <3>1. PICK d \in Clients : pc[d] = "build" /\ Id(target[d]) = Id(target[c])
      BY <1>1 DEF CfInv, CfMade, Object
    <3> QED
      BY <2>1, <3>1 DEF Gate, Inside
  <2>3. l \in {"get", "create"}
    OBVIOUS
  <2> HIDE DEF l
  <2>4. l \in Places /\ l \in Unput /\ pc[c] \in Unput
    BY <2>1, <2>3 DEF Places, Running, Unput
  <2> QED
    BY <2>1, <2>2, <2>3, <2>4, MoveCf
<1>3. CASE CfGet(c)
  <2>1. /\ pc[c] \in {"get", "blind"} /\ Goto(c, "call")
        /\ UNCHANGED <<objects, held, local, failed, target, runs>>
    BY <1>3 DEF CfGet, Rest
  <2>2. "call" \in Places /\ "call" \in Unput /\ pc[c] \in Unput
    BY <2>1 DEF Places, Running, Unput
  <2> QED
    BY <2>1, <2>2, MoveCf
<1>4. CASE CfOutside(c)
  <2>1. /\ pc[c] = "outside" /\ Goto(c, "back") /\ Gate(c) /\ "back" \in Places
        /\ UNCHANGED <<objects, held, local, failed, target, runs>>
    BY <1>4 DEF CfOutside, Rest, Places, Running
  <2> QED
    BY <2>1, MoveCf
<1>5. CASE CfCallAgain(c)
  <2>1. /\ pc[c] = "done" /\ Goto(c, "call") /\ "call" \in Places
        /\ runs' = runs + 1 /\ runs < MaxRuns
        /\ UNCHANGED <<objects, held, local, failed, target>>
    BY <1>5 DEF CfCallAgain, Places, Running
  <2> QED
    BY <2>1, MoveCf
<1> QED
  BY <1>2, <1>3, <1>4, <1>5

\* A call that comes in takes the state the object has.
LEMMA CallCf ==
  ASSUME CfInv, NEW c \in Clients, CfCall(c)
  PROVE  CfInv'
<1> USE DEF CfInv
<1> DEFINE id == Id(target[c])
<1>1. PICK l \in {"threw", "method"} :
        /\ Goto(c, l) /\ pc[c] = "call" /\ Gate(c)
        /\ l = "method" => Object(c).state # 0
        /\ held' = [held EXCEPT ![c] = Object(c).state]
        /\ UNCHANGED <<objects, local, failed, target, runs>>
  BY DEF CfCall, Rest
<1>2. pc' = [pc EXCEPT ![c] = l] /\ l \in Places
  BY <1>1 DEF Goto, Places, Running
<1>3. ClientTypes'
  BY <1>1, <1>2 DEF ClientTypes
<1>4. id \in Ids /\ Object(c) \in DurableObject /\ Object(c) = objects[id]
  BY IdType DEF ClientTypes, CfTypes, Object
<1>5. CfTypes'
  BY <1>1, <1>4 DEF CfTypes, DurableObject
<1>6. CfCounts'
  <2>1. /\ pc[c] \in Running /\ pc[c] \in Unput
        /\ l = "method" => l \in Running /\ l \in Unput
        /\ l = "threw" => l \notin Running /\ l \notin Unput
    BY <1>1 DEF Running, Unput
  <2>2. /\ IsFiniteSet(At(pc', Running)) /\ Left(Running) \in Int
        /\ Left(Running)' \in {Left(Running), Left(Running) + 1}
        /\ IsFiniteSet(At(pc', Unput)) /\ Left(Unput) \in Int
        /\ Left(Unput)' \in {Left(Unput), Left(Unput) + 1}
    BY <1>1, <1>2, <2>1, LeftMoves DEF CfCounts
  <2>3. \A i \in Ids : objects[i] \in [path : Classes \cup {"none"}, state : Nat,
                          pongs : Nat, ended : Nat, put : Nat, outside : BOOLEAN]
    BY DEF CfTypes, DurableObject
  <2>4. /\ 0 <= Left(Unput)' /\ 0 <= Left(Running)'
        /\ \A i \in Ids : /\ objects[i].pongs <= Left(Unput)'
                          /\ objects[i].put <= Left(Unput)'
                          /\ objects[i].state <= 1 + Left(Running)'
                          /\ objects[i].ended <= Left(Running)'
    BY <2>2, <2>3 DEF CfCounts
  <2>5. \A d \in Clients : local'[d] <= Left(Unput)' /\ held'[d] <= 1 + Left(Running)'
    <3>1. \A d \in Clients : local[d] \in Nat /\ held[d] \in Nat
      BY DEF ClientTypes, CfTypes
    <3>2. \A d \in Clients : held'[d] = held[d] \/ held'[d] = Object(c).state
      BY <1>1 DEF CfTypes
    <3>3. Object(c).state <= 1 + Left(Running)'
      BY <1>4, <2>4
    <3> QED
      BY <1>1, <2>2, <3>1, <3>2, <3>3 DEF CfCounts
  <2> QED
    BY <1>1, <2>2, <2>4, <2>5 DEF CfCounts
<1>7. Exclusive'
  BY <1>1, <1>2, GateKeeps
<1>8. \A d \in Clients : /\ Object(d)' = Object(d)
                         /\ d # c => pc'[d] = pc[d] /\ held'[d] = held[d]
  BY <1>1, <1>2 DEF Object, ClientTypes, CfTypes
<1>9. pc'[c] = l /\ held'[c] = Object(c).state
  BY <1>1, <1>2 DEF ClientTypes, CfTypes
<1>10. CfMade'
  <2>1. \A i \in Ids : (\E d \in Clients : pc[d] = "build" /\ Id(target[d]) = i) =>
                         \E d \in Clients : pc'[d] = "build" /\ Id(target'[d]) = i
    BY <1>1, <1>8
  <2>2. Object(c).state # 0 => OfName(Id(target[c]), Object(c).path)
    BY IdType DEF CfMade, ClientTypes, Object
  <2> QED
    BY <1>1, <1>8, <1>9, <2>1, <2>2 DEF CfMade
<1>11. CfKept'
  BY <1>1, <1>8, <1>9 DEF CfKept
<1> QED
  BY <1>3, <1>5, <1>6, <1>7, <1>10, <1>11

\* A put keeps the counts, if those it puts are within what is left after it.
LEMMA StoredCounts ==
  ASSUME CfInv, NEW c \in Clients, NEW l \in Places, Goto(c, l),
         NEW r \in DurableObject, Store(c, r), UNCHANGED <<target, held, local, runs>>,
         pc[c] \in Running, pc[c] \notin Unput => l \notin Unput,
         r.pongs <= Left(Unput)', r.put <= Left(Unput)',
         r.state <= 1 + Left(Running)', r.ended <= Left(Running)'
  PROVE  CfCounts'
<1> USE DEF CfInv
<1>1. /\ IsFiniteSet(At(pc', Running)) /\ Left(Running) \in Int
      /\ Left(Running)' \in {Left(Running), Left(Running) + 1}
      /\ IsFiniteSet(At(pc', Unput)) /\ Left(Unput) \in Int
      /\ Left(Unput)' \in {Left(Unput), Left(Unput) + 1}
  BY LeftMoves DEF CfCounts
<1>2. /\ objects'[Id(target[c])] = r
      /\ \A id \in Ids : id # Id(target[c]) => objects'[id] = objects[id]
  BY Stored
<1>3. ASSUME NEW id \in Ids
      PROVE  /\ objects'[id].pongs <= Left(Unput)'
             /\ objects'[id].put <= Left(Unput)'
             /\ objects'[id].state <= 1 + Left(Running)'
             /\ objects'[id].ended <= Left(Running)'
  <2>1. CASE id = Id(target[c])
    BY <1>2, <2>1
  <2>2. CASE id # Id(target[c])
    <3>1. objects'[id] = objects[id] /\ objects[id] \in DurableObject
      BY <1>2, <2>2 DEF CfTypes
    <3> QED
      BY <1>1, <3>1 DEF CfCounts, DurableObject
  <2> QED
    BY <2>1, <2>2
<1>4. \A d \in Clients : local[d] \in Nat /\ held[d] \in Nat
  BY DEF ClientTypes, CfTypes
<1> QED
  BY <1>1, <1>3, <1>4 DEF CfCounts

\* A new object is of the class of everyone whose target it is.
LEMMA CreateCf ==
  ASSUME CfInv, NEW c \in Clients, CfCreate(c)
  PROVE  CfInv'
<1> USE DEF CfInv
<1> DEFINE id == Id(target[c])
           o == objects[id]
           r == [o EXCEPT !.path = target[c].class]
<1>1. /\ pc[c] = "create" /\ Gate(c) /\ Goto(c, "build") /\ Store(c, r)
      /\ UNCHANGED <<held, local, failed, target, runs>>
  BY DEF CfCreate, Rest, Object
<1>2. id \in Ids /\ o \in DurableObject /\ target[c] \in Targets
  BY IdType DEF ClientTypes, CfTypes
<1>3. /\ r \in DurableObject /\ r.path = target[c].class /\ r.state = o.state
      /\ r.pongs = o.pongs /\ r.put = o.put /\ r.ended = o.ended
      /\ r.outside = o.outside
  BY <1>2 DEF DurableObject, Targets
<1> HIDE DEF r
<1>4. pc' = [pc EXCEPT ![c] = "build"] /\ "build" \in Places
  BY <1>1 DEF Goto, Places, Running
<1>5. /\ objects' \in [Ids -> DurableObject] /\ objects'[id] = r
      /\ \A i \in Ids : i # id => objects'[i] = objects[i]
      /\ \A d \in Clients : /\ Id(target[d]) \in Ids
                            /\ Object(d)' = objects'[Id(target[d])]
  BY <1>1, <1>3, Stored
<1>6. ClientTypes' /\ CfTypes'
  BY <1>1, <1>4, <1>5 DEF ClientTypes, CfTypes
<1>7. CfCounts'
  <2>1. pc[c] \in Running /\ pc[c] \in Unput /\ "build" \in Running /\ "build" \in Unput
    BY <1>1 DEF Running, Unput
  <2>2. Left(Running)' = Left(Running) /\ Left(Unput)' = Left(Unput)
    BY <1>1, <1>4, <2>1, LeftMoves DEF CfCounts
  <2>3. /\ r.pongs <= Left(Unput)' /\ r.put <= Left(Unput)'
        /\ r.state <= 1 + Left(Running)' /\ r.ended <= Left(Running)'
    BY <1>2, <1>3, <2>2 DEF CfCounts
  <2> QED
    BY <1>1, <1>3, <1>4, <2>1, <2>3, StoredCounts
<1>8. Exclusive'
  BY <1>1, <1>4, GateKeeps
<1> HIDE DEF id
<1>9. pc'[c] = "build" /\ \A d \in Clients : d # c => pc'[d] = pc[d]
  BY <1>4 DEF ClientTypes
<1>10. CfMade'
  <2>5. OfName(id, target[c].class)
    BY <1>2 DEF OfName, id
  <2>1. ASSUME NEW i \in Ids, objects'[i].state # 0
        PROVE  OfName(i, objects'[i].path)
    <3>1. CASE i = id
      BY <1>3, <1>5, <2>5, <3>1
    <3>2. CASE i # id
      BY <1>5, <2>1, <3>2 DEF CfMade
    <3> QED
      BY <3>1, <3>2
  <2>2. ASSUME NEW d \in Clients,
               pc'[d] \in {"build", "method", "put", "outside", "back"}
        PROVE  OfName(Id(target[d]), Object(d)'.path)
    <3>1. CASE Id(target[d]) = id
      BY <1>3, <1>5, <2>5, <3>1
    <3>2. CASE Id(target[d]) # id
      BY <1>5, <1>9, <2>2, <3>2 DEF CfMade, Object, id
    <3> QED
      BY <3>1, <3>2
  <2>3. ASSUME NEW i \in Ids, objects'[i].path # "none", objects'[i].state = 0, i \notin failed
        PROVE  \E d \in Clients : pc'[d] = "build" /\ Id(target[d]) = i
    <3>1. CASE i = id
      BY <1>9, <3>1 DEF id
    <3>2. CASE i # id
      <4>1. PICK d \in Clients : pc[d] = "build" /\ Id(target[d]) = i
        BY <1>5, <2>3, <3>2 DEF CfMade
      <4> QED
        BY <1>9, <4>1
    <3> QED
      BY <3>1, <3>2
  <2>4. ASSUME NEW d \in Clients, pc'[d] = "get"
        PROVE  Id(target[d]) \in failed \/ Object(d)'.state # 0
    <3>1. pc[d] = "get"
      BY <1>9, <2>4
    <3>2. Object(d)'.state = Object(d).state
      BY <1>3, <1>5 DEF Object
    <3> QED
      BY <3>1, <3>2 DEF CfMade
  <2> QED
    BY <1>1, <2>1, <2>2, <2>3, <2>4 DEF CfMade
<1>11. CfKept'
  <2>1. \A i \in Ids : /\ objects'[i].pongs = objects[i].pongs
                       /\ objects'[i].put = objects[i].put
                       /\ objects'[i].state = objects[i].state
                       /\ objects'[i].ended = objects[i].ended
                       /\ objects'[i].outside = objects[i].outside
    BY <1>3, <1>5
  <2>2. \A d \in Clients : /\ Object(d)'.pongs = Object(d).pongs
                           /\ Object(d)'.state = Object(d).state
                           /\ Object(d)'.outside = Object(d).outside
    BY <1>5, <2>1 DEF Object
  <2> QED
    BY <1>1, <1>9, <2>1, <2>2 DEF CfKept
<1> QED
  BY <1>6, <1>7, <1>8, <1>10, <1>11

\* A put that leaves a state and the class as it was.
LEMMA StoredMade ==
  ASSUME CfInv, NEW c \in Clients, NEW l \in {"get", "outside", "back", "done"},
         Goto(c, l), NEW r \in DurableObject, Store(c, r), UNCHANGED target,
         pc[c] \in {"build", "put", "back"},
         r.path = Object(c).path, r.state # 0,
         failed' = failed \/ failed' = failed \ {Id(target[c])}
  PROVE  CfMade'
<1> USE DEF CfInv
<1> DEFINE id == Id(target[c])
<1>1. /\ target[c] \in Targets /\ id \in Ids
      /\ OfName(id, r.path)
  BY IdType DEF ClientTypes, CfMade
<1>2. /\ objects'[id] = r
      /\ \A i \in Ids : i # id => objects'[i] = objects[i]
      /\ \A d \in Clients : /\ Id(target[d]) \in Ids
                            /\ Object(d)' = objects'[Id(target[d])]
  BY Stored
<1> HIDE DEF id
<1>3. pc'[c] = l /\ \A d \in Clients : d # c => pc'[d] = pc[d]
  BY DEF Goto, ClientTypes
<1>4. ASSUME NEW i \in Ids, objects'[i].state # 0
      PROVE  OfName(i, objects'[i].path)
  <2>1. CASE i = id
    BY <1>1, <1>2, <2>1
  <2>2. CASE i # id
    BY <1>2, <1>4, <2>2 DEF CfMade
  <2> QED
    BY <2>1, <2>2
<1>5. ASSUME NEW d \in Clients,
             pc'[d] \in {"build", "method", "put", "outside", "back"}
      PROVE  OfName(Id(target[d]), Object(d)'.path)
  <2>1. CASE Id(target[d]) = id
    BY <1>1, <1>2, <2>1
  <2>2. CASE Id(target[d]) # id
    BY <1>2, <1>3, <1>5, <2>2 DEF CfMade, Object, id
  <2> QED
    BY <2>1, <2>2
<1>6. ASSUME NEW i \in Ids, objects'[i].path # "none", objects'[i].state = 0, i \notin failed'
      PROVE  \E d \in Clients : pc'[d] = "build" /\ Id(target[d]) = i
  <2>1. i # id /\ i \notin failed
    BY <1>2, <1>6 DEF id
  <2>2. PICK d \in Clients : pc[d] = "build" /\ Id(target[d]) = i
    BY <1>2, <1>6, <2>1 DEF CfMade
  <2> QED
    BY <1>3, <2>1, <2>2 DEF id
<1>7. ASSUME NEW d \in Clients, pc'[d] = "get"
      PROVE  Id(target[d]) \in failed' \/ Object(d)'.state # 0
  <2>1. CASE Id(target[d]) = id
    BY <1>2, <2>1
  <2>2. CASE Id(target[d]) # id
    BY <1>2, <1>3, <1>7, <2>2 DEF CfMade, Object, id
  <2> QED
    BY <2>1, <2>2
<1> QED
  BY <1>4, <1>5, <1>6, <1>7 DEF CfMade

\* The rest of __init, with the state built or not.
LEMMA BuildCf ==
  ASSUME CfInv, NEW c \in Clients, CfBuild(c)
  PROVE  CfInv'
<1> USE DEF CfInv
<1> DEFINE id == Id(target[c])
           o == objects[id]
           r == [o EXCEPT !.state = 1, !.ended = 0]
<1>1. /\ pc[c] = "build" /\ Inside(c)
      /\ UNCHANGED <<held, local, target, runs>>
      /\ \/ Store(c, r) /\ failed' = failed \ {id} /\ Goto(c, "get")
         \/ UNCHANGED objects /\ failed' = failed \cup {id} /\ Goto(c, "threw")
  BY DEF CfBuild, Rest, Object, Inside
<1>2. id \in Ids /\ o \in DurableObject /\ o = Object(c)
  BY IdType DEF ClientTypes, CfTypes, Object
<1>3. /\ r \in DurableObject /\ r.path = o.path /\ r.state = 1
      /\ r.pongs = o.pongs /\ r.put = o.put /\ r.ended = 0
      /\ r.outside = o.outside
  BY <1>2 DEF DurableObject
<1> HIDE DEF r
<1>4. pc[c] \in Running /\ pc[c] \in Unput
  BY <1>1 DEF Running, Unput
<1>5. \A i \in Ids : objects[i] \in [path : Classes \cup {"none"}, state : Nat,
                        pongs : Nat, ended : Nat, put : Nat, outside : BOOLEAN]
  BY DEF CfTypes, DurableObject
<1>6. CASE Store(c, r) /\ failed' = failed \ {id} /\ Goto(c, "get")
  <2>1. pc' = [pc EXCEPT ![c] = "get"] /\ "get" \in Places
    BY <1>6 DEF Goto, Places, Running
  <2>2. /\ objects' \in [Ids -> DurableObject] /\ objects'[id] = r
        /\ \A i \in Ids : i # id => objects'[i] = objects[i]
        /\ \A d \in Clients : /\ Id(target[d]) \in Ids
                              /\ Object(d)' = objects'[Id(target[d])]
    BY <1>1, <1>3, <1>6, Stored
  <2>3. ClientTypes' /\ CfTypes'
    BY <1>1, <1>6, <2>1, <2>2 DEF ClientTypes, CfTypes
  <2>4. CfCounts'
    <3>1. "get" \in Running /\ "get" \in Unput
      BY DEF Running, Unput
    <3>2. Left(Running)' = Left(Running) /\ Left(Unput)' = Left(Unput)
      BY <1>1, <1>4, <1>6, <2>1, <3>1, LeftMoves DEF CfCounts
    <3>3. /\ r.pongs <= Left(Unput)' /\ r.put <= Left(Unput)'
          /\ r.state <= 1 + Left(Running)' /\ r.ended <= Left(Running)'
      <4>1. Left(Running) \in Int
        BY <1>6, <2>1, LeftMoves DEF CfCounts
      <4> QED
        BY <1>2, <1>3, <3>2, <4>1 DEF CfCounts
    <3> QED
      BY <1>1, <1>3, <1>4, <1>6, <2>1, <3>3, StoredCounts
  <2>5. Exclusive'
    BY <1>1, <1>6, <2>1, GateKeeps
  <2>6. CfMade'
    BY <1>1, <1>2, <1>3, <1>6, StoredMade
  <2>7. CfKept'
    <3>1. pc'[c] = "get" /\ \A d \in Clients : d # c => pc'[d] = pc[d]
      BY <2>1 DEF ClientTypes
    <3>2. \A i \in Ids :
            /\ objects'[i].pongs = objects'[i].put
            /\ objects'[i].state # 0 /\ ~objects'[i].outside =>
                 objects'[i].state = 1 + objects'[i].ended
      BY <1>2, <1>3, <2>2 DEF CfKept
    <3>3. ASSUME NEW d \in Clients, pc'[d] \in {"method", "put", "outside", "back"}
          PROVE  /\ d # c /\ pc'[d] = pc[d]
                 /\ \/ Object(d)' = Object(d)
                    \/ pc[d] = "outside" /\ id = Id(target[d])
      <4>1. d # c /\ pc'[d] = pc[d]
        BY <3>1, <3>3
      <4>2. pc[d] # "outside" => Id(target[d]) # id
        BY <1>1, <3>3, <4>1 DEF Exclusive, Inside
      <4> QED
        BY <2>2, <4>1, <4>2 DEF Object
    <3>4. ASSUME NEW d \in Clients, pc[d] = "outside", id = Id(target[d])
          PROVE  Object(d)'.outside /\ Object(d)'.state # 0
      BY <1>2, <1>3, <2>2, <3>4 DEF CfKept, Object
    <3> QED
      BY <1>1, <3>1, <3>2, <3>3, <3>4 DEF CfKept
  <2> QED
    BY <2>3, <2>4, <2>5, <2>6, <2>7
<1>7. CASE UNCHANGED objects /\ failed' = failed \cup {id} /\ Goto(c, "threw")
  <2>1. pc' = [pc EXCEPT ![c] = "threw"] /\ "threw" \in Places
    BY <1>7 DEF Goto, Places, Running
  <2>2. ClientTypes' /\ CfTypes'
    BY <1>1, <1>2, <1>7, <2>1 DEF ClientTypes, CfTypes
  <2>3. CfCounts'
    <3>1. "threw" \notin Running /\ "threw" \notin Unput
      BY DEF Running, Unput
    <3>2. /\ IsFiniteSet(At(pc', Running)) /\ Left(Running) \in Int
          /\ Left(Running)' = Left(Running) + 1
          /\ IsFiniteSet(At(pc', Unput)) /\ Left(Unput) \in Int
          /\ Left(Unput)' = Left(Unput) + 1
      BY <1>1, <1>4, <1>7, <2>1, <3>1, LeftMoves DEF CfCounts
    <3>3. \A d \in Clients : local[d] \in Nat /\ held[d] \in Nat
      BY DEF ClientTypes, CfTypes
    <3> QED
      BY <1>1, <1>5, <1>7, <3>2, <3>3 DEF CfCounts
  <2>4. Exclusive'
    BY <1>1, <1>7, <2>1, GateKeeps
  <2>5. pc'[c] = "threw" /\ \A d \in Clients : /\ Object(d)' = Object(d)
                                               /\ d # c => pc'[d] = pc[d]
    BY <1>1, <1>7, <2>1 DEF ClientTypes, Object
  <2>6. CfMade'
    <3>1. ASSUME NEW i \in Ids, objects[i].path # "none", objects[i].state = 0, i \notin failed'
          PROVE  \E d \in Clients : pc'[d] = "build" /\ Id(target'[d]) = i
      <4>1. PICK d \in Clients : pc[d] = "build" /\ Id(target[d]) = i
        BY <1>7, <3>1 DEF CfMade
      <4> QED
        BY <1>1, <1>7, <2>5, <3>1, <4>1
    <3> QED
      BY <1>1, <1>7, <2>5, <3>1 DEF CfMade
  <2>7. CfKept'
    BY <1>1, <1>7, <2>5 DEF CfKept
  <2> QED
    BY <2>2, <2>3, <2>4, <2>6, <2>7
<1> QED
  BY <1>1, <1>6, <1>7

\* The method's get: what it has read stays so while it is inside.
LEMMA PongGetCf ==
  ASSUME CfInv, NEW c \in Clients, CfPongGet(c)
  PROVE  CfInv'
<1> USE DEF CfInv
<1>1. /\ pc[c] = "method" /\ Goto(c, "put") /\ Inside(c)
      /\ local' = [local EXCEPT ![c] = Object(c).pongs]
      /\ UNCHANGED <<objects, held, failed, target, runs>>
  BY DEF CfPongGet, Rest, Inside
<1>2. pc' = [pc EXCEPT ![c] = "put"] /\ "put" \in Places
  BY <1>1 DEF Goto, Places, Running
<1>3. /\ Object(c) = objects[Id(target[c])] /\ Id(target[c]) \in Ids
      /\ Object(c).pongs \in Nat
  BY IdType DEF ClientTypes, CfTypes, Object, DurableObject
<1>4. ClientTypes' /\ CfTypes'
  BY <1>1, <1>2, <1>3 DEF ClientTypes, CfTypes
<1>5. CfCounts'
  <2>1. pc[c] \in Running /\ pc[c] \in Unput /\ "put" \in Running /\ "put" \in Unput
    BY <1>1 DEF Running, Unput
  <2>2. /\ IsFiniteSet(At(pc', Running)) /\ Left(Running)' = Left(Running)
        /\ IsFiniteSet(At(pc', Unput)) /\ Left(Unput)' = Left(Unput)
    BY <1>1, <1>2, <2>1, LeftMoves DEF CfCounts
  <2>3. \A d \in Clients : local'[d] <= Left(Unput)
    BY <1>1, <1>3 DEF CfCounts, ClientTypes
  <2> QED
    BY <1>1, <2>2, <2>3 DEF CfCounts
<1>6. Exclusive'
  BY <1>1, <1>2, GateKeeps
<1>7. /\ pc'[c] = "put" /\ local'[c] = Object(c).pongs
      /\ \A d \in Clients : /\ Object(d)' = Object(d)
                            /\ d # c => pc'[d] = pc[d] /\ local'[d] = local[d]
  BY <1>1, <1>2 DEF ClientTypes, Object
<1>8. CfMade'
  <2>1. \A i \in Ids : (\E d \in Clients : pc[d] = "build" /\ Id(target[d]) = i) =>
                         \E d \in Clients : pc'[d] = "build" /\ Id(target'[d]) = i
    BY <1>1, <1>7
  <2> QED
    BY <1>1, <1>7, <2>1 DEF CfMade
<1>9. CfKept'
  BY <1>1, <1>7 DEF CfKept
<1> QED
  BY <1>4, <1>5, <1>6, <1>8, <1>9

\* The method's put: the count grows by the one that is put.
LEMMA PongPutCf ==
  ASSUME CfInv, NEW c \in Clients, CfPongPut(c)
  PROVE  CfInv'
<1> USE DEF CfInv
<1> DEFINE id == Id(target[c])
           o == objects[id]
<1>1. PICK out \in BOOLEAN :
        /\ Store(c, [Object(c) EXCEPT !.pongs = local[c] + 1, !.put = @ + 1,
                                      !.outside = @ \/ out])
        /\ Goto(c, IF out THEN "outside" ELSE "back")
  BY DEF CfPongPut
<1> DEFINE r == [o EXCEPT !.pongs = local[c] + 1, !.put = @ + 1,
                          !.outside = @ \/ out]
           l == IF out THEN "outside" ELSE "back"
<1>2. /\ pc[c] = "put" /\ Inside(c) /\ Store(c, r) /\ Goto(c, l)
      /\ UNCHANGED <<held, local, failed, target, runs>>
  BY <1>1 DEF CfPongPut, Rest, Object, Inside
<1>3. /\ id \in Ids /\ o \in DurableObject /\ o = Object(c)
      /\ local[c] = o.pongs /\ o.pongs = o.put /\ o.put \in Nat
  BY <1>2, IdType DEF ClientTypes, CfTypes, Object, CfKept, DurableObject
<1>4. /\ r \in DurableObject /\ r.path = o.path /\ r.state = o.state
      /\ r.pongs = o.pongs + 1 /\ r.put = o.put + 1 /\ r.ended = o.ended
      /\ o.outside => r.outside
      /\ out => r.outside
  <2>1. /\ local[c] + 1 \in Nat /\ o.put + 1 \in Nat /\ local[c] = o.pongs
        /\ (o.outside \/ out) \in BOOLEAN
    BY <1>3 DEF DurableObject
  <2> HIDE DEF o
  <2>2. /\ r \in DurableObject /\ r.path = o.path /\ r.state = o.state
        /\ r.pongs = o.pongs + 1 /\ r.put = o.put + 1 /\ r.ended = o.ended
        /\ r.outside = (o.outside \/ out)
    BY <1>3, <2>1 DEF DurableObject
  <2> HIDE DEF r
  <2> QED
    BY <2>2, Zenon
<1>5. l \in {"outside", "back"} /\ (l = "outside" => out)
  OBVIOUS
<1> HIDE DEF r, l
<1>6. pc' = [pc EXCEPT ![c] = l] /\ l \in Places
  BY <1>2, <1>5 DEF Goto, Places, Running
<1>7. /\ objects' \in [Ids -> DurableObject] /\ objects'[id] = r
      /\ \A i \in Ids : i # id => objects'[i] = objects[i]
      /\ \A d \in Clients : /\ Id(target[d]) \in Ids
                            /\ Object(d)' = objects'[Id(target[d])]
  BY <1>2, <1>4, Stored
<1>8. ClientTypes' /\ CfTypes'
  BY <1>2, <1>6, <1>7 DEF ClientTypes, CfTypes
<1>9. CfCounts'
  <2>1. pc[c] \in Running /\ pc[c] \in Unput /\ l \in Running /\ l \notin Unput
    BY <1>2, <1>5 DEF Running, Unput
  <2>2. /\ Left(Running)' = Left(Running) /\ Left(Unput) \in Int
        /\ Left(Unput)' = Left(Unput) + 1
    BY <1>2, <1>6, <2>1, LeftMoves DEF CfCounts
  <2>3. /\ r.pongs <= Left(Unput)' /\ r.put <= Left(Unput)'
        /\ r.state <= 1 + Left(Running)' /\ r.ended <= Left(Running)'
    BY <1>3, <1>4, <2>2 DEF CfCounts
  <2> QED
    BY <1>2, <1>4, <1>6, <2>1, <2>3, StoredCounts
<1>10. Exclusive'
  BY <1>2, <1>6, GateKeeps
<1>11. o.state # 0
  BY <1>2, <1>3 DEF CfKept
<1>12. CfMade'
  BY <1>2, <1>3, <1>4, <1>5, <1>11, StoredMade
<1>13. CfKept'
  <2>1. pc'[c] = l /\ \A d \in Clients : d # c => pc'[d] = pc[d]
    BY <1>6 DEF ClientTypes
  <2>2. \A i \in Ids :
          /\ objects'[i].pongs = objects'[i].put
          /\ objects'[i].state # 0 /\ ~objects'[i].outside =>
               objects'[i].state = 1 + objects'[i].ended
    BY <1>3, <1>4, <1>7 DEF CfKept
  <2>3. /\ held[c] # 0 /\ Object(c)'.state # 0
        /\ ~Object(c)'.outside => held[c] = Object(c)'.state
        /\ l = "outside" => Object(c)'.outside
    BY <1>2, <1>3, <1>4, <1>5, <1>7 DEF CfKept
  <2>4. ASSUME NEW d \in Clients, d # c, pc[d] \in {"method", "put", "outside", "back"}
        PROVE  \/ Object(d)' = Object(d)
               \/ /\ pc[d] = "outside"
                  /\ Object(d)'.outside /\ Object(d)'.state # 0
    <3>1. CASE Id(target[d]) = id
      <4>1. pc[d] = "outside"
        BY <1>2, <2>4, <3>1 DEF Exclusive, Inside
      <4> QED
        BY <1>4, <1>7, <1>11, <3>1, <4>1 DEF CfKept, Object
    <3>2. CASE Id(target[d]) # id
      BY <1>7, <3>2 DEF Object
    <3> QED
      BY <3>1, <3>2
  <2> QED
    BY <1>2, <1>5, <2>1, <2>2, <2>3, <2>4 DEF CfKept
<1> QED
  BY <1>8, <1>9, <1>10, <1>12, <1>13

\* The rest of __call: the state has one more method, and that is over.
LEMMA PutStateCf ==
  ASSUME CfInv, NEW c \in Clients, CfPutState(c)
  PROVE  CfInv'
<1> USE DEF CfInv
<1> DEFINE id == Id(target[c])
           o == objects[id]
           r == [o EXCEPT !.state = held[c] + 1, !.ended = @ + 1]
<1>1. /\ pc[c] = "back" /\ Inside(c) /\ Store(c, r) /\ Goto(c, "done")
      /\ UNCHANGED <<held, local, failed, target, runs>>
  BY DEF CfPutState, Rest, Object, Inside
<1>2. /\ id \in Ids /\ o \in DurableObject /\ o = Object(c)
      /\ o.state # 0 /\ held[c] # 0 /\ held[c] \in Nat /\ o.ended \in Nat
      /\ ~o.outside => held[c] = o.state
  BY <1>1, IdType DEF ClientTypes, CfTypes, Object, CfKept, DurableObject
<1>3. /\ r \in DurableObject /\ r.path = o.path /\ r.state = held[c] + 1
      /\ r.pongs = o.pongs /\ r.put = o.put /\ r.ended = o.ended + 1
      /\ r.outside = o.outside
  <2>1. held[c] + 1 \in Nat /\ o.ended + 1 \in Nat
    BY <1>2
  <2> HIDE DEF o
  <2> QED
    BY <1>2, <2>1 DEF DurableObject
<1> HIDE DEF r
<1>4. pc' = [pc EXCEPT ![c] = "done"] /\ "done" \in Places
  BY <1>1 DEF Goto, Places, Running
<1>5. /\ objects' \in [Ids -> DurableObject] /\ objects'[id] = r
      /\ \A i \in Ids : i # id => objects'[i] = objects[i]
      /\ \A d \in Clients : /\ Id(target[d]) \in Ids
                            /\ Object(d)' = objects'[Id(target[d])]
  BY <1>1, <1>3, Stored
<1>6. ClientTypes' /\ CfTypes'
  BY <1>1, <1>4, <1>5 DEF ClientTypes, CfTypes
<1>7. CfCounts'
  <2>1. pc[c] \in Running /\ pc[c] \notin Unput /\ "done" \notin Running /\ "done" \notin Unput
    BY <1>1 DEF Running, Unput
  <2>2. /\ Left(Unput)' = Left(Unput) /\ Left(Running) \in Int
        /\ Left(Running)' = Left(Running) + 1
    BY <1>1, <1>4, <2>1, LeftMoves DEF CfCounts
  <2>3. /\ r.pongs <= Left(Unput)' /\ r.put <= Left(Unput)'
        /\ r.state <= 1 + Left(Running)' /\ r.ended <= Left(Running)'
    BY <1>2, <1>3, <2>2 DEF CfCounts
  <2> QED
    BY <1>1, <1>3, <1>4, <2>1, <2>3, StoredCounts
<1>8. Exclusive'
  BY <1>1, <1>4, GateKeeps
<1>9. CfMade'
  BY <1>1, <1>2, <1>3, StoredMade
<1>10. CfKept'
  <2>1. pc'[c] = "done" /\ \A d \in Clients : d # c => pc'[d] = pc[d]
    BY <1>4 DEF ClientTypes
  <2>2. ASSUME NEW i \in Ids
        PROVE  /\ objects'[i].pongs = objects'[i].put
               /\ objects'[i].state # 0 /\ ~objects'[i].outside =>
                    objects'[i].state = 1 + objects'[i].ended
    <3>1. CASE i = id
      BY <1>2, <1>3, <1>5, <3>1 DEF CfKept
    <3>2. CASE i # id
      BY <1>5, <3>2 DEF CfKept
    <3> QED
      BY <3>1, <3>2
  <2>3. ASSUME NEW d \in Clients, d # c, pc[d] \in {"method", "put", "outside", "back"}
        PROVE  \/ Object(d)' = Object(d)
               \/ /\ pc[d] = "outside"
                  /\ Object(d)'.outside /\ Object(d)'.state # 0
    <3>1. CASE Id(target[d]) = id
      <4>1. pc[d] = "outside"
        BY <1>1, <2>3, <3>1 DEF Exclusive, Inside
      <4> QED
        BY <1>2, <1>3, <1>5, <3>1, <4>1 DEF CfKept, Object
    <3>2. CASE Id(target[d]) # id
      BY <1>5, <3>2 DEF Object
    <3> QED
      BY <3>1, <3>2
  <2> QED
    BY <1>1, <2>1, <2>2, <2>3 DEF CfKept
<1> QED
  BY <1>6, <1>7, <1>8, <1>9, <1>10

\* CfInv is inductive for the Cloudflare driver.
LEMMA CfStep == CfInv /\ CfNext => CfInv'
<1> SUFFICES ASSUME CfInv, NEW c \in Clients,
                    \/ CfExists(c) \/ CfCreate(c) \/ CfBuild(c) \/ CfGet(c) \/ CfCall(c)
                    \/ CfPongGet(c) \/ CfPongPut(c) \/ CfOutside(c) \/ CfPutState(c)
                    \/ CfCallAgain(c)
                    \/ Begin(c) /\ UNCHANGED <<driver, objects, held, failed>>
             PROVE  CfInv'
  BY DEF CfNext
<1> QED
  BY QuietCf, CreateCf, BuildCf, CallCf, PongGetCf, PongPutCf, PutStateCf, BeginCf

\* The program starts with no script under way, no actor and no object.
LEMMA InitInv == Init => Inv
<1> SUFFICES ASSUME Init PROVE Inv
  OBVIOUS
<1>1. /\ driver \in {"deno", "cf"} /\ objects = [id \in Ids |-> NoObject]
      /\ held = [c \in Clients |-> 0] /\ failed = {}
  BY DEF Init
<1>2. DenoInv
  BY DenoInitInv DEF Init
<1>3. /\ pc = [c \in Clients |-> "idle"] /\ runs = 0
      /\ local = [c \in Clients |-> 0]
  BY DEF Init, DenoInit
<1>4. CfInv
  <2>1. ClientTypes
    BY <1>2 DEF DenoInv
  <2>2. CfTypes
    BY <1>1 DEF CfTypes, DurableObject, NoObject
  <2>3. CfCounts
    <3>1. At(pc, Running) = {} /\ At(pc, Unput) = {}
      BY <1>3 DEF At, Running, Unput
    <3>2. /\ IsFiniteSet(At(pc, Running)) /\ Left(Running) = 0
          /\ IsFiniteSet(At(pc, Unput)) /\ Left(Unput) = 0
      BY <1>3, <3>1, FS_EmptySet DEF Left
    <3> QED
      BY <1>1, <1>3, <3>2 DEF CfCounts, NoObject
  <2>4. Exclusive
    BY <1>3 DEF Exclusive, Inside
  <2>5. CfMade
    BY <1>1, <1>3, IdType DEF CfMade, NoObject
  <2>6. CfKept
    BY <1>1, <1>3 DEF CfKept, NoObject
  <2> QED
    BY <2>1, <2>2, <2>3, <2>4, <2>5, <2>6 DEF CfInv
<1> QED
  BY <1>1, <1>2, <1>4 DEF Inv

\* Every step of either driver keeps the invariant.
LEMMA NextInv == Inv /\ [Next]_vars => Inv'
<1> SUFFICES ASSUME Inv, [Next]_vars PROVE Inv'
  OBVIOUS
<1>1. CASE driver = "deno" /\ DenoNext /\ UNCHANGED <<driver, objects, held, failed>>
  <2>1. DenoInv'
    BY <1>1, DenoStep DEF Inv
  <2> QED
    BY <1>1, <2>1 DEF Inv
<1>2. CASE driver = "cf" /\ CfNext
  <2>1. UNCHANGED driver
    BY <1>2 DEF CfNext, CfExists, CfCreate, CfBuild, CfGet, CfCall, CfPongGet, CfPongPut,
                CfOutside, CfPutState, CfCallAgain, Rest
  <2>2. CfInv'
    BY <1>2, CfStep DEF Inv
  <2> QED
    BY <1>2, <2>1, <2>2 DEF Inv
<1>3. CASE UNCHANGED vars
  <2> USE <1>3 DEF vars, denoVars
  <2>1. DenoInv => DenoInv'
    BY DEF DenoInv, ClientTypes, DenoMap, DenoHandles, DenoCounts, Entry, Left, At
  <2>2. CfTypes => CfTypes'
    BY DEF CfTypes
  <2>3. ClientTypes => ClientTypes'
    BY DEF ClientTypes
  <2>4. CfCounts => CfCounts'
    BY DEF CfCounts, Left, At
  <2>5. Exclusive => Exclusive'
    BY DEF Exclusive, Inside
  <2>6. CfMade => CfMade'
    BY DEF CfMade, Object
  <2>7. CfKept => CfKept'
    BY DEF CfKept, Object
  <2> QED
    BY <2>1, <2>2, <2>3, <2>4, <2>5, <2>6, <2>7 DEF Inv, CfInv
<1> QED
  BY <1>1, <1>2, <1>3 DEF Next

\* What the invariant says of the properties.
LEMMA InvImplies == Inv => TypeOK /\ SeenIsCallable /\ HandleOfItsClass /\ UpdatesKept
<1> SUFFICES ASSUME Inv PROVE TypeOK /\ SeenIsCallable /\ HandleOfItsClass /\ UpdatesKept
  OBVIOUS
<1>1. CASE driver = "deno"
  <2>1. DenoTypeOK /\ SeenInDeno /\ HandleInDeno
    BY <1>1, DenoInvImplies DEF Inv
  <2>2. TypeOK
    <3>1. NoObject \in [path : Classes \cup {"none"}, state : 0..(MaxRuns + 1),
                        pongs : 0..MaxRuns, ended : 0..MaxRuns, put : 0..MaxRuns,
                        outside : BOOLEAN]
      BY DEF NoObject
    <3>2. 0 \in 0..(MaxRuns + 1)
      OBVIOUS
    <3> QED
      BY <1>1, <2>1, <3>1, <3>2 DEF Inv, TypeOK
  <2> QED
    BY <1>1, <2>1, <2>2 DEF SeenIsCallable, HandleOfItsClass, UpdatesKept
<1>2. CASE driver = "cf"
  <2> USE DEF Inv, CfInv
  <2>1. TypeOK
    <3>1. /\ Left(Running) \in Int /\ Left(Running) <= MaxRuns
          /\ Left(Unput) \in Int /\ Left(Unput) <= MaxRuns
      BY <1>2, FS_CardinalityType DEF CfCounts, Left, ClientTypes
    <3>2. ASSUME NEW id \in Ids
          PROVE  objects[id] \in [path : Classes \cup {"none"}, state : 0..(MaxRuns + 1),
                                  pongs : 0..MaxRuns, ended : 0..MaxRuns,
                                  put : 0..MaxRuns, outside : BOOLEAN]
      <4>1. /\ objects[id] \in DurableObject /\ objects[id].pongs <= MaxRuns
            /\ objects[id].put <= MaxRuns /\ objects[id].state <= MaxRuns + 1
            /\ objects[id].ended <= MaxRuns
        BY <1>2, <3>1 DEF CfCounts, CfTypes, DurableObject
      <4> QED
        BY <4>1 DEF DurableObject
    <3>3. \A c \in Clients : held[c] \in 0..(MaxRuns + 1)
      BY <1>2, <3>1 DEF CfCounts, CfTypes
    <3> QED
      BY <1>2, <3>2, <3>3 DEF TypeOK, CfTypes
  <2>2. SeenIsCallable
    BY <1>2 DEF SeenIsCallable, CfMade
  <2>3. HandleOfItsClass
    <3> SUFFICES ASSUME NEW c \in Clients,
                        pc[c] \in {"method", "put", "outside", "back"},
                        Apart(target[c].class)
                 PROVE  Object(c).path = target[c].class
      BY <1>2 DEF HandleOfItsClass
    <3>1. PICK t \in Targets : Id(t) = Id(target[c]) /\ t.class = Object(c).path
      BY <1>2 DEF CfMade, OfName
    <3> QED
      BY <1>2, <3>1, ClassesApart DEF ClientTypes
  <2>4. UpdatesKept
    BY <1>2 DEF UpdatesKept, CfKept
  <2> QED
    BY <2>1, <2>2, <2>3, <2>4
<1> QED
  BY <1>1, <1>2 DEF Inv

\* The state of both drivers is well typed, and no count exceeds the runs
\* (dynamic/actor.ts, dynamic/actor_cf.ts).
THEOREM TypeCorrect == Spec => []TypeOK
<1> QED
  BY InitInv, NextInv, InvImplies, PTL DEF Spec

\* A script that has seen an actor, or made it, can call it, whatever the others
\* do between its awaits; unless the object's buildState threw.
THEOREM SeenCanBeCalled == Spec => []SeenIsCallable
<1> QED
  BY InitInv, NextInv, InvImplies, PTL DEF Spec

\* A handle reaches objects with the storage of its label, and of its class only if
\* the class's storage id is apart from all others (getId): nothing else is asked of
\* the storage ids, which the code compares within a module only.
THEOREM HandlesKeepTheirClass == Spec => []HandleOfItsClass
<1> QED
  BY InitInv, NextInv, InvImplies, PTL DEF Spec

\* No call of a durable object loses the update of another, as long as methods
\* await its storage alone (the input gate and __call of dynamic/actor_cf.ts).
THEOREM NoUpdateLost == Spec => []UpdatesKept
<1> QED
  BY InitInv, NextInv, InvImplies, PTL DEF Spec
==============================================================================
