------------------------------- MODULE Bridge -------------------------------
(***************************************************************************)
(* The provider bridge (bridge/): HTTP handlers that run Terraform         *)
(* provider processes.  A request first needs the provider's schema        *)
(* (schema/service.go), then a configured process from the pool            *)
(* (provider/pool.go), which it calls through a semaphore                  *)
(* (provider/instance.go).  Apply (handler/resource_apply.go) reads and    *)
(* plans again before it changes anything, and splits a replacement into   *)
(* a destroy and a create.                                                 *)
(*                                                                         *)
(* The provider and the cloud behind it are external: a call may fail at   *)
(* any time, with or without its effect, and a process may die.  A state   *)
(* is only told apart from null.  Deadlines, the client's disconnect and   *)
(* the grace period of Stop are steps that may come at any time.           *)
(***************************************************************************)
EXTENDS Naturals, FiniteSets

CONSTANTS
    Requests,    \* one handler execution each
    Kinds,       \* what each may ask for: query, create, update, replace, delete
    Config,      \* the provider configuration a request carries, as written
    Canonical,   \* canonicalJSON of a configuration
    Keys,        \* canonical configurations of the one provider
    Instances,   \* provider processes, numbered as they are started
    Sizes,       \* the sizes a pool may be given
    Slots        \* capacity of Instance.sem

None == "none"
NoInst == 0

ASSUME BridgeAssumption ==
    /\ \A q \in Requests : Canonical[Config[q]] \in Keys
    /\ \A q \in Requests :
         Kinds[q] \subseteq {"query", "create", "update", "replace", "delete"}
    /\ Instances \subseteq Nat \ {0} /\ IsFiniteSet(Instances)
    /\ IsFiniteSet(Keys)
    /\ Sizes \subseteq Nat \ {0}
    /\ Slots \in Nat \ {0}
    /\ None \notin Keys \cup Requests

VARIABLES
    schema,   \* whether the manifest is in the schema cache
    maxSize,  \* Pool.maxSize
    pool,     \* Pool.instances
    proc,     \* the processes: unused, up, stopping or dead
    conf,     \* the configuration a process was given, in canonical form
    used,     \* lastUsed of the processes, by rank: the higher the later
    flight,   \* the calls of the pool's singleflight group
    req,      \* the handlers
    world,    \* copies of the request's resource that exist
    asked,    \* changes the request has asked its provider to apply
    down      \* Shutdown has begun

vars == <<schema, maxSize, pool, proc, conf, used, flight, req, world, asked, down>>

-----------------------------------------------------------------------------
(* State *)

NoFlight == [at |-> None, inst |-> NoInst, config |-> None]

NoReq == [at |-> "idle", kind |-> None, inst |-> NoInst, slot |-> FALSE,
          prior |-> None, next |-> None, forced |-> FALSE, result |-> None]

\* Stages of a handler in which it calls the provider.
Rpc == {"query", "read", "replan", "apply", "dplan", "dapply", "cplan", "capply"}

Changes == {"create", "update", "delete", "noop"}

TypeOK ==
    /\ schema \in BOOLEAN
    /\ maxSize \in Sizes
    /\ pool \in [Keys -> Instances \cup {NoInst}]
    /\ proc \in [Instances -> {"unused", "up", "stopping", "dead"}]
    /\ used \in [Instances -> Nat]
    /\ \A k \in Keys :
         /\ flight[k].at \in {None, "recheck", "launch", "configure", "store"}
         /\ flight[k].inst \in Instances \cup {NoInst}
    /\ \A q \in Requests :
         /\ req[q].at \in Rpc \cup {"idle", "extract", "get", "join",
                                    "flight", "done"}
         /\ req[q].inst \in Instances \cup {NoInst}
         /\ req[q].forced \in BOOLEAN
         /\ req[q].result \in {None, "ok", "failed", "stale"}
    /\ world \in [Requests -> Nat]
    /\ asked \in [Requests -> SUBSET Changes]
    /\ down \in BOOLEAN

Init ==
    /\ schema = FALSE
    /\ maxSize \in Sizes
    /\ pool = [k \in Keys |-> NoInst]
    /\ proc = [i \in Instances |-> "unused"]
    /\ conf = [i \in Instances |-> None]
    /\ used = [i \in Instances |-> 0]
    /\ flight = [k \in Keys |-> NoFlight]
    /\ req = [q \in Requests |-> NoReq]
    /\ world = [q \in Requests |-> 0]
    /\ asked = [q \in Requests |-> {}]
    /\ down = FALSE

poolVars == <<maxSize, pool, proc, conf, used, flight, down>>

\* Mutated form: the configuration is left out of the key.
poolKey_NoConfig(q) == CHOOSE k \in Keys : TRUE

poolKey(q) == Canonical[Config[q]]

\* isAlive
Alive(i) == proc[i] \in {"up", "stopping"}

\* inst.lastUsed = time.Now(): i takes the highest rank, and those above it
\* move down.
Touch(i) ==
    [j \in Instances |-> IF j = i THEN Cardinality(Instances)
                        ELSE IF used[j] > used[i] THEN used[j] - 1 ELSE used[j]]

Pooled == {k \in Keys : pool[k] # NoInst}

\* The response; success and failure of a query are not told apart.
Answer(r, result) ==
    [NoReq EXCEPT !.at = "done", !.kind = r.kind, !.forced = r.forced,
                  !.result = IF r.kind = "query" THEN None ELSE result]

Finish(q, result) == req' = [req EXCEPT ![q] = Answer(@, result)]

-----------------------------------------------------------------------------
(* Schema catalog *)

\* A request for a change names a resource that exists, unless it is a create.
\* Catalog.Ensure: the manifest is there, or the request joins the one
\* extraction, which it starts if there is none.
Arrive(q) ==
    /\ req[q].at = "idle" /\ ~down
    /\ \E kind \in Kinds[q] :
         /\ req' = [req EXCEPT ![q].at = IF schema THEN "get" ELSE "extract",
                               ![q].kind = kind]
         /\ world' = [world EXCEPT ![q] = IF kind \in {"query", "create"} THEN 0 ELSE 1]
    /\ UNCHANGED <<schema, poolVars, asked>>

Extracting == {q \in Requests : req[q].at = "extract"}

\* The extraction publishes the cache directory by a rename.
Extracted ==
    /\ Extracting # {}
    /\ schema' = TRUE
    /\ req' = [q \in Requests |-> IF q \in Extracting THEN [req[q] EXCEPT !.at = "get"]
                                  ELSE req[q]]
    /\ UNCHANGED <<poolVars, world, asked>>

\* The extraction fails, or ends with the request that started it: everyone
\* who joined it fails.
ExtractFails ==
    /\ Extracting # {}
    /\ req' = [q \in Requests |->
                 IF q \in Extracting THEN Answer(req[q], "failed") ELSE req[q]]
    /\ UNCHANGED <<schema, poolVars, world, asked>>

-----------------------------------------------------------------------------
(* Pool *)

\* The handler's first call: a create has no prior state to read.
FirstCall(kind) ==
    IF kind = "query" THEN "query" ELSE IF kind = "create" THEN "apply" ELSE "read"

\* The request gets the process i.
Obtain(r, i) ==
    [r EXCEPT !.at = FirstCall(r.kind), !.inst = i,
              !.prior = IF r.kind = "create" THEN "null" ELSE None,
              !.next = IF r.kind = "create" THEN "state" ELSE None]

\* Get, fast path.  A dead process leaves the map.
GetFast(q) ==
    LET k == poolKey(q)
        i == pool[k]
    IN /\ req[q].at = "get"
       /\ IF i # NoInst /\ Alive(i)
          THEN /\ req' = [req EXCEPT ![q] = Obtain(@, i)]
               /\ used' = Touch(i)
               /\ UNCHANGED pool
          ELSE /\ req' = [req EXCEPT ![q].at = "join"]
               /\ pool' = [pool EXCEPT ![k] = NoInst]
               /\ UNCHANGED used
       /\ UNCHANGED <<schema, maxSize, proc, conf, flight, world, asked, down>>

\* Get, slow path: sf.Do runs the function for the first caller of a key, and
\* the others wait for its result.
GetSlow(q) ==
    LET k == poolKey(q)
    IN /\ req[q].at = "join"
       /\ req' = [req EXCEPT ![q].at = "flight"]
       /\ flight' = IF flight[k].at = None
                    THEN [flight EXCEPT ![k] = [NoFlight EXCEPT !.at = "recheck",
                                                                !.config = Canonical[Config[q]]]]
                    ELSE flight
       /\ UNCHANGED <<schema, maxSize, pool, proc, conf, used, world, asked, down>>

\* The function returns: every request that waits for the key gets process i,
\* or its error.
Land(k, i) ==
    /\ req' = [q \in Requests |->
                 IF req[q].at = "flight" /\ poolKey(q) = k
                 THEN IF i = NoInst THEN Answer(req[q], "failed")
                      ELSE Obtain(req[q], i)
                 ELSE req[q]]
    /\ flight' = [flight EXCEPT ![k] = NoFlight]

\* Mutated form: the map is not looked at again inside the flight.
Recheck_Skipped(k) ==
    /\ flight[k].at = "recheck"
    /\ flight' = [flight EXCEPT ![k].at = "launch"]
    /\ UNCHANGED <<schema, maxSize, pool, proc, conf, used, req, world, asked, down>>

\* Another flight of the key may have ended between the miss and this one.
Recheck(k) ==
    /\ flight[k].at = "recheck"
    /\ IF pool[k] # NoInst /\ Alive(pool[k])
       THEN Land(k, pool[k]) /\ used' = Touch(pool[k])
       ELSE /\ flight' = [flight EXCEPT ![k].at = "launch"]
            /\ UNCHANGED <<req, used>>
    /\ UNCHANGED <<schema, maxSize, pool, proc, conf, world, asked, down>>

\* Discover and Launch.
Launch(k, i) ==
    /\ flight[k].at = "launch"
    /\ proc[i] = "unused" /\ \A j \in Instances : j < i => proc[j] # "unused"
    /\ proc' = [proc EXCEPT ![i] = "up"]
    /\ flight' = [flight EXCEPT ![k].at = "configure", ![k].inst = i]
    /\ UNCHANGED <<schema, maxSize, pool, conf, used, req, world, asked, down>>

\* No binary, or a process that does not come up, which Launch kills.
LaunchFails(k) ==
    /\ flight[k].at = "launch"
    /\ Land(k, NoInst)
    /\ UNCHANGED <<schema, maxSize, pool, proc, conf, used, world, asked, down>>

Configure(k) ==
    LET i == flight[k].inst
    IN /\ flight[k].at = "configure"
       /\ proc[i] = "up"
       /\ conf' = [conf EXCEPT ![i] = flight[k].config]
       /\ used' = Touch(i)
       /\ flight' = [flight EXCEPT ![k].at = "store"]
       /\ UNCHANGED <<schema, maxSize, pool, proc, req, world, asked, down>>

\* Mutated form: a failed configuration is forgotten and nobody is told.
ConfigureFails_Silent(k) ==
    LET i == flight[k].inst
    IN /\ flight[k].at = "configure"
       /\ proc' = [proc EXCEPT ![i] = IF @ = "up" THEN "stopping" ELSE @]
       /\ flight' = [flight EXCEPT ![k] = NoFlight]
       /\ UNCHANGED <<schema, maxSize, pool, conf, used, req, world, asked, down>>

ConfigureFails(k) ==
    LET i == flight[k].inst
    IN /\ flight[k].at = "configure"
       /\ proc' = [proc EXCEPT ![i] = IF @ = "up" THEN "stopping" ELSE @]
       /\ Land(k, NoInst)
       /\ UNCHANGED <<schema, maxSize, pool, conf, used, world, asked, down>>

\* The key of the pooled process that was used longest ago.
Oldest == CHOOSE k \in Pooled : \A j \in Pooled : used[pool[k]] <= used[pool[j]]

evictIfNeeded == IF Cardinality(Pooled) < maxSize THEN {} ELSE {Oldest}

\* Stop of the processes of the keys ks, asynchronous.
Stopping(ks) ==
    [i \in Instances |->
        IF proc[i] = "up" /\ \E k \in ks : pool[k] = i THEN "stopping" ELSE proc[i]]

Store(k) ==
    LET i == flight[k].inst
    IN /\ flight[k].at = "store"
       /\ pool' = [j \in Keys |-> IF j = k THEN i
                                  ELSE IF j \in evictIfNeeded THEN NoInst ELSE pool[j]]
       /\ proc' = Stopping(evictIfNeeded)
       /\ Land(k, i)
       /\ UNCHANGED <<schema, maxSize, conf, used, world, asked, down>>

\* Stop ends with Kill, whatever calls are in flight.
Kill(i) ==
    /\ proc[i] = "stopping"
    /\ proc' = [proc EXCEPT ![i] = "dead"]
    /\ UNCHANGED <<schema, maxSize, pool, conf, used, flight, req, world, asked, down>>

\* A process exits by itself.
Exit(i) ==
    /\ proc[i] = "up"
    /\ proc' = [proc EXCEPT ![i] = "dead"]
    /\ UNCHANGED <<schema, maxSize, pool, conf, used, flight, req, world, asked, down>>

Shutdown ==
    /\ ~down
    /\ down' = TRUE
    /\ pool' = [k \in Keys |-> NoInst]
    /\ proc' = Stopping(Keys)
    /\ UNCHANGED <<schema, maxSize, conf, used, flight, req, world, asked>>

-----------------------------------------------------------------------------
(* Calls *)

DeriveAction(prior, next) ==
    CASE prior = "null" /\ next = "null" -> "noop"
      [] prior = "null" /\ next # "null" -> "create"
      [] prior # "null" /\ next = "null" -> "delete"
      [] prior # "null" /\ next # "null" -> "update"

\* Attributes that require a replacement make one of an update only.
DeriveActionFromDV(prior, next, requires) ==
    IF requires /\ DeriveAction(prior, next) = "update" THEN "replace"
    ELSE DeriveAction(prior, next)

\* The change an apply call of the request asks for.  The destroy of a
\* replacement goes from what was read to null, its create from null.
ChangeOf(r) ==
    CASE r.at = "apply" -> DeriveAction(r.prior, r.next)
      [] r.at = "dapply" -> DeriveAction(r.prior, "null")
      [] r.at = "capply" -> DeriveAction("null", r.next)

Applies == {"apply", "dapply", "capply"}

\* What the change does to the resource.
Effect(n, change) ==
    CASE change = "create" -> n + 1
      [] change = "delete" -> 0
      [] change \in {"update", "noop"} -> n

InCall(i) == {q \in Requests : req[q].inst = i /\ req[q].slot}

\* Call enters the semaphore, and the provider is asked.
Enter(q) ==
    LET i == req[q].inst
    IN /\ req[q].at \in Rpc /\ ~req[q].slot
       /\ Cardinality(InCall(i)) < Slots
       /\ req' = [req EXCEPT ![q].slot = TRUE]
       /\ used' = Touch(i)
       /\ asked' = IF req[q].at \in Applies
                   THEN [asked EXCEPT ![q] = @ \cup {ChangeOf(req[q])}] ELSE asked
       /\ UNCHANGED <<schema, maxSize, pool, proc, conf, flight, world, down>>

\* The context ends while the call waits for the semaphore.
GiveUp(q) ==
    /\ req[q].at \in Rpc /\ ~req[q].slot
    /\ Finish(q, "failed")
    /\ UNCHANGED <<schema, poolVars, world, asked>>

\* The effect of an apply that does not report success may be there or not.
MayTakeEffect(q) ==
    \/ UNCHANGED world
    \/ /\ req[q].at \in Applies
       /\ world' = [world EXCEPT ![q] = Effect(@, ChangeOf(req[q]))]

\* The call returns an error: the provider's, the transport's when the process
\* has died, or the context's.
CallFails(q) ==
    /\ req[q].slot
    /\ MayTakeEffect(q)
    /\ Finish(q, "failed")
    /\ UNCHANGED <<schema, poolVars, asked>>

Returns(q, stage) == req[q].at = stage /\ req[q].slot /\ Alive(req[q].inst)

Goto(q, stage) == req' = [req EXCEPT ![q].at = stage, ![q].slot = FALSE]

\* Plan, read, validate, import and data source requests.
Query(q) ==
    /\ Returns(q, "query")
    /\ Finish(q, "ok")
    /\ UNCHANGED <<schema, poolVars, world, asked>>

-----------------------------------------------------------------------------
(* Apply *)

\* ReadResource: null when the resource is gone, or when the provider reports
\* an error, which the handler does not look at.
Read(q) ==
    /\ Returns(q, "read")
    /\ \E s \in {"null", "state"} :
         /\ s = "state" => world[q] > 0
         /\ req' = [req EXCEPT ![q].at = "replan", ![q].slot = FALSE, ![q].prior = s]
    /\ UNCHANGED <<schema, poolVars, world, asked>>

\* Mutated form: only a plan that would destroy or create counts as diverged.
Diverged_Replace(stored, rePlanned) ==
    stored # rePlanned /\ rePlanned \notin {"noop", "replace"}

Diverged(stored, rePlanned) ==
    stored # rePlanned /\ ~(stored = "update" /\ rePlanned = "noop")

\* PlanResourceChange again, from what was read: n is the planned state, null
\* for a destroy or an error; requires whether it names attributes that require
\* a replacement.  The stored action is the request's kind.  The handler takes
\* the way of a replacement whenever attributes are named, also if its
\* comparison has found a delete or nothing to do: forced notes that.
RePlan(q) ==
    /\ Returns(q, "replan")
    /\ \E n \in {"null", "state"}, requires \in BOOLEAN :
         LET action == DeriveActionFromDV(req[q].prior, n, requires)
         IN IF Diverged(req[q].kind, action)
            THEN Finish(q, "stale")
            ELSE req' = [req EXCEPT ![q] =
                   [@ EXCEPT !.at = IF requires THEN "dplan" ELSE "apply", !.slot = FALSE,
                             !.next = n, !.forced = requires /\ action # "replace"]]
    /\ UNCHANGED <<schema, poolVars, world, asked>>

\* applyAndRespond
Apply(q) ==
    /\ Returns(q, "apply")
    /\ \/ /\ ChangeOf(req[q]) = "update" => world[q] > 0
          /\ world' = [world EXCEPT ![q] = Effect(@, ChangeOf(req[q]))]
          /\ Finish(q, "ok")
       \/ MayTakeEffect(q) /\ Finish(q, "failed")
    /\ UNCHANGED <<schema, poolVars, asked>>

\* applyReplaceAndRespond: plan of the destroy.
DestroyPlan(q) ==
    /\ Returns(q, "dplan")
    /\ Goto(q, "dapply") \/ Finish(q, "failed")
    /\ UNCHANGED <<schema, poolVars, world, asked>>

\* Mutated form: the diagnostics of the destroy are not looked at.
DestroyApply_NoDiags(q) ==
    /\ Returns(q, "dapply")
    /\ MayTakeEffect(q)
    /\ Goto(q, "cplan")
    /\ UNCHANGED <<schema, poolVars, asked>>

DestroyApply(q) ==
    /\ Returns(q, "dapply")
    /\ \/ world' = [world EXCEPT ![q] = Effect(@, ChangeOf(req[q]))] /\ Goto(q, "cplan")
       \/ MayTakeEffect(q) /\ Finish(q, "failed")
    /\ UNCHANGED <<schema, poolVars, asked>>

\* A delete carries no configuration: what is planned from it may be nothing.
CreatePlan(q) ==
    /\ Returns(q, "cplan")
    /\ \/ \E n \in {"state"} \cup (IF req[q].kind = "delete" THEN {"null"} ELSE {}) :
            req' = [req EXCEPT ![q] =
                      [@ EXCEPT !.at = "capply", !.slot = FALSE, !.next = n]]
       \/ Finish(q, "failed")
    /\ UNCHANGED <<schema, poolVars, world, asked>>

CreateApply(q) ==
    /\ Returns(q, "capply")
    /\ \/ /\ world' = [world EXCEPT ![q] = Effect(@, ChangeOf(req[q]))]
          /\ Finish(q, "ok")
       \/ MayTakeEffect(q) /\ Finish(q, "failed")
    /\ UNCHANGED <<schema, poolVars, asked>>

\* Somebody deletes the resource behind the bridge's back.
Drift(q) ==
    /\ req[q].at \in Rpc /\ req[q].kind \in {"update", "replace", "delete"}
    /\ world[q] = 1
    /\ world' = [world EXCEPT ![q] = 0]
    /\ UNCHANGED <<schema, poolVars, req, asked>>

-----------------------------------------------------------------------------
(* Specification *)

PoolStep(k) ==
    \/ Recheck(k)
    \/ \E i \in Instances : Launch(k, i)
    \/ LaunchFails(k)
    \/ Configure(k)
    \/ ConfigureFails(k)
    \/ Store(k)

CallStep(q) ==
    \/ Query(q) \/ Read(q) \/ RePlan(q) \/ Apply(q)
    \/ DestroyPlan(q) \/ DestroyApply(q) \/ CreatePlan(q) \/ CreateApply(q)
    \/ CallFails(q)

RequestStep(q) ==
    \/ GetFast(q)
    \/ GetSlow(q)
    \/ Enter(q)
    \/ GiveUp(q)
    \/ CallStep(q)

Next ==
    \/ \E q \in Requests : Arrive(q) \/ RequestStep(q) \/ Drift(q)
    \/ Extracted
    \/ ExtractFails
    \/ \E k \in Keys : PoolStep(k)
    \/ \E i \in Instances : Kill(i) \/ Exit(i)
    \/ Shutdown

\* Handlers run; a call to a provider returns, if only because the process
\* exits or the deadline of an apply passes; an extraction and a spawn end.
Fairness ==
    /\ \A q \in Requests : WF_vars(RequestStep(q))
    /\ WF_vars(Extracted \/ ExtractFails)
    /\ \A k \in Keys : WF_vars(PoolStep(k))
    /\ \A i \in Instances : WF_vars(Kill(i))

Spec == Init /\ [][Next]_vars /\ Fairness

-----------------------------------------------------------------------------
(* Properties *)

\* The pool never holds more processes than its size, and no process is lost
\* from sight: one that is up is in the pool under its key, or in the hands of
\* the flight that started it, or being stopped (Get, evictIfNeeded; the comment
\* on Pool: without single flight "one would silently orphan its process when
\* it lost the map write").
PoolSound ==
    /\ Cardinality(Pooled) <= maxSize
    /\ \A i \in Instances : proc[i] = "up" =>
         \E k \in Keys : pool[k] = i \/ flight[k].inst = i

\* A request only ever uses a process that was configured with its own
\* credentials, however the configuration was written, whichever request
\* started it and whatever was evicted meanwhile (poolKey, Get, sf.Do).
Isolation ==
    \A q \in Requests : req[q].inst # NoInst =>
        conf[req[q].inst] = Canonical[Config[q]]

\* The provider is asked for nothing but the change that was approved, and a
\* request refused because the plan has become another one has asked for
\* nothing (ServeHTTP of ResourceApply, Diverged).  The exception is the code's:
\* where the plan made again names attributes that require a replacement and is
\* none, a delete is followed by a create, and an update that found nothing
\* becomes one.
ApprovedOnly ==
    \A q \in Requests :
        /\ asked[q] \subseteq
             CASE req[q].kind = "create"  -> {"create"}
               [] req[q].kind = "update"  -> {"noop", IF req[q].forced THEN "create" ELSE "update"}
               [] req[q].kind = "replace" -> {"delete", "create"}
               [] req[q].kind = "delete"  -> {"delete"} \cup (IF req[q].forced
                                                             THEN {"noop", "create"} ELSE {})
               [] req[q].kind \in {"query", None} -> {}
        /\ req[q].result = "stale" => asked[q] = {}

\* A resource is never there twice: the create of a replacement comes after a
\* destroy that succeeded, and an update of what could not be read does not
\* become a create (applyReplaceAndRespond, DeriveActionFromDV), unless its plan
\* is null and still names attributes that require a replacement.
NoDuplicate ==
    \A q \in Requests : world[q] > 1 => req[q].forced /\ req[q].kind = "update"

\* Every request is answered: also those that wait for a flight or an
\* extraction that fails, for a slot of a process that is killed, or during a
\* shutdown (Get, Ensure, Call, Shutdown).
Answered == <>[](\A q \in Requests : req[q].at \in {"idle", "done"})

=============================================================================
