----------------------------- MODULE BridgeProofs -----------------------------
(* Proofs about both ends of the bridge: of Bridge, for any requests,         *)
(* credentials, processes and sizes of the pool, and of BridgeClient, for any *)
(* number of calls, streams and attempts.                                     *)
EXTENDS Bridge, BridgeClient, FiniteSetTheorems, WellFoundedInduction, TLAPS

(***************************************************************************)
(* Handlers.  What a handler has asked, and what there is of its resource, *)
(* goes by its stage, whatever the pool does meanwhile.                    *)
(***************************************************************************)

AllKinds == {"query", "create", "update", "replace", "delete"}

Handlers ==
    [at : Rpc \cup {"idle", "extract", "get", "join", "flight", "done"},
     kind : AllKinds \cup {None}, inst : Instances \cup {NoInst}, slot : BOOLEAN,
     prior : {None, "null", "state"}, next : {None, "null", "state"}, forced : BOOLEAN,
     result : {None, "ok", "failed", "stale"}]

HandlersTyped ==
    /\ req \in [Requests -> Handlers]
    /\ asked \in [Requests -> SUBSET Changes]
    /\ world \in [Requests -> Nat]

Allowed(kind, forced) ==
    CASE kind = "create"  -> {"create"}
      [] kind = "update"  -> {"noop", IF forced THEN "create" ELSE "update"}
      [] kind = "replace" -> {"delete", "create"}
      [] kind = "delete"  -> {"delete"} \cup (IF forced THEN {"noop", "create"} ELSE {})
      [] kind \in {"query", None} -> {}

Early == {"extract", "get", "join", "flight"}

Replacing == {"dplan", "dapply", "cplan", "capply"}

\* An update of nothing that was led to create.
Twice(r) == r.forced /\ r.kind = "update"

\* What stage r of a handler says of the changes A it asked for, and of the
\* number w of copies of its resource.
HandlerOK(r, A, w) ==
    /\ A \subseteq Allowed(r.kind, r.forced) /\ (w > 1 => Twice(r))
    /\ r.result = "stale" => A = {}
    /\ r.at # "done" => r.result = None
    /\ r.slot => r.at \in Rpc
    /\ r.at \in Rpc => r.inst # NoInst
    /\ r.at # "idle" => r.kind # None
    /\ r.at = "idle" => r.kind = None
    /\ r.forced => r.kind \in {"update", "delete"} /\ r.at \in Replacing \cup {"done"}
    /\ r.at \in Early \cup {"idle", "query", "read", "replan"} => A = {}
    /\ r.at \in Early /\ r.kind \in {"query", "create"} => w = 0
    /\ r.at = "query" => r.kind = "query"
    /\ r.at \in {"read", "replan"} => r.kind \in {"update", "replace", "delete"}
    /\ r.at = "apply" => /\ r.kind \in {"create", "update", "delete"}
                         /\ DeriveAction(r.prior, r.next) \in Allowed(r.kind, FALSE)
                         /\ r.kind = "create" => w = 0
    /\ r.at \in Replacing => /\ r.kind = "replace" \/ r.forced
                             /\ (r.kind = "update" <=> r.prior = "null")
    /\ r.at \in {"cplan", "capply"} => w = 0 \/ Twice(r)
    /\ r.at = "capply" /\ r.kind # "delete" => r.next = "state"

HandlersOK == \A q \in Requests : HandlerOK(req[q], asked[q], world[q])

HandlerInv == HandlersTyped /\ HandlersOK

USE DEF None, NoInst, vars, poolVars

LEMMA InitHandlers == Init => HandlerInv
BY DEF Init, HandlerInv, HandlersTyped, Handlers, NoReq, HandlersOK, HandlerOK, Allowed, Early,
       Replacing, Twice, Rpc, AllKinds

LEMMA Answers ==
    ASSUME NEW r \in Handlers, NEW x \in {"ok", "failed", "stale"}
    PROVE /\ Answer(r, x) \in Handlers /\ Answer(r, x).at = "done"
          /\ Answer(r, x).kind = r.kind /\ Answer(r, x).inst = NoInst
          /\ Answer(r, x).forced = r.forced
          /\ Answer(r, x).result \in {None, x} /\ ~Answer(r, x).slot
<1> DEFINE y == IF r.kind = "query" THEN None ELSE x
<1>1. y \in {None, x} /\ y \in {None, "ok", "failed", "stale"} OBVIOUS
<1>2. Answer(r, x) = [NoReq EXCEPT !.at = "done", !.kind = r.kind, !.forced = r.forced,
                                   !.result = y]
  BY DEF Answer
<1>3. r.kind \in AllKinds \cup {None} /\ r.forced \in BOOLEAN BY DEF Handlers
<1>4. NoReq \in Handlers /\ NoReq.inst = NoInst /\ ~NoReq.slot BY DEF NoReq, Handlers
<1>5. "done" \in Rpc \cup {"idle", "extract", "get", "join", "flight", "done"} OBVIOUS
<1>6. y \in {None, "ok", "failed", "stale"} BY <1>1
<1> HIDE DEF y, None, NoInst
<1>7. Answer(r, x) \in Handlers BY <1>2, <1>3, <1>4, <1>5, <1>6 DEF Handlers
<1>8. /\ Answer(r, x).at = "done" /\ Answer(r, x).kind = r.kind
      /\ Answer(r, x).inst = NoInst /\ Answer(r, x).result = y /\ ~Answer(r, x).slot
      /\ Answer(r, x).forced = r.forced
  BY <1>2, <1>4 DEF Handlers
<1> QED BY <1>1, <1>7, <1>8

LEMMA Obtains ==
    ASSUME NEW r \in Handlers, NEW i \in Instances, r.kind # None
    PROVE /\ Obtain(r, i) \in Handlers /\ Obtain(r, i).at = FirstCall(r.kind)
          /\ Obtain(r, i).kind = r.kind /\ Obtain(r, i).inst = i
          /\ Obtain(r, i).result = r.result /\ Obtain(r, i).forced = r.forced
          /\ r.kind = "create" => Obtain(r, i).prior = "null" /\ Obtain(r, i).next = "state"
<1> DEFINE p == IF r.kind = "create" THEN "null" ELSE None
           n == IF r.kind = "create" THEN "state" ELSE None
<1>1. p \in {None, "null", "state"} /\ n \in {None, "null", "state"} OBVIOUS
<1>2. r.kind = "create" => p = "null" /\ n = "state" OBVIOUS
<1>3. Obtain(r, i) = [r EXCEPT !.at = FirstCall(r.kind), !.inst = i, !.prior = p, !.next = n]
  BY DEF Obtain
<1>4. FirstCall(r.kind) \in Rpc BY DEF FirstCall, Rpc
<1> HIDE DEF p, n
<1> QED BY <1>1, <1>2, <1>3, <1>4 DEF Handlers

\* A handler that answers or gets its process keeps to its stage.
LEMMA AnswerOK ==
    ASSUME NEW r \in Handlers, NEW A, NEW w, NEW B, NEW v,
           HandlerOK(r, A, w), NEW x \in {"ok", "failed", "stale"},
           r.at # "idle", x = "stale" => B = {},
           B \subseteq Allowed(r.kind, r.forced), v > 1 => Twice(r)
    PROVE HandlerOK(Answer(r, x), B, v)
<1>1. /\ Answer(r, x).at = "done" /\ Answer(r, x).kind = r.kind
      /\ Answer(r, x).forced = r.forced /\ Answer(r, x).result \in {None, x}
      /\ ~Answer(r, x).slot
  BY Answers
<1>2. r.kind # None /\ (r.forced => r.kind \in {"update", "delete"}) BY DEF HandlerOK
<1> QED BY <1>1, <1>2 DEF HandlerOK, Early, Replacing, Rpc, Twice

LEMMA ObtainOK ==
    ASSUME NEW r \in Handlers, NEW A, NEW w, HandlerOK(r, A, w), NEW i \in Instances,
           w \in Nat, r.at \in Early
    PROVE HandlerOK(Obtain(r, i), A, w)
<1>1. r.kind \in AllKinds /\ r.kind # None BY DEF HandlerOK, Early, Handlers
<1>2. Obtain(r, i).at = FirstCall(r.kind) /\ Obtain(r, i).kind = r.kind
      /\ Obtain(r, i).forced = r.forced
      /\ Obtain(r, i).result = r.result /\ Obtain(r, i).inst = i /\ i # NoInst
      /\ (r.kind = "create" => Obtain(r, i).prior = "null" /\ Obtain(r, i).next = "state")
  BY <1>1, Obtains, BridgeAssumption
<1>3. A = {} /\ r.result = None /\ w <= 1 /\ (r.kind \in {"query", "create"} => w = 0)
      /\ r.forced = FALSE
  BY DEF HandlerOK, Early, Replacing, Rpc, Twice, Handlers
<1> HIDE DEF None
<1>4. CASE r.kind = "create"
  <2>1. DeriveAction("null", "state") = "create" BY DEF DeriveAction
  <2> QED
    BY <1>2, <1>3, <1>4, <2>1 DEF HandlerOK, FirstCall, Early, Replacing, Allowed, Rpc, None
<1>5. CASE r.kind # "create"
  BY <1>1, <1>2, <1>3, <1>5
     DEF HandlerOK, FirstCall, Early, Replacing, Allowed, AllKinds, Rpc, None
<1> QED BY <1>4, <1>5

LEMMA Derives ==
    \A p, n : DeriveAction(p, n) \in Changes
BY DEF DeriveAction, Changes

\* One handler goes on, and stays with its process if it does not answer.
Goes(q) ==
    /\ req' \in [Requests -> Handlers]
    /\ asked' \in [Requests -> SUBSET Changes]
    /\ world' \in [Requests -> Nat]
    /\ req'[q].inst \in {req[q].inst, NoInst}
    /\ HandlerOK(req'[q], asked'[q], world'[q])
    /\ \A p \in Requests \ {q} :
         req'[p] = req[p] /\ asked'[p] = asked[p] /\ world'[p] = world[p]

\* What happens to the resource of q alone.
WorldOf(q) ==
    /\ world' \in [Requests -> Nat] /\ (world'[q] > 1 => Twice(req[q]))
    /\ \A p \in Requests \ {q} : world'[p] = world[p]

LEMMA FinishGoes ==
    ASSUME HandlerInv, NEW q \in Requests, req[q].at # "idle",
           NEW x \in {"ok", "failed", "stale"}, Finish(q, x),
           x = "stale" => asked[q] = {}, UNCHANGED asked, WorldOf(q)
    PROVE Goes(q)
<1>1. req[q] \in Handlers /\ HandlerOK(req[q], asked[q], world[q])
      /\ asked[q] \subseteq Allowed(req[q].kind, req[q].forced)
  BY DEF HandlerInv, HandlersTyped, HandlersOK, HandlerOK
<1>2. req' = [req EXCEPT ![q] = Answer(req[q], x)] BY DEF Finish, HandlerInv, HandlersTyped
<1>3. Answer(req[q], x) \in Handlers /\ Answer(req[q], x).inst = NoInst BY <1>1, Answers
<1>4. HandlerOK(Answer(req[q], x), asked[q], world'[q]) BY <1>1, AnswerOK DEF WorldOf
<1> QED BY <1>2, <1>3, <1>4 DEF Goes, WorldOf, HandlerInv, HandlersTyped

LEMMA StageGoes ==
    ASSUME HandlerInv, NEW q \in Requests, NEW r \in Handlers,
           req' = [req EXCEPT ![q] = r], r.inst = req[q].inst,
           asked' \in [Requests -> SUBSET Changes],
           \A p \in Requests \ {q} : asked'[p] = asked[p],
           WorldOf(q), HandlerOK(r, asked'[q], world'[q])
    PROVE Goes(q)
BY DEF Goes, WorldOf, HandlerInv, HandlersTyped

LEMMA WorldSame == ASSUME HandlerInv, NEW q \in Requests, UNCHANGED world PROVE WorldOf(q)
BY DEF WorldOf, HandlerInv, HandlersTyped, HandlersOK, HandlerOK

\* An apply finds no resource where it creates one.
LEMMA ChangeFits ==
    ASSUME HandlerInv, NEW q \in Requests, req[q].at \in Applies
    PROVE /\ ChangeOf(req[q]) \in Allowed(req[q].kind, req[q].forced)
          /\ ChangeOf(req[q]) \in Changes
          /\ Effect(world[q], ChangeOf(req[q])) \in Nat
          /\ Effect(world[q], ChangeOf(req[q])) > 1 => Twice(req[q])
          /\ req[q].at = "dapply" =>
               Effect(world[q], ChangeOf(req[q])) = 0 \/ Twice(req[q])
<1>1. HandlerOK(req[q], asked[q], world[q]) /\ world[q] \in Nat /\ req[q] \in Handlers
  BY DEF HandlerInv, HandlersTyped, HandlersOK
<1> DEFINE c == ChangeOf(req[q])
<1>2. CASE req[q].at = "apply"
  <2>1. c = DeriveAction(req[q].prior, req[q].next) BY <1>2 DEF ChangeOf
  <2>2. ~req[q].forced BY <1>1, <1>2 DEF HandlerOK, Replacing
  <2>3. /\ c \in Allowed(req[q].kind, FALSE) /\ req[q].kind \in {"create", "update", "delete"}
        /\ (req[q].kind = "create" => world[q] = 0) /\ ~(world[q] > 1)
    <3>1. DeriveAction(req[q].prior, req[q].next) \in Allowed(req[q].kind, FALSE)
      BY <1>1, <1>2 DEF HandlerOK
    <3>2. ~(world[q] > 1) BY <1>1, <2>2 DEF HandlerOK, Twice
    <3>3. /\ req[q].kind \in {"create", "update", "delete"}
          /\ req[q].kind = "create" => world[q] = 0
      BY <1>1, <1>2 DEF HandlerOK
    <3> HIDE DEF c
    <3> QED BY <2>1, <3>1, <3>2, <3>3
  <2> HIDE DEF c
  <2>4. \/ c = "create" /\ world[q] = 0
        \/ c \in {"update", "noop"}
        \/ c = "delete"
    BY <2>3 DEF Allowed
  <2>5. c \in Allowed(req[q].kind, req[q].forced) BY <1>1, <2>2, <2>3 DEF Handlers
  <2> QED BY <1>1, <1>2, <2>3, <2>4, <2>5 DEF Effect, Changes, c
<1>3. CASE req[q].at = "dapply"
  <2>1. /\ req[q].kind = "replace" \/ (req[q].forced /\ req[q].kind \in {"update", "delete"})
        /\ (req[q].kind = "update" <=> req[q].prior = "null")
        /\ world[q] > 1 => Twice(req[q])
    BY <1>1, <1>3 DEF HandlerOK, Replacing
  <2>2. c = IF req[q].prior = "null" THEN "noop" ELSE "delete"
    BY <1>3 DEF ChangeOf, DeriveAction
  <2> HIDE DEF c
  <2>3. CASE req[q].kind = "update"
    BY <1>1, <1>3, <2>1, <2>2, <2>3 DEF Effect, Changes, Allowed, Twice, c
  <2>4. CASE req[q].kind # "update"
    BY <1>1, <1>3, <2>1, <2>2, <2>4 DEF Effect, Changes, Allowed, Twice, c
  <2> QED BY <2>3, <2>4
<1>4. CASE req[q].at = "capply"
  <2>1. /\ req[q].kind = "replace" \/ (req[q].forced /\ req[q].kind \in {"update", "delete"})
        /\ (req[q].kind # "delete" => req[q].next = "state")
        /\ world[q] = 0 \/ Twice(req[q])
    BY <1>1, <1>4 DEF HandlerOK, Replacing
  <2>2. c = IF req[q].next = "null" THEN "noop" ELSE "create"
    BY <1>4 DEF ChangeOf, DeriveAction
  <2> HIDE DEF c
  <2>3. c \in Allowed(req[q].kind, req[q].forced) BY <2>1, <2>2 DEF Allowed
  <2>4. Effect(world[q], c) \in {world[q], world[q] + 1} BY <2>2 DEF Effect
  <2> QED BY <1>1, <1>4, <2>1, <2>2, <2>3, <2>4 DEF Changes, c
<1> QED BY <1>2, <1>3, <1>4 DEF Applies

LEMMA EffectWorld ==
    ASSUME HandlerInv, NEW q \in Requests, MayTakeEffect(q)
    PROVE WorldOf(q)
<1>1. CASE UNCHANGED world BY <1>1, WorldSame
<1>2. CASE req[q].at \in Applies /\ world' = [world EXCEPT ![q] = Effect(@, ChangeOf(req[q]))]
  BY <1>2, ChangeFits DEF WorldOf, HandlerInv, HandlersTyped
<1> QED BY <1>1, <1>2 DEF MayTakeEffect

LEMMA GotoRecord ==
    ASSUME HandlerInv, NEW q \in Requests, NEW stage \in Rpc, Goto(q, stage)
    PROVE \E r \in Handlers :
            /\ req' = [req EXCEPT ![q] = r] /\ r.inst = req[q].inst
            /\ r.at = stage /\ r.kind = req[q].kind /\ r.result = req[q].result
            /\ r.forced = req[q].forced /\ r.prior = req[q].prior
<1> DEFINE r == [req[q] EXCEPT !.at = stage, !.slot = FALSE]
<1>1. req[q] \in Handlers BY DEF HandlerInv, HandlersTyped
<1>2. r \in Handlers /\ r.inst = req[q].inst /\ r.at = stage /\ r.kind = req[q].kind
      /\ r.result = req[q].result /\ r.forced = req[q].forced /\ r.prior = req[q].prior
  BY <1>1 DEF Handlers
<1>3. req' = [req EXCEPT ![q] = r] BY DEF Goto, HandlerInv, HandlersTyped
<1> HIDE DEF r
<1> QED BY <1>2, <1>3

LEMMA ArriveGoes == ASSUME HandlerInv, NEW q \in Requests, Arrive(q) PROVE Goes(q)
<1>1. PICK kind \in Kinds[q] :
         /\ req' = [req EXCEPT ![q].at = IF schema THEN "get" ELSE "extract", ![q].kind = kind]
         /\ world' = [world EXCEPT ![q] = IF kind \in {"query", "create"} THEN 0 ELSE 1]
  BY DEF Arrive
<1>2. kind \in AllKinds /\ kind # None BY BridgeAssumption DEF AllKinds
<1> DEFINE at == IF schema THEN "get" ELSE "extract"
           r == [req[q] EXCEPT !.at = at, !.kind = kind]
<1>3. req' = [req EXCEPT ![q] = r] BY <1>1 DEF HandlerInv, HandlersTyped
<1>4. at \in {"get", "extract"} OBVIOUS
<1>5. req[q] \in Handlers /\ HandlerOK(req[q], asked[q], world[q]) /\ req[q].at = "idle"
  BY DEF HandlerInv, HandlersTyped, HandlersOK, Arrive
<1> HIDE DEF at
<1>6. r \in Handlers /\ r.inst = req[q].inst /\ r.at = at /\ r.kind = kind
      /\ r.result = req[q].result /\ r.slot = req[q].slot /\ r.forced = req[q].forced
  BY <1>2, <1>4, <1>5 DEF Handlers
<1>7. WorldOf(q) /\ (kind \in {"query", "create"} => world'[q] = 0)
  BY <1>1 DEF WorldOf, HandlerInv, HandlersTyped
<1>8. asked[q] = {} /\ req[q].result = None /\ ~req[q].slot /\ ~req[q].forced
  BY <1>5 DEF HandlerOK, Replacing, Rpc
<1> HIDE DEF r
<1>9. HandlerOK(r, asked[q], world'[q])
  BY <1>2, <1>4, <1>6, <1>7, <1>8 DEF HandlerOK, Early, Replacing, Rpc, WorldOf, Twice
<1> QED BY <1>3, <1>6, <1>7, <1>9, StageGoes DEF Arrive, HandlerInv, HandlersTyped

LEMMA EnterGoes == ASSUME HandlerInv, NEW q \in Requests, Enter(q) PROVE Goes(q)
<1> DEFINE r == [req[q] EXCEPT !.slot = TRUE]
<1>1. req' = [req EXCEPT ![q] = r] BY DEF Enter, HandlerInv, HandlersTyped
<1>2. req[q] \in Handlers /\ HandlerOK(req[q], asked[q], world[q]) /\ req[q].at \in Rpc
  BY DEF HandlerInv, HandlersTyped, HandlersOK, Enter
<1>3. r \in Handlers /\ r.inst = req[q].inst /\ r.at = req[q].at /\ r.kind = req[q].kind
      /\ r.result = req[q].result /\ r.prior = req[q].prior /\ r.next = req[q].next
      /\ r.forced = req[q].forced
  BY <1>2 DEF Handlers
<1> HIDE DEF r
<1>4. WorldOf(q) BY WorldSame DEF Enter
<1>5. CASE req[q].at \in Applies
  <2>1. asked' = [asked EXCEPT ![q] = @ \cup {ChangeOf(req[q])}] BY <1>5 DEF Enter
  <2>2. /\ asked' \in [Requests -> SUBSET Changes]
        /\ \A p \in Requests \ {q} : asked'[p] = asked[p]
        /\ asked'[q] \subseteq Allowed(req[q].kind, req[q].forced)
    BY <1>2, <1>5, <2>1, ChangeFits DEF HandlerInv, HandlersTyped, HandlerOK
  <2>3. HandlerOK(r, asked'[q], world[q])
    BY <1>2, <1>3, <1>5, <2>2 DEF HandlerOK, Applies, Early, Twice
  <2> QED BY <1>1, <1>3, <1>4, <2>2, <2>3, StageGoes DEF Enter
<1>6. CASE req[q].at \notin Applies
  <2>1. asked' = asked BY <1>6 DEF Enter
  <2>2. HandlerOK(r, asked[q], world[q]) BY <1>2, <1>3 DEF HandlerOK, Twice
  <2> QED BY <1>1, <1>3, <1>4, <2>1, <2>2, StageGoes DEF Enter, HandlerInv, HandlersTyped
<1> QED BY <1>5, <1>6

LEMMA GiveUpGoes == ASSUME HandlerInv, NEW q \in Requests, GiveUp(q) PROVE Goes(q)
BY WorldSame, FinishGoes DEF GiveUp, Rpc

LEMMA ReadGoes == ASSUME HandlerInv, NEW q \in Requests, Read(q) PROVE Goes(q)
<1>1. PICK s \in {"null", "state"} :
         req' = [req EXCEPT ![q].at = "replan", ![q].slot = FALSE, ![q].prior = s]
  BY DEF Read
<1> DEFINE r == [req[q] EXCEPT !.at = "replan", !.slot = FALSE, !.prior = s]
<1>2. req' = [req EXCEPT ![q] = r] BY <1>1 DEF HandlerInv, HandlersTyped
<1>3. req[q] \in Handlers /\ HandlerOK(req[q], asked[q], world[q]) /\ req[q].at = "read"
  BY DEF HandlerInv, HandlersTyped, HandlersOK, Read, Returns
<1>4. r \in Handlers /\ r.inst = req[q].inst /\ r.at = "replan" /\ r.kind = req[q].kind
      /\ r.result = req[q].result /\ r.forced = req[q].forced
  BY <1>3 DEF Handlers, Rpc
<1> HIDE DEF r
<1>5. HandlerOK(r, asked[q], world[q])
  BY <1>3, <1>4 DEF HandlerOK, Early, Replacing, Rpc, Twice
<1>6. WorldOf(q) BY WorldSame DEF Read
<1> QED BY <1>2, <1>4, <1>5, <1>6, StageGoes DEF Read, HandlerInv, HandlersTyped

\* What was planned again is applied only if it is what was approved, or goes
\* the way of a replacement.
LEMMA RePlanGoes == ASSUME HandlerInv, NEW q \in Requests, RePlan(q) PROVE Goes(q)
<1> DEFINE action(n, requires) == DeriveActionFromDV(req[q].prior, n, requires)
           r(n, requires) ==
             [req[q] EXCEPT !.at = IF requires THEN "dplan" ELSE "apply", !.slot = FALSE,
                            !.next = n, !.forced = requires /\ action(n, requires) # "replace"]
<1>1. PICK n \in {"null", "state"}, requires \in BOOLEAN :
         IF Diverged(req[q].kind, action(n, requires)) THEN Finish(q, "stale")
         ELSE req' = [req EXCEPT ![q] = r(n, requires)]
  BY DEF RePlan, HandlerInv, HandlersTyped
<1>2. /\ req[q] \in Handlers /\ HandlerOK(req[q], asked[q], world[q])
      /\ req[q].at = "replan" /\ asked[q] = {} /\ ~req[q].forced
      /\ req[q].kind \in {"update", "replace", "delete"}
  BY DEF HandlerInv, HandlersTyped, HandlersOK, HandlerOK, Replacing, RePlan, Returns
<1>3. WorldOf(q) /\ UNCHANGED <<asked, world>> BY WorldSame DEF RePlan
<1>4. CASE Finish(q, "stale") BY <1>2, <1>3, <1>4, FinishGoes
<1> DEFINE a == action(n, requires)
           s == r(n, requires)
           planned == DeriveAction(req[q].prior, n)
<1>5. CASE req' = [req EXCEPT ![q] = s] /\ ~Diverged(req[q].kind, a)
  <2> DEFINE f == requires /\ a # "replace"
  <2>1. f \in BOOLEAN OBVIOUS
  <2>2. /\ s \in Handlers /\ s.inst = req[q].inst /\ s.kind = req[q].kind
        /\ s.at = (IF requires THEN "dplan" ELSE "apply") /\ ~s.slot
        /\ s.result = req[q].result /\ s.prior = req[q].prior /\ s.next = n /\ s.forced = f
    <3> HIDE DEF f
    <3>1. s = [req[q] EXCEPT !.at = IF requires THEN "dplan" ELSE "apply", !.slot = FALSE,
                             !.next = n, !.forced = f] BY DEF f
    <3> HIDE DEF s
    <3> QED BY <1>2, <2>1, <3>1 DEF Handlers, Rpc
  <2>3. req[q].kind = a \/ (req[q].kind = "update" /\ a = "noop") BY <1>5 DEF Diverged
  <2>4. planned \in Changes BY Derives
  <2>5. a = IF requires /\ planned = "update" THEN "replace" ELSE planned
    BY DEF DeriveActionFromDV
  <2>6. req[q].result = None /\ req[q].inst # NoInst /\ ~(world[q] > 1)
    BY <1>2 DEF HandlerOK, Rpc, Twice
  <2>7. /\ planned \in {"noop", "create"} <=> req[q].prior = "null"
        /\ planned = "noop" => n = "null"
    BY <1>1 DEF DeriveAction
  <2> HIDE DEF a, s, planned, f
  <2>8. CASE requires
    <3>1. /\ req[q].kind = "replace" \/ (f /\ req[q].kind \in {"update", "delete"})
          /\ f => req[q].kind \in {"update", "delete"}
          /\ req[q].kind = "update" <=> req[q].prior = "null"
      BY <1>2, <2>3, <2>4, <2>5, <2>7, <2>8 DEF Changes, f
    <3>2. HandlerOK(s, asked[q], world[q])
      BY <1>2, <2>2, <2>6, <2>8, <3>1 DEF HandlerOK, Early, Replacing, Rpc, Twice
    <3> QED BY <1>3, <1>5, <2>2, <3>2, StageGoes DEF HandlerInv, HandlersTyped
  <2>9. CASE ~requires
    <3>1. /\ req[q].kind \in {"update", "delete"} /\ planned \in Allowed(req[q].kind, FALSE)
          /\ f = FALSE
      BY <1>2, <2>3, <2>4, <2>5, <2>9 DEF Allowed, Changes, f
    <3>2. HandlerOK(s, asked[q], world[q])
      BY <1>2, <2>2, <2>6, <2>9, <3>1 DEF HandlerOK, Early, Replacing, Rpc, Twice, planned
    <3> QED BY <1>3, <1>5, <2>2, <3>2, StageGoes DEF HandlerInv, HandlersTyped
  <2> QED BY <2>8, <2>9
<1> QED BY <1>1, <1>4, <1>5

LEMMA ApplyGoes == ASSUME HandlerInv, NEW q \in Requests, Apply(q) PROVE Goes(q)
<1>1. req[q].at = "apply" /\ UNCHANGED asked BY DEF Apply, Returns
<1>2. CASE world' = [world EXCEPT ![q] = Effect(@, ChangeOf(req[q]))] /\ Finish(q, "ok")
  <2>1. WorldOf(q)
    BY <1>1, <1>2, ChangeFits DEF Applies, WorldOf, HandlerInv, HandlersTyped
  <2> QED BY <1>1, <1>2, <2>1, FinishGoes
<1>3. CASE MayTakeEffect(q) /\ Finish(q, "failed")
  BY <1>1, <1>3, EffectWorld, FinishGoes
<1> QED BY <1>2, <1>3 DEF Apply

\* The stages of a replacement: the create is planned when nothing is left.
LEMMA ReplaceGoes ==
    ASSUME HandlerInv, NEW q \in Requests,
           req[q].at \in {"dplan", "dapply"},
           NEW stage \in {"dapply", "cplan"}, Goto(q, stage), UNCHANGED asked,
           WorldOf(q), stage = "cplan" => world'[q] = 0 \/ Twice(req[q])
    PROVE Goes(q)
<1>1. HandlerOK(req[q], asked[q], world[q]) BY DEF HandlerInv, HandlersOK
<1>2. PICK r \in Handlers :
          /\ req' = [req EXCEPT ![q] = r] /\ r.inst = req[q].inst
          /\ r.at = stage /\ r.kind = req[q].kind /\ r.result = req[q].result
          /\ r.forced = req[q].forced /\ r.prior = req[q].prior
  BY GotoRecord DEF Rpc
<1>3. HandlerOK(r, asked[q], world'[q])
  BY <1>1, <1>2 DEF HandlerOK, Early, Replacing, Rpc, WorldOf, Twice
<1> QED BY <1>2, <1>3, StageGoes DEF HandlerInv, HandlersTyped

LEMMA CreatePlanGoes == ASSUME HandlerInv, NEW q \in Requests, CreatePlan(q) PROVE Goes(q)
<1>1. /\ req[q] \in Handlers /\ HandlerOK(req[q], asked[q], world[q])
      /\ req[q].at = "cplan" /\ UNCHANGED <<asked, world>>
  BY DEF CreatePlan, Returns, HandlerInv, HandlersTyped, HandlersOK
<1>2. WorldOf(q) BY <1>1, WorldSame
<1>3. CASE Finish(q, "failed") BY <1>1, <1>2, <1>3, FinishGoes
<1>4. ASSUME NEW n \in {"state"} \cup (IF req[q].kind = "delete" THEN {"null"} ELSE {}),
             req' = [req EXCEPT ![q] = [@ EXCEPT !.at = "capply", !.slot = FALSE, !.next = n]]
      PROVE Goes(q)
  <2> DEFINE r == [req[q] EXCEPT !.at = "capply", !.slot = FALSE, !.next = n]
  <2>1. req' = [req EXCEPT ![q] = r] BY <1>4 DEF HandlerInv, HandlersTyped
  <2>2. n \in {"null", "state"} /\ (req[q].kind # "delete" => n = "state") BY <1>4
  <2>3. /\ r \in Handlers /\ r.inst = req[q].inst /\ r.at = "capply" /\ r.kind = req[q].kind
        /\ r.result = req[q].result /\ r.prior = req[q].prior /\ r.next = n
        /\ r.forced = req[q].forced
    BY <1>1, <2>2 DEF Handlers, Rpc
  <2> HIDE DEF r
  <2>4. HandlerOK(r, asked[q], world[q])
    BY <1>1, <2>2, <2>3 DEF HandlerOK, Early, Replacing, Rpc, Twice
  <2> QED BY <1>1, <1>2, <2>1, <2>3, <2>4, StageGoes DEF HandlerInv, HandlersTyped
<1> QED BY <1>3, <1>4 DEF CreatePlan

LEMMA CallGoes == ASSUME HandlerInv, NEW q \in Requests, CallStep(q) PROVE Goes(q)
<1>1. CASE Query(q) BY <1>1, WorldSame, FinishGoes DEF Query, Returns
<1>2. CASE DestroyPlan(q)
  BY <1>2, WorldSame, FinishGoes, ReplaceGoes DEF DestroyPlan, Returns
<1>3. CASE DestroyApply(q)
  <2>1. CASE world' = [world EXCEPT ![q] = Effect(@, ChangeOf(req[q]))] /\ Goto(q, "cplan")
    <3>1. req[q].at = "dapply" /\ UNCHANGED asked BY <1>3 DEF DestroyApply, Returns
    <3>2. WorldOf(q) /\ (world'[q] = 0 \/ Twice(req[q]))
      BY <2>1, <3>1, ChangeFits DEF Applies, WorldOf, HandlerInv, HandlersTyped
    <3> QED BY <2>1, <3>1, <3>2, ReplaceGoes
  <2>2. CASE MayTakeEffect(q) /\ Finish(q, "failed")
    BY <1>3, <2>2, EffectWorld, FinishGoes DEF DestroyApply, Returns
  <2> QED BY <1>3, <2>1, <2>2 DEF DestroyApply
<1>4. CASE CreatePlan(q) BY <1>4, CreatePlanGoes
<1>5. CASE CreateApply(q)
  <2>1. req[q].at = "capply" /\ UNCHANGED asked BY <1>5 DEF CreateApply, Returns
  <2>2. CASE world' = [world EXCEPT ![q] = Effect(@, ChangeOf(req[q]))] /\ Finish(q, "ok")
    <3>1. WorldOf(q)
      BY <2>1, <2>2, ChangeFits DEF Applies, WorldOf, HandlerInv, HandlersTyped
    <3> QED BY <2>1, <2>2, <3>1, FinishGoes
  <2>3. CASE MayTakeEffect(q) /\ Finish(q, "failed")
    BY <2>1, <2>3, EffectWorld, FinishGoes
  <2> QED BY <1>5, <2>2, <2>3 DEF CreateApply
<1>6. CASE CallFails(q)
  <2>1. req[q].at # "idle"
    BY <1>6 DEF CallFails, HandlerInv, HandlersOK, HandlerOK, Rpc
  <2> QED BY <1>6, <2>1, EffectWorld, FinishGoes DEF CallFails
<1> QED BY <1>1, <1>2, <1>3, <1>4, <1>5, <1>6, ReadGoes, RePlanGoes, ApplyGoes DEF CallStep

LEMMA GoesOK == ASSUME HandlerInv, NEW q \in Requests, Goes(q) PROVE HandlerInv'
BY DEF Goes, HandlerInv, HandlersTyped, HandlersOK

\* Several handlers go on that ask for nothing.
LEMMA EveryoneOK ==
    ASSUME HandlerInv, UNCHANGED <<asked, world>>, req' \in [Requests -> Handlers],
           \A q \in Requests : req'[q] = req[q] \/ HandlerOK(req'[q], asked[q], world[q])
    PROVE HandlerInv'
BY DEF HandlerInv, HandlersTyped, HandlersOK

LEMMA DriftOK == ASSUME HandlerInv, NEW q \in Requests, Drift(q) PROVE HandlerInv'
<1>1. world' = [world EXCEPT ![q] = 0] /\ UNCHANGED <<req, asked>> BY DEF Drift
<1>2. \A p \in Requests : world'[p] = world[p] \/ world'[p] = 0
  BY <1>1 DEF HandlerInv, HandlersTyped
<1>3. HandlersTyped' BY <1>1 DEF HandlerInv, HandlersTyped
<1>4. ASSUME NEW p \in Requests PROVE HandlerOK(req[p], asked[p], world'[p])
  <2>1. HandlerOK(req[p], asked[p], world[p]) BY DEF HandlerInv, HandlersOK
  <2>2. CASE world'[p] = world[p] BY <2>1, <2>2
  <2>3. CASE world'[p] = 0
    <3>1. ~(world'[p] > 1) BY <2>3
    <3> QED BY <2>1, <2>3, <3>1 DEF HandlerOK
  <2> QED BY <1>2, <2>2, <2>3
<1>5. HandlersOK' BY <1>1, <1>4 DEF HandlersOK
<1> QED BY <1>3, <1>5 DEF HandlerInv

LEMMA ExtractedOK == ASSUME HandlerInv, Extracted PROVE HandlerInv'
<1>1. req' = [q \in Requests |-> IF q \in Extracting THEN [req[q] EXCEPT !.at = "get"]
                                  ELSE req[q]]
      /\ UNCHANGED <<asked, world>>
  BY DEF Extracted
<1>2. ASSUME NEW q \in Extracting
      PROVE /\ [req[q] EXCEPT !.at = "get"] \in Handlers
            /\ HandlerOK([req[q] EXCEPT !.at = "get"], asked[q], world[q])
  <2>1. req[q] \in Handlers /\ HandlerOK(req[q], asked[q], world[q]) /\ req[q].at = "extract"
    BY DEF Extracting, HandlerInv, HandlersTyped, HandlersOK
  <2> DEFINE r == [req[q] EXCEPT !.at = "get"]
  <2>2. r \in Handlers /\ r.at = "get" /\ r.kind = req[q].kind /\ r.result = req[q].result
        /\ r.slot = req[q].slot /\ r.forced = req[q].forced
    BY <2>1 DEF Handlers
  <2> HIDE DEF r
  <2>3. HandlerOK(r, asked[q], world[q])
    BY <2>1, <2>2 DEF HandlerOK, Early, Replacing, Rpc, Twice
  <2> QED BY <2>2, <2>3 DEF r
<1>3. req' \in [Requests -> Handlers] BY <1>1, <1>2 DEF HandlerInv, HandlersTyped
<1> QED BY <1>1, <1>2, <1>3, EveryoneOK

LEMMA ExtractFailsOK == ASSUME HandlerInv, ExtractFails PROVE HandlerInv'
<1>1. req' = [q \in Requests |->
                IF q \in Extracting THEN Answer(req[q], "failed") ELSE req[q]]
      /\ UNCHANGED <<asked, world>>
  BY DEF ExtractFails
<1>2. ASSUME NEW q \in Extracting
      PROVE /\ Answer(req[q], "failed") \in Handlers
            /\ HandlerOK(Answer(req[q], "failed"), asked[q], world[q])
  <2>1. req[q] \in Handlers /\ HandlerOK(req[q], asked[q], world[q]) /\ req[q].at = "extract"
    BY DEF Extracting, HandlerInv, HandlersTyped, HandlersOK
  <2>2. asked[q] \subseteq Allowed(req[q].kind, req[q].forced) /\ (world[q] > 1 => Twice(req[q]))
    BY <2>1 DEF HandlerOK
  <2> QED BY <2>1, <2>2, Answers, AnswerOK
<1>3. req' \in [Requests -> Handlers] BY <1>1, <1>2 DEF HandlerInv, HandlersTyped
<1> QED BY <1>1, <1>2, <1>3, EveryoneOK

\* A flight lands on the handlers of its key alone.
LEMMA LandOK ==
    ASSUME HandlerInv, NEW k \in Keys, NEW i \in Instances \cup {NoInst}, Land(k, i)
    PROVE /\ UNCHANGED <<asked, world>> => HandlerInv'
          /\ \A q \in Requests : \/ req'[q].inst \in {req[q].inst, NoInst}
                                 \/ i # NoInst /\ req'[q].inst = i /\ poolKey(q) = k
<1> DEFINE Landing(q) == req[q].at = "flight" /\ poolKey(q) = k
           r(q) == IF i = NoInst THEN Answer(req[q], "failed") ELSE Obtain(req[q], i)
<1>1. req' = [q \in Requests |-> IF Landing(q) THEN r(q) ELSE req[q]]
  BY DEF Land
<1>2. ASSUME NEW q \in Requests, Landing(q)
      PROVE /\ r(q) \in Handlers /\ HandlerOK(r(q), asked[q], world[q])
            /\ r(q).inst = i
  <2>1. req[q] \in Handlers /\ HandlerOK(req[q], asked[q], world[q]) /\ req[q].at = "flight"
    BY <1>2 DEF HandlerInv, HandlersTyped, HandlersOK
  <2>2. /\ asked[q] \subseteq Allowed(req[q].kind, req[q].forced)
        /\ (world[q] > 1 => Twice(req[q])) /\ req[q].kind # None /\ world[q] \in Nat
    BY <2>1 DEF HandlerOK, HandlerInv, HandlersTyped
  <2>3. CASE i = NoInst BY <2>1, <2>2, <2>3, Answers, AnswerOK
  <2>4. CASE i # NoInst BY <2>1, <2>2, <2>4, Obtains, ObtainOK DEF Early
  <2> QED BY <2>3, <2>4
<1> HIDE DEF r
<1>3. req' \in [Requests -> Handlers] BY <1>1, <1>2 DEF HandlerInv, HandlersTyped
<1>4. \A q \in Requests : \/ req'[q] = req[q]
                          \/ /\ HandlerOK(req'[q], asked[q], world[q])
                             /\ req'[q].inst = i /\ poolKey(q) = k
  BY <1>1, <1>2
<1>5. UNCHANGED <<asked, world>> => HandlerInv' BY <1>3, <1>4, EveryoneOK
<1> QED BY <1>4, <1>5

LEMMA JoinOK == ASSUME HandlerInv, NEW q \in Requests, GetSlow(q) PROVE HandlerInv' /\ Goes(q)
<1> DEFINE r == [req[q] EXCEPT !.at = "flight"]
<1>1. req' = [req EXCEPT ![q] = r] BY DEF GetSlow, HandlerInv, HandlersTyped
<1>2. req[q] \in Handlers /\ HandlerOK(req[q], asked[q], world[q]) /\ req[q].at = "join"
  BY DEF GetSlow, HandlerInv, HandlersTyped, HandlersOK
<1>3. r \in Handlers /\ r.at = "flight" /\ r.kind = req[q].kind /\ r.result = req[q].result
      /\ r.slot = req[q].slot /\ r.inst = req[q].inst /\ r.forced = req[q].forced
  BY <1>2 DEF Handlers
<1> HIDE DEF r
<1>4. HandlerOK(r, asked[q], world[q])
  BY <1>2, <1>3 DEF HandlerOK, Early, Replacing, Rpc, Twice
<1>5. WorldOf(q) BY WorldSame DEF GetSlow
<1>6. Goes(q) BY <1>1, <1>3, <1>4, <1>5, StageGoes DEF GetSlow, HandlerInv, HandlersTyped
<1> QED BY <1>6, GoesOK

\* The fast path: the pooled process, or nothing yet.
LEMMA GetFastOK ==
    ASSUME HandlerInv, NEW q \in Requests, GetFast(q),
           pool[poolKey(q)] \in Instances \cup {NoInst}
    PROVE /\ HandlerInv'
          /\ \A p \in Requests : \/ req'[p].inst = req[p].inst
                                 \/ /\ p = q /\ req'[q].inst = pool[poolKey(q)]
                                    /\ pool[poolKey(q)] # NoInst /\ pool' = pool
<1> DEFINE i == pool[poolKey(q)]
<1>1. /\ req[q] \in Handlers /\ HandlerOK(req[q], asked[q], world[q]) /\ req[q].at = "get"
      /\ req[q].kind # None /\ UNCHANGED <<asked, world>> /\ world[q] \in Nat
  BY DEF GetFast, HandlerInv, HandlersTyped, HandlersOK, HandlerOK
<1>2. CASE i # NoInst /\ Alive(i)
  <2>1. req' = [req EXCEPT ![q] = Obtain(req[q], i)] /\ UNCHANGED pool
    BY <1>2 DEF GetFast, HandlerInv, HandlersTyped
  <2>2. /\ Obtain(req[q], i) \in Handlers /\ Obtain(req[q], i).inst = i
        /\ HandlerOK(Obtain(req[q], i), asked[q], world[q])
    BY <1>1, <1>2, Obtains, ObtainOK DEF Early
  <2>3. req' \in [Requests -> Handlers] BY <2>1, <2>2 DEF HandlerInv, HandlersTyped
  <2>4. \A p \in Requests : req'[p] = req[p] \/ (p = q /\ req'[p] = Obtain(req[q], i))
    BY <2>1 DEF HandlerInv, HandlersTyped
  <2> QED BY <1>1, <1>2, <2>1, <2>2, <2>3, <2>4, EveryoneOK
<1>3. CASE ~(i # NoInst /\ Alive(i))
  <2> DEFINE r == [req[q] EXCEPT !.at = "join"]
  <2>1. req' = [req EXCEPT ![q] = r] BY <1>3 DEF GetFast, HandlerInv, HandlersTyped
  <2>2. r \in Handlers /\ r.at = "join" /\ r.kind = req[q].kind /\ r.result = req[q].result
        /\ r.slot = req[q].slot /\ r.inst = req[q].inst /\ r.forced = req[q].forced
    BY <1>1 DEF Handlers
  <2> HIDE DEF r
  <2>3. HandlerOK(r, asked[q], world[q])
    BY <1>1, <2>2 DEF HandlerOK, Early, Replacing, Rpc, Twice
  <2>4. req' \in [Requests -> Handlers] BY <2>1, <2>2 DEF HandlerInv, HandlersTyped
  <2>5. \A p \in Requests : req'[p] = req[p] \/ (p = q /\ req'[p] = r)
    BY <2>1 DEF HandlerInv, HandlersTyped
  <2> QED BY <1>1, <2>2, <2>3, <2>4, <2>5, EveryoneOK
<1> QED BY <1>2, <1>3
-----------------------------------------------------------------------------
(***************************************************************************)
(* The pool.  A process belongs to one key from its launch on: first to    *)
(* the flight that started it, where nobody else knows it, then to the     *)
(* map, then only to the handlers that still use it.                       *)
(***************************************************************************)

Flights == [at : {None, "recheck", "launch", "configure", "store"},
            inst : Instances \cup {NoInst}, config : Keys \cup {None}]

PoolTyped ==
    /\ maxSize \in Nat \ {0}
    /\ pool \in [Keys -> Instances \cup {NoInst}]
    /\ proc \in [Instances -> {"unused", "up", "stopping", "dead"}]
    /\ conf \in [Instances -> Keys \cup {None}]
    /\ used \in [Instances -> Nat]
    /\ flight \in [Keys -> Flights]

Started(k) == flight[k].at \in {"configure", "store"}

\* A flight is about its own key, and the process it has started is its own.
FlightOK(k) ==
    /\ flight[k].at # None => flight[k].config = k
    /\ ~Started(k) => flight[k].inst = NoInst
    /\ Started(k) =>
         /\ flight[k].inst \in Instances /\ proc[flight[k].inst] # "unused"
         /\ \A j \in Keys : /\ pool[j] # flight[k].inst
                            /\ flight[j].inst = flight[k].inst => j = k
         /\ \A q \in Requests : req[q].inst # flight[k].inst
    /\ flight[k].at = "store" => conf[flight[k].inst] = k

FlightsOK == \A k \in Keys : FlightOK(k)

\* What a flight is about to replace is not up.
Replaceable ==
    \A k \in Keys : flight[k].at \in {"launch", "configure", "store"} =>
        pool[k] = NoInst \/ proc[pool[k]] # "up"

PoolOK == \A k \in Keys : pool[k] # NoInst => proc[pool[k]] # "unused" /\ conf[pool[k]] = k

UsersOK ==
    \A q \in Requests : req[q].inst # NoInst =>
        proc[req[q].inst] # "unused" /\ conf[req[q].inst] = poolKey(q)

UpSeen == \A i \in Instances : proc[i] = "up" => \E k \in Keys : pool[k] = i \/ flight[k].inst = i

SizeOK == Cardinality(Pooled) <= maxSize

PoolInv == PoolTyped /\ FlightsOK /\ Replaceable /\ PoolOK /\ UsersOK /\ UpSeen /\ SizeOK

BridgeInv == HandlerInv /\ PoolInv

LEMMA Positive == NoInst \notin Instances /\ None \notin Keys
BY BridgeAssumption

LEMMA KeyOfRequest == \A q \in Requests : poolKey(q) \in Keys
BY BridgeAssumption DEF poolKey

LEMMA InitPool == Init => PoolInv
<1> SUFFICES ASSUME Init PROVE PoolInv OBVIOUS
<1>1. PoolTyped BY BridgeAssumption DEF Init, PoolTyped, NoFlight, Flights
<1>2. FlightsOK /\ Replaceable /\ PoolOK /\ UsersOK /\ UpSeen
  BY DEF Init, FlightsOK, FlightOK, Replaceable, PoolOK, UsersOK, UpSeen, NoFlight, NoReq, Started
<1>3. Pooled = {} BY DEF Init, Pooled
<1>4. SizeOK BY <1>1, <1>3, FS_EmptySet DEF SizeOK, PoolTyped
<1> QED BY <1>1, <1>2, <1>4 DEF PoolInv

LEMMA Touched == ASSUME PoolTyped, NEW i \in Instances PROVE Touch(i) \in [Instances -> Nat]
<1>1. Cardinality(Instances) \in Nat BY BridgeAssumption, FS_CardinalityType
<1>2. used \in [Instances -> Nat] BY DEF PoolTyped
<1> SUFFICES ASSUME NEW j \in Instances
             PROVE (IF j = i THEN Cardinality(Instances)
                    ELSE IF used[j] > used[i] THEN used[j] - 1 ELSE used[j]) \in Nat
  BY DEF Touch
<1>3. used[j] \in Nat /\ used[i] \in Nat BY <1>2
<1> QED BY <1>1, <1>3

\* A smaller pool keeps the size.
LEMMA Fewer ==
    ASSUME PoolTyped, SizeOK, UNCHANGED maxSize, Pooled' \subseteq Pooled
    PROVE SizeOK'
<1>1. IsFiniteSet(Pooled) BY BridgeAssumption, FS_Subset DEF Pooled
<1>2. IsFiniteSet(Pooled') /\ Cardinality(Pooled') <= Cardinality(Pooled)
  BY <1>1, FS_Subset
<1>3. Cardinality(Pooled) \in Nat /\ Cardinality(Pooled') \in Nat
  BY <1>1, <1>2, FS_CardinalityType
<1> QED BY <1>2, <1>3 DEF SizeOK, PoolTyped

\* Steps of handlers that get no process.
LEMMA QuietPool ==
    ASSUME PoolInv, UNCHANGED <<maxSize, pool, proc, conf, flight>>,
           used' \in [Instances -> Nat],
           \A q \in Requests : req'[q].inst \in {req[q].inst, NoInst}
    PROVE PoolInv'
<1>1. PoolTyped' BY DEF PoolInv, PoolTyped
<1>2. FlightsOK'
  <2>1. \A k \in Keys : Started(k)' = Started(k) BY DEF Started
  <2> QED BY <2>1, Positive DEF PoolInv, FlightsOK, FlightOK
<1>3. Replaceable' /\ PoolOK' /\ UpSeen' BY DEF PoolInv, Replaceable, PoolOK, UpSeen
<1>4. UsersOK'
  <2>1. \A q \in Requests : poolKey(q)' = poolKey(q) BY DEF poolKey
  <2> QED BY <2>1 DEF PoolInv, UsersOK
<1>5. SizeOK' BY DEF PoolInv, SizeOK, Pooled
<1> QED BY <1>1, <1>2, <1>3, <1>4, <1>5 DEF PoolInv

\* A flight that others leave alone.
LEMMA FlightKept ==
    ASSUME FlightsOK, NEW k \in Keys, flight'[k] = flight[k],
           Started(k) =>
             /\ proc'[flight[k].inst] # "unused"
             /\ conf'[flight[k].inst] = conf[flight[k].inst]
             /\ \A j \in Keys : /\ pool'[j] # flight[k].inst
                                /\ j # k => flight'[j].inst # flight[k].inst
             /\ \A q \in Requests : req'[q].inst # flight[k].inst
    PROVE FlightOK(k)'
<1>1. Started(k)' = Started(k) BY DEF Started
<1>2. flight[k].at = "store" => Started(k) BY DEF Started
<1> QED BY <1>1, <1>2 DEF FlightsOK, FlightOK

LEMMA SameKey == \A q \in Requests : poolKey(q)' = poolKey(q)
BY DEF poolKey

LEMMA GetFastPool ==
    ASSUME BridgeInv, NEW q \in Requests, GetFast(q) PROVE BridgeInv'
<1> USE DEF BridgeInv, PoolInv
<1> DEFINE k == poolKey(q)
<1>1. k \in Keys /\ pool[k] \in Instances \cup {NoInst}
  BY KeyOfRequest DEF PoolTyped
<1>2. /\ HandlerInv'
      /\ \A p \in Requests : \/ req'[p].inst = req[p].inst
                             \/ /\ p = q /\ req'[q].inst = pool[k]
                                /\ pool[k] # NoInst /\ pool' = pool
  BY <1>1, GetFastOK
<1>3. UNCHANGED <<maxSize, proc, conf, flight>> BY DEF GetFast
<1>4. /\ pool' = pool \/ pool' = [pool EXCEPT ![k] = NoInst]
      /\ pool' = pool \/ pool[k] = NoInst \/ proc[pool[k]] # "up"
  BY DEF GetFast, Alive
<1>5. used' \in [Instances -> Nat]
  <2>1. CASE used' = used BY <2>1 DEF PoolTyped
  <2>2. CASE pool[k] # NoInst /\ used' = Touch(pool[k]) BY <1>1, <2>2, Touched
  <2> QED BY <2>1, <2>2 DEF GetFast
<1>6. PoolTyped' BY <1>3, <1>4, <1>5 DEF PoolTyped
<1>7. \A j \in Keys : pool'[j] = pool[j] \/ pool'[j] = NoInst BY <1>4 DEF PoolTyped
<1>8. \A j \in Keys : Started(j)' = Started(j) BY <1>3 DEF Started
<1> HIDE DEF k
<1>9. FlightsOK'
  <2> SUFFICES ASSUME NEW j \in Keys PROVE FlightOK(j)' BY DEF FlightsOK
  <2>1. Started(j) =>
          /\ flight[j].inst \in Instances /\ proc[flight[j].inst] # "unused"
          /\ \A l \in Keys : /\ pool[l] # flight[j].inst
                             /\ flight[l].inst = flight[j].inst => l = j
          /\ \A p \in Requests : req[p].inst # flight[j].inst
    BY DEF FlightsOK, FlightOK
  <2>2. ASSUME Started(j), NEW p \in Requests PROVE req'[p].inst # flight[j].inst
    <3>1. req'[p].inst = req[p].inst \/ req'[p].inst = pool[k] BY <1>2
    <3> QED BY <1>1, <2>1, <2>2, <3>1
  <2>3. ASSUME Started(j), NEW l \in Keys PROVE pool'[l] # flight[j].inst
    BY <1>7, <2>1, <2>3, Positive
  <2> QED BY <1>3, <2>1, <2>2, <2>3, FlightKept
<1>10. Replaceable' /\ PoolOK' BY <1>3, <1>7 DEF Replaceable, PoolOK
<1>11. UsersOK' BY <1>1, <1>2, <1>3, SameKey DEF UsersOK, PoolOK, k
<1>12. UpSeen'
  <2> SUFFICES ASSUME NEW i \in Instances, proc[i] = "up"
               PROVE \E j \in Keys : pool'[j] = i \/ flight[j].inst = i
    BY <1>3 DEF UpSeen
  <2>1. PICK j \in Keys : pool[j] = i \/ flight[j].inst = i BY DEF UpSeen
  <2>2. CASE pool[j] = i /\ pool'[j] # i
    <3>1. j = k /\ pool' # pool BY <1>4, <2>2 DEF PoolTyped
    <3> QED BY <1>4, <2>2, <3>1, Positive
  <2> QED BY <2>1, <2>2
<1>13. SizeOK'
  <2>1. Pooled' \subseteq Pooled BY <1>7 DEF Pooled
  <2> QED BY <1>3, <2>1, Fewer
<1> QED BY <1>2, <1>6, <1>9, <1>10, <1>11, <1>12, <1>13

LEMMA GetSlowPool ==
    ASSUME BridgeInv, NEW q \in Requests, GetSlow(q) PROVE BridgeInv'
<1> USE DEF BridgeInv, PoolInv
<1> DEFINE k == poolKey(q)
<1>1. k \in Keys /\ k = Canonical[Config[q]] BY KeyOfRequest DEF poolKey
<1>2. HandlerInv' /\ Goes(q) BY JoinOK
<1>3. \A p \in Requests : req'[p].inst \in {req[p].inst, NoInst} BY <1>2 DEF Goes
<1>4. UNCHANGED <<maxSize, pool, proc, conf, used>> BY DEF GetSlow
<1>5. CASE flight' = flight
  <2>1. used' \in [Instances -> Nat] BY <1>4 DEF PoolTyped
  <2> QED BY <1>2, <1>3, <1>4, <1>5, <2>1, QuietPool
<1>6. CASE flight[k].at = None /\ flight' = [flight EXCEPT ![k] =
                 [NoFlight EXCEPT !.at = "recheck", !.config = Canonical[Config[q]]]]
  <2> DEFINE f == [NoFlight EXCEPT !.at = "recheck", !.config = Canonical[Config[q]]]
  <2>1. f.at = "recheck" /\ f.inst = NoInst /\ f.config = k /\ f \in Flights
    BY <1>1 DEF NoFlight, Flights
  <2>2. flight'[k] = f /\ \A j \in Keys : j # k => flight'[j] = flight[j]
    BY <1>1, <1>6 DEF PoolTyped
  <2>3. flight' \in [Keys -> Flights] BY <1>6, <2>1 DEF PoolTyped
  <2> HIDE DEF f, k
  <2>4. PoolTyped' BY <1>4, <2>3 DEF PoolTyped
  <2>5. /\ ~Started(k)' /\ ~Started(k) /\ flight[k].inst = NoInst
        /\ \A j \in Keys : j # k => Started(j)' = Started(j)
    <3>1. ~Started(k) BY <1>6 DEF Started
    <3> QED BY <1>1, <2>1, <2>2, <3>1 DEF Started, FlightsOK, FlightOK
  <2>6. FlightsOK'
    <3> SUFFICES ASSUME NEW j \in Keys PROVE FlightOK(j)' BY DEF FlightsOK
    <3>1. CASE j = k BY <2>1, <2>2, <2>5, <3>1 DEF FlightOK
    <3>2. CASE j # k
      <4>1. \A l \in Keys : flight'[l].inst = flight[l].inst
        BY <2>1, <2>2, <2>5
      <4>2. Started(j) =>
              /\ flight[j].inst \in Instances /\ proc[flight[j].inst] # "unused"
              /\ \A l \in Keys : /\ pool[l] # flight[j].inst
                                 /\ flight[l].inst = flight[j].inst => l = j
              /\ \A p \in Requests : req[p].inst # flight[j].inst
        BY DEF FlightsOK, FlightOK
      <4> QED BY <1>3, <1>4, <2>2, <3>2, <4>1, <4>2, Positive, FlightKept
    <3> QED BY <3>1, <3>2
  <2>7. Replaceable' /\ PoolOK' /\ UpSeen'
    <3>1. \A j \in Keys : flight'[j].inst = flight[j].inst BY <2>1, <2>2, <2>5
    <3> QED BY <1>4, <2>1, <2>2, <3>1 DEF Replaceable, PoolOK, UpSeen
  <2>8. UsersOK' BY <1>3, <1>4, SameKey DEF UsersOK
  <2>9. SizeOK' BY <1>4 DEF SizeOK, Pooled
  <2> QED BY <1>2, <2>4, <2>6, <2>7, <2>8, <2>9
<1> QED BY <1>5, <1>6 DEF GetSlow

\* What a flight that has started a process knows of it.
LEMMA Owned ==
    ASSUME FlightsOK, NEW k \in Keys, Started(k)
    PROVE /\ flight[k].inst \in Instances /\ proc[flight[k].inst] # "unused"
          /\ \A j \in Keys : pool[j] # flight[k].inst
          /\ \A j \in Keys : flight[j].inst = flight[k].inst => j = k
          /\ \A q \in Requests : req[q].inst # flight[k].inst
BY DEF FlightsOK, FlightOK

\* A flight ends with a pooled process or with none.
LEMMA LandPool ==
    ASSUME BridgeInv, NEW k \in Keys, NEW i \in Instances \cup {NoInst}, Land(k, i),
           i = NoInst \/ i = pool[k], used' \in [Instances -> Nat],
           UNCHANGED <<maxSize, pool, conf, asked, world>>,
           proc' \in [Instances -> {"unused", "up", "stopping", "dead"}],
           \A j \in Instances : proc'[j] = proc[j] \/ (proc[j] = "up" /\ proc'[j] = "stopping"),
           flight[k].inst # NoInst => proc'[flight[k].inst] # "up"
    PROVE BridgeInv'
<1> USE DEF BridgeInv, PoolInv
<1>1. /\ HandlerInv'
      /\ \A q \in Requests : \/ req'[q].inst \in {req[q].inst, NoInst}
                             \/ i # NoInst /\ req'[q].inst = i /\ poolKey(q) = k
  BY LandOK
<1>2. NoFlight \in Flights /\ NoFlight.at = None /\ NoFlight.inst = NoInst
  BY DEF NoFlight, Flights
<1>3. flight' = [flight EXCEPT ![k] = NoFlight] BY DEF Land
<1>4. flight'[k] = NoFlight /\ \A j \in Keys : j # k => flight'[j] = flight[j]
  BY <1>3 DEF PoolTyped
<1>5. PoolTyped' BY <1>2, <1>3 DEF PoolTyped
<1>6. ASSUME NEW j \in Keys PROVE FlightOK(j)'
  <2>1. CASE j = k BY <1>2, <1>4, <2>1 DEF FlightOK, Started
  <2>2. CASE j # k
    <3>1. ASSUME Started(j)
          PROVE /\ proc'[flight[j].inst] # "unused"
                /\ \A l \in Keys : l # j => flight'[l].inst # flight[j].inst
                /\ \A q \in Requests : req'[q].inst # flight[j].inst
      BY <1>1, <1>2, <1>4, <3>1, Owned, Positive
    <3>2. Started(j) => \A l \in Keys : pool[l] # flight[j].inst BY Owned
    <3> QED BY <1>4, <2>2, <3>1, <3>2, FlightKept
  <2> QED BY <2>1, <2>2
<1>7. FlightsOK' BY <1>6 DEF FlightsOK
<1>8. Replaceable' BY <1>2, <1>4 DEF Replaceable, PoolTyped
<1>9. PoolOK' BY DEF PoolOK, PoolTyped
<1>10. UsersOK'
  <2> SUFFICES ASSUME NEW q \in Requests, req'[q].inst # NoInst
               PROVE proc'[req'[q].inst] # "unused" /\ conf[req'[q].inst] = poolKey(q)
    BY SameKey DEF UsersOK
  <2>1. req'[q].inst \in Instances BY <1>1 DEF HandlerInv, HandlersTyped, Handlers
  <2>2. CASE req'[q].inst = req[q].inst BY <2>1, <2>2 DEF UsersOK
  <2>3. CASE i # NoInst /\ req'[q].inst = i /\ poolKey(q) = k BY <2>1, <2>3 DEF PoolOK
  <2> QED BY <1>1, <2>2, <2>3
<1>11. UpSeen'
  <2> SUFFICES ASSUME NEW l \in Instances, proc'[l] = "up"
               PROVE \E j \in Keys : pool[j] = l \/ flight'[j].inst = l
    BY DEF UpSeen
  <2>1. PICK j \in Keys : pool[j] = l \/ flight[j].inst = l BY DEF UpSeen
  <2>2. flight[k].inst # l BY Positive
  <2> QED BY <1>4, <2>1, <2>2
<1>12. SizeOK' BY DEF SizeOK, Pooled
<1> QED BY <1>1, <1>5, <1>7, <1>8, <1>9, <1>10, <1>11, <1>12

\* A flight that goes on: its process is new, or stays the one it was, and it
\* was configured for the key if it was.
LEMMA FlightPool ==
    ASSUME BridgeInv, NEW k \in Keys, NEW f \in Flights,
           flight' = [flight EXCEPT ![k] = f], f.config = k,
           used' \in [Instances -> Nat],
           proc' \in [Instances -> {"unused", "up", "stopping", "dead"}],
           conf' \in [Instances -> Keys \cup {None}],
           UNCHANGED <<maxSize, pool, req, asked, world>>,
           f.inst # flight[k].inst => f.inst = NoInst \/ proc[f.inst] = "unused",
           flight[k].inst \in {NoInst, f.inst},
           f.at \in {"configure", "store"} <=> f.inst # NoInst,
           f.inst # NoInst => proc'[f.inst] # "unused",
           f.at = "store" => conf'[f.inst] = k,
           \A j \in Instances : j # f.inst => proc'[j] = proc[j] /\ conf'[j] = conf[j],
           pool[k] = NoInst \/ proc[pool[k]] # "up"
    PROVE BridgeInv'
<1> USE DEF BridgeInv, PoolInv
<1>1. flight'[k] = f /\ \A j \in Keys : j # k => flight'[j] = flight[j]
  BY DEF PoolTyped
<1>2. PoolTyped' BY DEF PoolTyped
<1>3. f.inst \in Instances \cup {NoInst} BY DEF Flights
\* Nobody else knows the process of the flight.
<1>4. ASSUME f.inst # NoInst
      PROVE /\ \A j \in Keys : pool[j] # f.inst
            /\ \A j \in Keys : j # k => flight[j].inst # f.inst
            /\ \A q \in Requests : req[q].inst # f.inst
  <2>1. CASE f.inst = flight[k].inst
    <3>1. Started(k) BY <1>4, <2>1 DEF FlightsOK, FlightOK
    <3> QED BY <2>1, <3>1, Owned
  <2>2. CASE proc[f.inst] = "unused"
    <3>1. \A j \in Keys : flight[j].inst # NoInst => Started(j) BY DEF FlightsOK, FlightOK
    <3> QED BY <1>4, <2>2, <3>1, Owned DEF PoolOK, UsersOK
  <2> QED BY <1>4, <2>1, <2>2
<1>5. ASSUME NEW j \in Keys PROVE FlightOK(j)'
  <2>1. CASE j = k
    <3>1. Started(k)' <=> f.inst # NoInst BY <1>1 DEF Started
    <3>2. \A l \in Keys : l # k /\ f.inst # NoInst => flight'[l].inst # f.inst
      BY <1>1, <1>4
    <3> QED BY <1>1, <1>3, <1>4, <2>1, <3>1, <3>2 DEF FlightOK, Started
  <2>2. CASE j # k
    <3>1. ASSUME Started(j)
          PROVE /\ flight[j].inst # f.inst /\ flight[j].inst \in Instances
                /\ proc[flight[j].inst] # "unused"
                /\ \A l \in Keys : pool[l] # flight[j].inst
                /\ \A l \in Keys : l # j => flight[l].inst # flight[j].inst
                /\ \A q \in Requests : req[q].inst # flight[j].inst
      <4>1. flight[j].inst # NoInst BY <3>1, Owned, Positive
      <4>2. flight[j].inst # f.inst
        <5>1. CASE f.inst = NoInst BY <4>1, <5>1
        <5>2. CASE f.inst # NoInst BY <1>4, <2>2, <5>2
        <5> QED BY <5>1, <5>2
      <4> QED BY <3>1, <4>2, Owned
    <3> QED BY <1>1, <2>2, <3>1, FlightKept
  <2> QED BY <2>1, <2>2
<1>6. FlightsOK' BY <1>5 DEF FlightsOK
<1>7. \A j \in Keys : pool[j] # NoInst =>
          proc'[pool[j]] = proc[pool[j]] /\ conf'[pool[j]] = conf[pool[j]]
  BY <1>4 DEF PoolTyped
<1>8. \A q \in Requests : req[q].inst # NoInst =>
          proc'[req[q].inst] = proc[req[q].inst] /\ conf'[req[q].inst] = conf[req[q].inst]
  BY <1>4 DEF HandlerInv, HandlersTyped, Handlers
<1>9. Replaceable' BY <1>1, <1>7 DEF Replaceable
<1>10. PoolOK' BY <1>7 DEF PoolOK
<1>11. UsersOK' BY <1>8, SameKey DEF UsersOK
<1>12. UpSeen'
  <2> SUFFICES ASSUME NEW l \in Instances, proc'[l] = "up"
               PROVE \E j \in Keys : pool[j] = l \/ flight'[j].inst = l
    BY DEF UpSeen
  <2>1. CASE l = f.inst BY <1>1, <2>1
  <2>2. CASE l # f.inst
    <3>1. PICK j \in Keys : pool[j] = l \/ flight[j].inst = l BY <2>2 DEF UpSeen
    <3>2. flight[k].inst # l BY <2>2, Positive
    <3> QED BY <1>1, <3>1, <3>2
  <2> QED BY <2>1, <2>2
<1>13. SizeOK' BY DEF SizeOK, Pooled
<1>14. HandlerInv' BY DEF HandlerInv, HandlersTyped, HandlersOK
<1> QED BY <1>2, <1>6, <1>9, <1>10, <1>11, <1>12, <1>13, <1>14

LEMMA RecheckPool == ASSUME BridgeInv, NEW k \in Keys, Recheck(k) PROVE BridgeInv'
<1> USE DEF BridgeInv, PoolInv
<1>1. /\ flight[k].at = "recheck" /\ flight[k] \in Flights /\ flight[k].config = k
      /\ flight[k].inst = NoInst /\ pool[k] \in Instances \cup {NoInst}
      /\ UNCHANGED <<maxSize, pool, proc, conf, asked, world>>
  BY DEF Recheck, PoolTyped, FlightsOK, FlightOK, Started
<1>2. proc' \in [Instances -> {"unused", "up", "stopping", "dead"}]
      /\ conf' \in [Instances -> Keys \cup {None}] /\ used \in [Instances -> Nat]
  BY <1>1 DEF PoolTyped
<1>3. CASE pool[k] # NoInst /\ Alive(pool[k])
  <2>1. Land(k, pool[k]) /\ used' = Touch(pool[k]) BY <1>3 DEF Recheck
  <2>2. used' \in [Instances -> Nat] BY <1>1, <1>3, <2>1, Touched
  <2> QED BY <1>1, <1>2, <2>1, <2>2, LandPool
<1>4. CASE ~(pool[k] # NoInst /\ Alive(pool[k]))
  <2> DEFINE f == [flight[k] EXCEPT !.at = "launch"]
  <2>1. flight' = [flight EXCEPT ![k] = f] /\ UNCHANGED <<req, used>>
    BY <1>4 DEF Recheck, PoolTyped
  <2>2. f \in Flights /\ f.at = "launch" /\ f.inst = NoInst /\ f.config = k
    BY <1>1 DEF Flights
  <2>3. pool[k] = NoInst \/ proc[pool[k]] # "up" BY <1>4 DEF Alive
  <2> HIDE DEF f
  <2> QED BY <1>1, <1>2, <2>1, <2>2, <2>3, FlightPool
<1> QED BY <1>3, <1>4

LEMMA LaunchPool ==
    ASSUME BridgeInv, NEW k \in Keys, NEW i \in Instances, Launch(k, i) PROVE BridgeInv'
<1> USE DEF BridgeInv, PoolInv
<1> DEFINE f == [flight[k] EXCEPT !.at = "configure", !.inst = i]
<1>1. /\ flight[k].at = "launch" /\ flight[k] \in Flights /\ flight[k].config = k
      /\ flight[k].inst = NoInst /\ proc[i] = "unused" /\ i # NoInst
      /\ proc' = [proc EXCEPT ![i] = "up"]
      /\ UNCHANGED <<maxSize, pool, conf, used, req, asked, world>>
  BY Positive DEF Launch, PoolTyped, FlightsOK, FlightOK, Started
<1>2. flight' = [flight EXCEPT ![k] = f] BY DEF Launch, PoolTyped
<1>3. f \in Flights /\ f.at = "configure" /\ f.inst = i /\ f.config = k
  BY <1>1 DEF Flights
<1>4. /\ proc' \in [Instances -> {"unused", "up", "stopping", "dead"}] /\ proc'[i] = "up"
      /\ \A j \in Instances : j # i => proc'[j] = proc[j]
      /\ conf' \in [Instances -> Keys \cup {None}] /\ used' \in [Instances -> Nat]
  BY <1>1 DEF PoolTyped
<1>5. pool[k] = NoInst \/ proc[pool[k]] # "up" BY <1>1 DEF Replaceable
<1> HIDE DEF f
<1>6. /\ f.inst # flight[k].inst => f.inst = NoInst \/ proc[f.inst] = "unused"
      /\ flight[k].inst \in {NoInst, f.inst}
      /\ f.at \in {"configure", "store"} <=> f.inst # NoInst
      /\ f.inst # NoInst => proc'[f.inst] # "unused"
      /\ f.at = "store" => conf'[f.inst] = k
      /\ \A j \in Instances : j # f.inst => proc'[j] = proc[j] /\ conf'[j] = conf[j]
  BY <1>1, <1>3, <1>4
<1>7. BridgeInv OBVIOUS
<1> HIDE DEF BridgeInv, PoolInv
<1>8. /\ UNCHANGED <<maxSize, pool, req, asked, world>>
      /\ used' \in [Instances -> Nat]
      /\ proc' \in [Instances -> {"unused", "up", "stopping", "dead"}]
      /\ conf' \in [Instances -> Keys \cup {None}]
  BY <1>1, <1>4
<1> QED BY <1>2, <1>3, <1>5, <1>6, <1>7, <1>8, FlightPool

LEMMA ConfigurePool == ASSUME BridgeInv, NEW k \in Keys, Configure(k) PROVE BridgeInv'
<1> USE DEF BridgeInv, PoolInv
<1> DEFINE i == flight[k].inst
           f == [flight[k] EXCEPT !.at = "store"]
<1>1. /\ flight[k].at = "configure" /\ flight[k] \in Flights /\ flight[k].config = k
      /\ i \in Instances /\ i # NoInst /\ proc[i] # "unused"
      /\ conf' = [conf EXCEPT ![i] = k] /\ used' = Touch(i)
      /\ UNCHANGED <<maxSize, pool, proc, req, asked, world>>
  BY Positive DEF Configure, PoolTyped, FlightsOK, FlightOK, Started
<1>2. flight' = [flight EXCEPT ![k] = f] BY DEF Configure, PoolTyped
<1>3. f \in Flights /\ f.at = "store" /\ f.inst = i /\ f.config = k
  BY <1>1 DEF Flights
<1>4. /\ proc' \in [Instances -> {"unused", "up", "stopping", "dead"}]
      /\ conf' \in [Instances -> Keys \cup {None}] /\ conf'[i] = k
      /\ \A j \in Instances : j # i => conf'[j] = conf[j]
  BY <1>1 DEF PoolTyped
<1>5. pool[k] = NoInst \/ proc[pool[k]] # "up" BY <1>1 DEF Replaceable
<1>6. used' \in [Instances -> Nat] BY <1>1, Touched
<1> HIDE DEF f
<1>7. /\ f.inst # flight[k].inst => f.inst = NoInst \/ proc[f.inst] = "unused"
      /\ flight[k].inst \in {NoInst, f.inst}
      /\ f.at \in {"configure", "store"} <=> f.inst # NoInst
      /\ f.inst # NoInst => proc'[f.inst] # "unused"
      /\ f.at = "store" => conf'[f.inst] = k
      /\ \A j \in Instances : j # f.inst => proc'[j] = proc[j] /\ conf'[j] = conf[j]
  BY <1>1, <1>3, <1>4
<1>8. BridgeInv OBVIOUS
<1> HIDE DEF BridgeInv, PoolInv
<1>9. /\ UNCHANGED <<maxSize, pool, req, asked, world>>
      /\ proc' \in [Instances -> {"unused", "up", "stopping", "dead"}]
      /\ conf' \in [Instances -> Keys \cup {None}]
  BY <1>1, <1>4
<1> QED BY <1>2, <1>3, <1>5, <1>6, <1>7, <1>8, <1>9, FlightPool

LEMMA FailsPool ==
    ASSUME BridgeInv, NEW k \in Keys, LaunchFails(k) \/ ConfigureFails(k) PROVE BridgeInv'
<1> USE DEF BridgeInv, PoolInv
<1>1. used \in [Instances -> Nat] /\ proc \in [Instances -> {"unused", "up", "stopping", "dead"}]
  BY DEF PoolTyped
<1>2. CASE LaunchFails(k)
  <2>1. flight[k].inst = NoInst /\ Land(k, NoInst)
        /\ UNCHANGED <<maxSize, pool, proc, conf, used, asked, world>>
    BY <1>2 DEF LaunchFails, FlightsOK, FlightOK, Started
  <2> QED BY <1>1, <2>1, LandPool
<1>3. CASE ConfigureFails(k)
  <2> DEFINE i == flight[k].inst
  <2>1. i \in Instances BY <1>3, Owned DEF ConfigureFails, Started
  <2>2. /\ proc' = [proc EXCEPT ![i] = IF @ = "up" THEN "stopping" ELSE @] /\ Land(k, NoInst)
        /\ UNCHANGED <<maxSize, pool, conf, used, asked, world>>
    BY <1>3 DEF ConfigureFails
  <2>3. /\ proc' \in [Instances -> {"unused", "up", "stopping", "dead"}] /\ proc'[i] # "up"
        /\ \A j \in Instances : proc'[j] = proc[j] \/ (proc[j] = "up" /\ proc'[j] = "stopping")
    BY <1>1, <2>1, <2>2
  <2> QED BY <1>1, <2>2, <2>3, LandPool
<1> QED BY <1>2, <1>3

\* Processes stop, and leave the map if they are stopped by it.
LEMMA StopPool ==
    ASSUME BridgeInv, UNCHANGED <<maxSize, conf, used, flight, req, asked, world>>,
           proc' \in [Instances -> {"unused", "up", "stopping", "dead"}],
           \A j \in Instances : \/ proc'[j] = proc[j]
                                \/ proc[j] # "unused" /\ proc'[j] \in {"stopping", "dead"},
           pool' \in [Keys -> Instances \cup {NoInst}],
           \A k \in Keys : \/ pool'[k] = pool[k]
                           \/ pool'[k] = NoInst /\ (pool[k] # NoInst => proc'[pool[k]] # "up")
    PROVE BridgeInv'
<1> USE DEF BridgeInv, PoolInv
<1>1. PoolTyped' BY DEF PoolTyped
<1>2. \A j \in Instances : /\ proc[j] # "unused" => proc'[j] # "unused"
                           /\ proc'[j] = "up" => proc[j] = "up"
  OBVIOUS
<1>3. ASSUME NEW k \in Keys PROVE FlightOK(k)'
  <2>1. ASSUME Started(k)
        PROVE /\ proc'[flight[k].inst] # "unused"
              /\ \A j \in Keys : pool'[j] # flight[k].inst
              /\ \A j \in Keys : j # k => flight[j].inst # flight[k].inst
              /\ \A q \in Requests : req[q].inst # flight[k].inst
    BY <1>2, <2>1, Owned, Positive
  <2> QED BY <2>1, FlightKept
<1>4. FlightsOK' BY <1>3 DEF FlightsOK
<1>5. Replaceable' BY <1>2 DEF Replaceable, PoolTyped
<1>6. PoolOK' BY <1>2 DEF PoolOK, PoolTyped
<1>7. UsersOK' BY <1>2, SameKey DEF UsersOK, HandlerInv, HandlersTyped, Handlers
<1>8. UpSeen' BY <1>2, Positive DEF UpSeen, PoolTyped
<1>9. SizeOK'
  <2>1. Pooled' \subseteq Pooled BY DEF Pooled
  <2> QED BY <2>1, Fewer
<1>10. HandlerInv' BY DEF HandlerInv, HandlersTyped, HandlersOK
<1> QED BY <1>1, <1>4, <1>5, <1>6, <1>7, <1>8, <1>9, <1>10

LEMMA ExitPool ==
    ASSUME BridgeInv, NEW i \in Instances, Kill(i) \/ Exit(i) PROVE BridgeInv'
<1>1. /\ proc' = [proc EXCEPT ![i] = "dead"] /\ proc[i] # "unused"
      /\ UNCHANGED <<maxSize, pool, conf, used, flight, req, asked, world>>
  BY DEF Kill, Exit
<1>2. PoolTyped BY DEF BridgeInv, PoolInv
<1>3. /\ proc' \in [Instances -> {"unused", "up", "stopping", "dead"}]
      /\ \A j \in Instances : \/ proc'[j] = proc[j]
                              \/ proc[j] # "unused" /\ proc'[j] \in {"stopping", "dead"}
      /\ pool' \in [Keys -> Instances \cup {NoInst}]
  BY <1>1, <1>2 DEF PoolTyped
<1> QED BY <1>1, <1>3, StopPool

LEMMA ShutdownPool == ASSUME BridgeInv, Shutdown PROVE BridgeInv'
<1>1. /\ pool' = [k \in Keys |-> NoInst] /\ proc' = Stopping(Keys)
      /\ UNCHANGED <<maxSize, conf, used, flight, req, asked, world>>
  BY DEF Shutdown
<1>2. PoolTyped BY DEF BridgeInv, PoolInv
<1>3. /\ proc' \in [Instances -> {"unused", "up", "stopping", "dead"}]
      /\ \A j \in Instances : \/ proc'[j] = proc[j]
                              \/ proc[j] # "unused" /\ proc'[j] \in {"stopping", "dead"}
      /\ pool' \in [Keys -> Instances \cup {NoInst}]
  BY <1>1, <1>2 DEF PoolTyped, Stopping
<1>4. \A k \in Keys : pool'[k] = NoInst /\ (pool[k] # NoInst => proc'[pool[k]] # "up")
  BY <1>1, <1>2 DEF PoolTyped, Stopping
<1> QED BY <1>1, <1>3, <1>4, StopPool

\* Some pooled process was used longest ago: the one with the fewest before it.
LEMMA OldestPooled ==
    ASSUME PoolTyped, Pooled # {} PROVE Oldest \in Pooled
<1> DEFINE Before(k) == {j \in Pooled : used[pool[j]] < used[pool[k]]}
           T == {Before(k) : k \in Pooled}
           R == StrictSubsetOrdering(Pooled)
<1>1. IsFiniteSet(Pooled) BY BridgeAssumption, FS_Subset DEF Pooled
<1>2. T \subseteq FiniteSubsetsOf(Pooled)
  <2> SUFFICES ASSUME NEW k \in Pooled PROVE Before(k) \in FiniteSubsetsOf(Pooled) OBVIOUS
  <2> QED BY <1>1, FS_Subset DEF FiniteSubsetsOf
<1>3. PICK B \in T : \A C \in T : <<C, B>> \notin R
  <2>1. IsWellFoundedOn(R, FiniteSubsetsOf(Pooled))
    BY <1>1, FS_StrictSubsetOrderingWellFounded
  <2>2. T # {} OBVIOUS
  <2> HIDE DEF T, R
  <2> QED BY <1>2, <2>1, <2>2, WFMin
<1>4. PICK k \in Pooled : B = Before(k) OBVIOUS
<1>5. \A j \in Pooled : used[pool[j]] \in Nat BY DEF Pooled, PoolTyped
<1>6. ASSUME NEW j \in Pooled, ~(used[pool[k]] <= used[pool[j]]) PROVE FALSE
  <2>1. used[pool[j]] < used[pool[k]] BY <1>5, <1>6
  <2>2. j \in Before(k) /\ j \notin Before(j) BY <1>5, <2>1
  <2>3. ASSUME NEW l \in Before(j) PROVE l \in Before(k)
    <3>1. l \in Pooled /\ used[pool[l]] < used[pool[j]] OBVIOUS
    <3> QED BY <1>5, <2>1, <3>1
  <2>4. <<Before(j), Before(k)>> \in R BY <2>2, <2>3 DEF StrictSubsetOrdering
  <2>5. Before(j) \in T OBVIOUS
  <2> QED BY <1>3, <1>4, <2>4, <2>5
<1> QED BY <1>6 DEF Oldest

\* A full pool makes room for one.
LEMMA RoomForOne ==
    ASSUME PoolTyped, SizeOK, NEW k \in Keys, UNCHANGED maxSize,
           Pooled' \subseteq (Pooled \ evictIfNeeded) \cup {k}
    PROVE SizeOK'
<1> DEFINE rest == Pooled \ evictIfNeeded
<1>1. IsFiniteSet(Pooled) BY BridgeAssumption, FS_Subset DEF Pooled
<1>2. Cardinality(Pooled) \in Nat BY <1>1, FS_CardinalityType
<1>3. maxSize \in Nat \ {0} /\ Cardinality(Pooled) <= maxSize BY DEF PoolTyped, SizeOK
<1>4. IsFiniteSet(rest) /\ Cardinality(rest) \in Nat /\ Cardinality(rest) < maxSize
  <2>1. CASE Cardinality(Pooled) < maxSize
    <3>1. rest = Pooled BY <2>1 DEF evictIfNeeded
    <3> QED BY <1>1, <1>2, <2>1, <3>1
  <2>2. CASE ~(Cardinality(Pooled) < maxSize)
    <3>1. Pooled # {} BY <1>2, <1>3, <2>2, FS_EmptySet
    <3>2. Oldest \in Pooled /\ rest = Pooled \ {Oldest}
      BY <2>2, <3>1, OldestPooled DEF evictIfNeeded
    <3>3. IsFiniteSet(Pooled \ {Oldest})
          /\ Cardinality(Pooled \ {Oldest}) = Cardinality(Pooled) - 1
      BY <1>1, <3>2, FS_RemoveElement
    <3>4. Cardinality(Pooled \ {Oldest}) \in Nat BY <3>3, FS_CardinalityType
    <3> HIDE DEF rest
    <3> QED BY <1>2, <1>3, <3>2, <3>3, <3>4
  <2> QED BY <2>1, <2>2
<1> HIDE DEF rest
<1>5. IsFiniteSet(rest \cup {k}) /\ Cardinality(rest \cup {k}) <= Cardinality(rest) + 1
      /\ Cardinality(rest \cup {k}) \in Nat
  <2>1. IsFiniteSet(rest \cup {k}) /\ Cardinality(rest \cup {k}) =
            IF k \in rest THEN Cardinality(rest) ELSE Cardinality(rest) + 1
    BY <1>4, FS_AddElement
  <2> QED BY <1>4, <2>1
<1>6. IsFiniteSet(Pooled') /\ Cardinality(Pooled') <= Cardinality(rest \cup {k})
  BY <1>5, FS_Subset DEF rest
<1>7. Cardinality(Pooled') \in Nat BY <1>6, FS_CardinalityType
<1> QED BY <1>3, <1>4, <1>5, <1>6, <1>7 DEF SizeOK

LEMMA StorePool == ASSUME BridgeInv, NEW k \in Keys, Store(k) PROVE BridgeInv'
<1> USE DEF BridgeInv, PoolInv
<1> DEFINE i == flight[k].inst
           gone == evictIfNeeded
<1>1. /\ flight[k].at = "store" /\ Started(k) /\ Land(k, i)
      /\ pool' = [j \in Keys |-> IF j = k THEN i ELSE IF j \in gone THEN NoInst ELSE pool[j]]
      /\ proc' = Stopping(gone)
      /\ UNCHANGED <<maxSize, conf, used, asked, world>>
  BY DEF Store, Started
<1>2. /\ i \in Instances /\ i # NoInst /\ proc[i] # "unused"
      /\ \A j \in Keys : pool[j] # i
      /\ \A j \in Keys : flight[j].inst = i => j = k
      /\ \A q \in Requests : req[q].inst # i
  BY <1>1, Owned, Positive
<1>3. conf[i] = k BY <1>1 DEF FlightsOK, FlightOK
<1>4. gone \subseteq Pooled
  <2>1. CASE Cardinality(Pooled) < maxSize BY <2>1 DEF evictIfNeeded
  <2>2. CASE ~(Cardinality(Pooled) < maxSize)
    <3>1. IsFiniteSet(Pooled) BY BridgeAssumption, FS_Subset DEF Pooled
    <3>2. Cardinality(Pooled) \in Nat /\ maxSize \in Nat \ {0}
      BY <3>1, FS_CardinalityType DEF PoolTyped
    <3>3. Pooled # {} BY <2>2, <3>2, FS_EmptySet
    <3> QED BY <2>2, <3>3, OldestPooled DEF evictIfNeeded
  <2> QED BY <2>1, <2>2
<1> HIDE DEF gone, i
<1>5. /\ proc' \in [Instances -> {"unused", "up", "stopping", "dead"}]
      /\ \A j \in Instances : \/ proc'[j] = proc[j]
                              \/ proc[j] = "up" /\ proc'[j] = "stopping"
      /\ \A j \in gone : proc'[pool[j]] # "up"
  BY <1>1, <1>4 DEF PoolTyped, Stopping, Pooled
<1>6. /\ HandlerInv'
      /\ \A q \in Requests : \/ req'[q].inst \in {req[q].inst, NoInst}
                             \/ req'[q].inst = i /\ poolKey(q) = k
  BY <1>1, <1>2, LandOK
<1>7. NoFlight \in Flights /\ NoFlight.at = None /\ NoFlight.inst = NoInst
  BY DEF NoFlight, Flights
<1>8. flight' = [flight EXCEPT ![k] = NoFlight] BY <1>1 DEF Land
<1>9. flight'[k] = NoFlight /\ \A j \in Keys : j # k => flight'[j] = flight[j]
  BY <1>8 DEF PoolTyped
<1>10. PoolTyped' BY <1>1, <1>2, <1>5, <1>7, <1>8 DEF PoolTyped
<1>11. pool'[k] = i /\ \A j \in Keys : j # k => pool'[j] \in {pool[j], NoInst}
  BY <1>1
<1>12. ASSUME NEW j \in Keys PROVE FlightOK(j)'
  <2>1. CASE j = k BY <1>7, <1>9, <2>1 DEF FlightOK, Started
  <2>2. CASE j # k
    <3>1. ASSUME Started(j)
          PROVE /\ flight[j].inst \in Instances /\ flight[j].inst # i
                /\ proc'[flight[j].inst] # "unused"
      BY <1>2, <1>5, <2>2, <3>1, Owned
    <3>2. ASSUME Started(j), NEW l \in Keys
          PROVE pool'[l] # flight[j].inst /\ (l # j => flight'[l].inst # flight[j].inst)
      <4>1. flight[j].inst # NoInst BY <3>1, <3>2, Positive
      <4>2. pool[l] # flight[j].inst /\ (flight[l].inst = flight[j].inst => l = j)
        BY <3>2, Owned
      <4> QED BY <1>7, <1>9, <1>11, <3>1, <3>2, <4>1, <4>2
    <3>3. ASSUME Started(j), NEW q \in Requests PROVE req'[q].inst # flight[j].inst
      <4>1. flight[j].inst # NoInst BY <3>1, <3>3, Positive
      <4>2. req[q].inst # flight[j].inst BY <3>3, Owned
      <4> QED BY <1>6, <3>1, <3>3, <4>1, <4>2
    <3> QED BY <1>1, <1>9, <2>2, <3>1, <3>2, <3>3, FlightKept
  <2> QED BY <2>1, <2>2
<1>13. FlightsOK' BY <1>12 DEF FlightsOK
<1>14. Replaceable'
  <2> SUFFICES ASSUME NEW j \in Keys, flight'[j].at \in {"launch", "configure", "store"}
               PROVE pool'[j] = NoInst \/ proc'[pool'[j]] # "up"
    BY DEF Replaceable
  <2>1. j # k /\ flight'[j] = flight[j] BY <1>7, <1>9
  <2>2. pool[j] = NoInst \/ proc[pool[j]] # "up" BY <2>1 DEF Replaceable
  <2> QED BY <1>5, <1>11, <2>1, <2>2 DEF PoolTyped
<1>15. PoolOK'
  <2> SUFFICES ASSUME NEW j \in Keys, pool'[j] # NoInst
               PROVE proc'[pool'[j]] # "unused" /\ conf[pool'[j]] = j
    BY <1>1 DEF PoolOK
  <2>1. CASE j = k BY <1>2, <1>3, <1>5, <1>11, <2>1
  <2>2. CASE j # k BY <1>5, <1>11, <2>2 DEF PoolOK, PoolTyped
  <2> QED BY <2>1, <2>2
<1>16. UsersOK'
  <2> SUFFICES ASSUME NEW q \in Requests, req'[q].inst # NoInst
               PROVE proc'[req'[q].inst] # "unused" /\ conf[req'[q].inst] = poolKey(q)
    BY <1>1, SameKey DEF UsersOK
  <2>1. req'[q].inst \in Instances BY <1>6 DEF HandlerInv, HandlersTyped, Handlers
  <2>2. CASE req'[q].inst = req[q].inst BY <1>5, <2>1, <2>2 DEF UsersOK
  <2>3. CASE req'[q].inst = i /\ poolKey(q) = k BY <1>2, <1>3, <1>5, <2>3
  <2> QED BY <1>6, <2>2, <2>3
\* What was up is still pooled, was evicted, or is the flight's own.
<1>17. UpSeen'
  <2> SUFFICES ASSUME NEW l \in Instances, proc'[l] = "up"
               PROVE \E j \in Keys : pool'[j] = l \/ flight'[j].inst = l
    BY DEF UpSeen
  <2>1. proc[l] = "up" BY <1>5
  <2>2. PICK j \in Keys : pool[j] = l \/ flight[j].inst = l BY <2>1 DEF UpSeen
  <2>3. CASE pool[j] = l
    <3>1. l # NoInst BY Positive
    <3>2. j # k BY <1>1, <2>1, <2>3, <3>1 DEF Replaceable
    <3>3. j \notin gone BY <1>5, <2>3
    <3>4. pool'[j] = l BY <1>1, <2>3, <3>2, <3>3
    <3> QED BY <3>4
  <2>4. CASE flight[j].inst = l
    <3>1. CASE j = k BY <1>11, <2>4, <3>1 DEF i
    <3>2. CASE j # k BY <1>9, <2>4, <3>2
    <3> QED BY <3>1, <3>2
  <2> QED BY <2>2, <2>3, <2>4
<1>18. SizeOK'
  <2>1. Pooled' \subseteq (Pooled \ gone) \cup {k} BY <1>1 DEF Pooled
  <2> QED BY <1>1, <2>1, RoomForOne DEF gone
<1> QED BY <1>6, <1>10, <1>13, <1>14, <1>15, <1>16, <1>17, <1>18

LEMMA RequestsPool ==
    ASSUME BridgeInv, NEW q \in Requests, Arrive(q) \/ Enter(q) \/ GiveUp(q) \/ CallStep(q)
    PROVE BridgeInv'
<1> USE DEF BridgeInv, PoolInv
<1>1. Goes(q) BY ArriveGoes, EnterGoes, GiveUpGoes, CallGoes
<1>2. HandlerInv' BY <1>1, GoesOK
<1>3. \A p \in Requests : req'[p].inst \in {req[p].inst, NoInst} BY <1>1 DEF Goes
<1>4. /\ UNCHANGED <<maxSize, pool, proc, conf, flight>>
      /\ used' = used \/ (Enter(q) /\ used' = Touch(req[q].inst))
  BY DEF Arrive, Enter, GiveUp, CallStep, Query, Read, RePlan, Apply, DestroyPlan,
     DestroyApply, CreatePlan, CreateApply, CallFails
<1>5. used' \in [Instances -> Nat]
  <2>1. CASE used' = used BY <2>1 DEF PoolTyped
  <2>2. CASE Enter(q) /\ used' = Touch(req[q].inst)
    <3>1. req[q].inst \in Instances
      BY <2>2 DEF Enter, HandlerInv, HandlersTyped, HandlersOK, HandlerOK, Handlers
    <3> QED BY <2>2, <3>1, Touched
  <2> QED BY <1>4, <2>1, <2>2
<1> QED BY <1>2, <1>3, <1>4, <1>5, QuietPool

LEMMA OthersPool ==
    ASSUME BridgeInv, Extracted \/ ExtractFails \/ \E q \in Requests : Drift(q)
    PROVE BridgeInv'
<1> USE DEF BridgeInv, PoolInv
<1>1. HandlerInv' BY ExtractedOK, ExtractFailsOK, DriftOK
<1>2. UNCHANGED <<maxSize, pool, proc, conf, used, flight>>
  BY DEF Extracted, ExtractFails, Drift
<1>3. used' \in [Instances -> Nat] BY <1>2 DEF PoolTyped
<1>4. ASSUME NEW p \in Requests PROVE req'[p].inst \in {req[p].inst, NoInst}
  <2>0. req[p] \in Handlers BY DEF HandlerInv, HandlersTyped
  <2>1. CASE Extracted
    <3>1. req'[p] = req[p] \/ req'[p] = [req[p] EXCEPT !.at = "get"] BY <2>1 DEF Extracted
    <3> QED BY <2>0, <3>1 DEF Handlers
  <2>2. CASE ExtractFails
    <3>1. req'[p] = req[p] \/ req'[p] = Answer(req[p], "failed") BY <2>2 DEF ExtractFails
    <3> QED BY <2>0, <3>1, Answers
  <2>3. CASE \E q \in Requests : Drift(q) BY <2>3 DEF Drift
  <2> QED BY <2>1, <2>2, <2>3
<1> QED BY <1>1, <1>2, <1>3, <1>4, QuietPool

LEMMA BridgeInductive == BridgeInv /\ [Next]_vars => BridgeInv'
<1> SUFFICES ASSUME BridgeInv, [Next]_vars PROVE BridgeInv' OBVIOUS
<1>1. CASE UNCHANGED vars
  <2>1. HandlerInv' BY <1>1 DEF BridgeInv, HandlerInv, HandlersTyped, HandlersOK
  <2>2. /\ used' \in [Instances -> Nat]
        /\ \A q \in Requests : req'[q].inst \in {req[q].inst, NoInst}
    BY <1>1 DEF BridgeInv, PoolInv, PoolTyped
  <2> QED BY <1>1, <2>1, <2>2, QuietPool DEF BridgeInv
<1>2. ASSUME NEW k \in Keys, PoolStep(k) PROVE BridgeInv'
  BY <1>2, RecheckPool, LaunchPool, ConfigurePool, FailsPool, StorePool DEF PoolStep
<1>3. ASSUME NEW q \in Requests, RequestStep(q) PROVE BridgeInv'
  BY <1>3, RequestsPool, GetFastPool, GetSlowPool DEF RequestStep
<1> QED BY <1>1, <1>2, <1>3, RequestsPool, OthersPool, ExitPool, ShutdownPool DEF Next

LEMMA BridgeAlways == Spec => []BridgeInv
<1>1. Init => BridgeInv BY InitHandlers, InitPool DEF BridgeInv
<1> QED BY <1>1, BridgeInductive, PTL DEF Spec

\* The pool keeps to its size and no process is lost from sight: what the map
\* drops or overwrites is being stopped or dead, however requests race, fail
\* and evict each other's processes (Get, evictIfNeeded).
THEOREM PoolSafety == Spec => []PoolSound
<1>1. BridgeInv => PoolSound BY DEF BridgeInv, PoolInv, SizeOK, UpSeen, PoolSound
<1> QED BY <1>1, BridgeAlways, PTL

\* No request ever holds a process with another's credentials: a flight is
\* about its key from its start on, and its process is known to nobody else
\* until it is configured (Get, sf.Do, poolKey).
THEOREM IsolationSafety == Spec => []Isolation
<1>1. BridgeInv => Isolation BY DEF BridgeInv, PoolInv, UsersOK, poolKey, Isolation
<1> QED BY <1>1, BridgeAlways, PTL

\* Whatever a provider answers, and wherever a call fails, it is asked only for
\* the change that was approved, and for none once the plan has become another,
\* except where the plan made again names attributes that require a replacement
\* and is none: that goes the way of a replacement (ServeHTTP of ResourceApply).
THEOREM ApprovedSafety == Spec => []ApprovedOnly
<1>1. BridgeInv => ApprovedOnly
  BY DEF BridgeInv, HandlerInv, HandlersOK, HandlerOK, Allowed, ApprovedOnly
<1> QED BY <1>1, BridgeAlways, PTL

\* No sequence of applies, with effects that may take place although they
\* report an error, leaves two copies of a resource, but for an update of what
\* was read as null whose plan names such attributes (applyReplaceAndRespond).
THEOREM DuplicateSafety == Spec => []NoDuplicate
<1>1. BridgeInv => NoDuplicate
  BY DEF BridgeInv, HandlerInv, HandlersOK, HandlerOK, Twice, NoDuplicate
<1> QED BY <1>1, BridgeAlways, PTL

(***************************************************************************)
(* The registries of a call.  The reducer counts the attempts it has       *)
(* started or scheduled, and the wire never gets ahead of that count: each *)
(* send is an attempt, and a scheduled retry is one that is not sent yet.  *)
(***************************************************************************)

Wires == [Sends -> {"unsent", "headers", "body", "over"}]

Typed ==
    /\ inflight \in [Calls \cup Streams -> Nat]
    /\ pending \subseteq Calls
    /\ timer \in [Calls -> {"none", "timeout", "retry"}]
    /\ wire \in [Calls \cup Streams -> Wires]
    /\ settled \in [Calls -> Nat]

\* The first m sends of w have been made.
Prefix(w, m) == \A n \in Sends : w[n] # "unsent" <=> n <= m

Busy(w) == \E n \in Sends : w[n] \in {"headers", "body"}

\* The registries of call c, when it has made m sends.
CallOK(c, m) ==
    /\ Prefix(wire[c], m)
    /\ m <= maxAttempts
    /\ c \in pending <=> inflight[c] # 0
    /\ inflight[c] # 0 => timer[c] # "none" \/ Busy(wire[c])
    /\ inflight[c] # 0 => 1 <= m /\ m <= inflight[c] /\ inflight[c] <= maxAttempts
    /\ timer[c] = "retry" => m < inflight[c]
    /\ timer[c] # "none" => inflight[c] # 0
    /\ settled[c] + (IF c \in pending THEN 1 ELSE 0) <= 1

ClientInv == Typed /\ \A c \in Calls : \E m \in Nat : CallOK(c, m)

USE DEF clientVars

LEMMA SentIs ==
    ASSUME NEW c \in Calls \cup Streams, NEW m \in Nat, m <= maxAttempts, Prefix(wire[c], m)
    PROVE Sent(c) = m
<1>1. m \in Int /\ 1 \in Int /\ maxAttempts \in Nat BY ClientAssumption
<1>2. {n \in Sends : wire[c][n] # "unsent"} = 1..m
  BY <1>1 DEF Sends, Prefix
<1>3. Cardinality(1..m) = m BY <1>1, FS_Interval
<1> QED BY <1>2, <1>3 DEF Sent

LEMMA InitClient == ClientInit => ClientInv
<1> SUFFICES ASSUME ClientInit PROVE ClientInv OBVIOUS
<1>1. Typed BY DEF ClientInit, Typed, Wires
<1>2. ASSUME NEW c \in Calls PROVE CallOK(c, 0)
  <2>1. \A n \in Sends : ~(n <= 0) BY ClientAssumption DEF Sends
  <2> QED BY <2>1, ClientAssumption DEF ClientInit, CallOK, Prefix
<1> QED BY <1>1, <1>2 DEF ClientInv

\* A call that the step is not about.
LEMMA Others ==
    ASSUME NEW c \in Calls, NEW m \in Nat, CallOK(c, m),
           inflight'[c] = inflight[c], timer'[c] = timer[c], wire'[c] = wire[c],
           settled'[c] = settled[c], c \in pending' <=> c \in pending
    PROVE CallOK(c, m)'
BY DEF CallOK, Prefix, Busy

\* A send is one more.
LEMMA Posts ==
    ASSUME Typed, NEW c \in Calls, NEW m \in Nat, m < maxAttempts, Prefix(wire[c], m),
           wire' = Post(wire, c)
    PROVE /\ wire' \in [Calls \cup Streams -> Wires]
          /\ Prefix(wire'[c], m + 1) /\ Busy(wire'[c])
          /\ \A d \in (Calls \cup Streams) \ {c} : wire'[d] = wire[d]
<1>1. Sent(c) = m BY SentIs, ClientAssumption
<1>2. m + 1 \in Sends BY ClientAssumption DEF Sends
<1>3. wire' = [wire EXCEPT ![c] = [wire[c] EXCEPT ![m + 1] = "headers"]]
  BY <1>1 DEF Post, Typed
<1>4. wire[c] \in Wires BY DEF Typed
<1>5. [wire[c] EXCEPT ![m + 1] = "headers"] \in Wires BY <1>2, <1>4 DEF Wires
<1>6. wire'[c] = [wire[c] EXCEPT ![m + 1] = "headers"] BY <1>3 DEF Typed
<1>7. wire'[c][m + 1] = "headers" /\ \A n \in Sends : n # m + 1 => wire'[c][n] = wire[c][n]
  BY <1>2, <1>4, <1>6 DEF Wires
<1>8. Prefix(wire'[c], m + 1)
  <2> SUFFICES ASSUME NEW n \in Sends PROVE wire'[c][n] # "unsent" <=> n <= m + 1
    BY DEF Prefix
  <2>1. n \in Nat BY DEF Sends
  <2>2. CASE n = m + 1 BY <1>7, <2>2
  <2>3. CASE n # m + 1 BY <1>7, <2>1, <2>3 DEF Prefix
  <2> QED BY <2>2, <2>3
<1> QED BY <1>2, <1>3, <1>5, <1>7, <1>8 DEF Busy, Typed

\* A send that goes on or ends is still one that was made.
LEMMA Moves ==
    ASSUME Typed, NEW c \in Calls \cup Streams, NEW n \in Sends, wire[c][n] # "unsent",
           NEW x \in {"body", "over"}, wire' = [wire EXCEPT ![c][n] = x]
    PROVE /\ wire' \in [Calls \cup Streams -> Wires]
          /\ \A m \in Nat : Prefix(wire[c], m) => Prefix(wire'[c], m)
          /\ wire'[c][n] = x
          /\ \A d \in (Calls \cup Streams) \ {c} : wire'[d] = wire[d]
<1>1. wire[c] \in Wires BY DEF Typed
<1>2. wire' = [wire EXCEPT ![c] = [wire[c] EXCEPT ![n] = x]] BY DEF Typed
<1>3. [wire[c] EXCEPT ![n] = x] \in Wires BY <1>1 DEF Wires
<1>4. wire'[c] = [wire[c] EXCEPT ![n] = x] BY <1>2 DEF Typed
<1>5. wire'[c][n] = x /\ \A l \in Sends : l # n => wire'[c][l] = wire[c][l]
  BY <1>1, <1>4 DEF Wires
<1>6. \A m \in Nat : Prefix(wire[c], m) => Prefix(wire'[c], m)
  BY <1>5 DEF Prefix
<1> QED BY <1>2, <1>3, <1>5, <1>6 DEF Typed

(***************************************************************************)
(* What the reducer's decisions leave.                                     *)
(***************************************************************************)

\* The registries are typed and those of the other calls are what they were.
OnlyOf(c) ==
    /\ inflight' \in [Calls \cup Streams -> Nat]
    /\ pending' \subseteq Calls
    /\ timer' \in [Calls -> {"none", "timeout", "retry"}]
    /\ settled' \in [Calls -> Nat]
    /\ \A d \in Calls \ {c} :
         /\ inflight'[d] = inflight[d]
         /\ timer'[d] = timer[d]
         /\ settled'[d] = settled[d]
         /\ d \in pending' <=> d \in pending

LEMMA IgnoredOK ==
    ASSUME Typed, NEW c \in Calls, NEW m \in Nat, CallOK(c, m), inflight[c] = 0, Ignored,
           Prefix(wire'[c], m)
    PROVE OnlyOf(c) /\ CallOK(c, m)'
BY DEF Typed, CallOK, Prefix, Busy, Ignored, OnlyOf

LEMMA SettleOK ==
    ASSUME Typed, NEW c \in Calls, NEW m \in Nat, CallOK(c, m), inflight[c] # 0, Settle(c),
           Prefix(wire'[c], m)
    PROVE OnlyOf(c) /\ CallOK(c, m)'
<1>1. c \in pending BY DEF CallOK
<1>2. settled[c] = 0 BY <1>1 DEF CallOK, Typed
<1>3. inflight'[c] = 0 /\ timer'[c] = "none" /\ c \notin pending' /\ settled'[c] = 1
  BY <1>1, <1>2 DEF Settle, Typed
<1>4. CallOK(c, m)' BY <1>3 DEF CallOK, Prefix
<1>5. OnlyOf(c) BY <1>1 DEF Settle, Typed, OnlyOf
<1> QED BY <1>4, <1>5

LEMMA RetryOK ==
    ASSUME Typed, NEW c \in Calls, NEW m \in Nat, CallOK(c, m), inflight[c] # 0, MayRetry(c),
           Retry(c), Prefix(wire'[c], m)
    PROVE OnlyOf(c) /\ CallOK(c, m)'
<1>1. inflight[c] \in Nat BY DEF Typed
<1>2. /\ inflight'[c] = inflight[c] + 1 /\ timer'[c] = "retry"
      /\ pending' = pending /\ settled' = settled
  BY DEF Retry, Typed
<1>3. inflight[c] < maxAttempts BY DEF MayRetry
<1>4. CallOK(c, m)' BY <1>1, <1>2, <1>3, ClientAssumption DEF CallOK, Prefix
<1>5. OnlyOf(c) BY <1>1 DEF Retry, Typed, OnlyOf
<1> QED BY <1>4, <1>5

LEMMA ErroredOK ==
    ASSUME Typed, NEW c \in Calls, NEW m \in Nat, CallOK(c, m), NEW retryable \in BOOLEAN,
           Errored(c, retryable), Prefix(wire'[c], m)
    PROVE OnlyOf(c) /\ CallOK(c, m)'
BY IgnoredOK, SettleOK, RetryOK DEF Errored

(***************************************************************************)
(* Every step keeps the registries.                                        *)
(***************************************************************************)

\* What a step about c has to show of c and of the rest.
LEMMA StepOf ==
    ASSUME ClientInv, NEW c \in Calls, NEW m \in Nat, CallOK(c, m)', OnlyOf(c),
           wire' \in [Calls \cup Streams -> Wires],
           \A d \in (Calls \cup Streams) \ {c} : wire'[d] = wire[d]
    PROVE ClientInv'
<1>1. Typed' BY DEF OnlyOf, Typed
<1>2. ASSUME NEW d \in Calls PROVE \E l \in Nat : CallOK(d, l)'
  <2>1. CASE d = c BY <2>1
  <2>2. CASE d # c
    <3>1. PICK l \in Nat : CallOK(d, l) BY DEF ClientInv
    <3>2. CallOK(d, l)' BY <2>2, <3>1, Others DEF OnlyOf
    <3> QED BY <3>2
  <2> QED BY <2>1, <2>2
<1> QED BY <1>1, <1>2 DEF ClientInv

LEMMA Unsent ==
    ASSUME ClientInv, NEW c \in Calls, Sent(c) = 0 PROVE CallOK(c, 0)
<1>1. PICK m \in Nat : CallOK(c, m) BY DEF ClientInv
<1>2. Sent(c) = m BY <1>1, SentIs DEF CallOK
<1> QED BY <1>1, <1>2

LEMMA CallMade ==
    ASSUME ClientInv, NEW c \in Calls, NEW hasTimeout \in BOOLEAN, Call(c, hasTimeout)
    PROVE ClientInv'
<1>1. Typed /\ CallOK(c, 0) /\ settled[c] = 0 BY Unsent DEF Call, ClientInv
<1>2. Prefix(wire[c], 0) /\ 0 < maxAttempts /\ wire' = Post(wire, c)
  BY <1>1, ClientAssumption DEF CallOK, Call
<1>3. /\ wire' \in [Calls \cup Streams -> Wires]
      /\ Prefix(wire'[c], 1) /\ Busy(wire'[c])
      /\ \A d \in (Calls \cup Streams) \ {c} : wire'[d] = wire[d]
  <2>1. /\ wire' \in [Calls \cup Streams -> Wires]
        /\ Prefix(wire'[c], 0 + 1) /\ Busy(wire'[c])
        /\ \A d \in (Calls \cup Streams) \ {c} : wire'[d] = wire[d]
    BY <1>1, <1>2, Posts
  <2>2. 0 + 1 = 1 OBVIOUS
  <2> QED BY <2>1, <2>2
<1>4. /\ inflight'[c] = 1 /\ c \in pending' /\ settled'[c] = 0
      /\ timer'[c] \in {"none", "timeout"}
  BY <1>1 DEF Call, Typed
<1>5. CallOK(c, 1)' BY <1>2, <1>3, <1>4, ClientAssumption DEF CallOK, Prefix, Busy
<1>6. OnlyOf(c) BY <1>1 DEF Call, Typed, OnlyOf
<1> QED BY <1>3, <1>5, <1>6, StepOf

LEMMA CallAbortedStep ==
    ASSUME ClientInv, NEW c \in Calls, CallAborted(c) PROVE ClientInv'
<1>1. Typed /\ CallOK(c, 0) BY Unsent DEF CallAborted, ClientInv
<1>2. inflight[c] = 0 /\ c \notin pending BY <1>1 DEF CallOK
<1>3. settled'[c] = 1 /\ UNCHANGED <<inflight, pending, timer, wire>>
  BY <1>1 DEF CallAborted, Typed
<1>4. CallOK(c, 0)' BY <1>1, <1>2, <1>3 DEF CallOK, Prefix, Busy
<1>5. OnlyOf(c) BY <1>1 DEF CallAborted, Typed, OnlyOf
<1> QED BY <1>1, <1>3, <1>4, <1>5, StepOf DEF Typed

LEMMA HeadersStep ==
    ASSUME ClientInv, NEW c \in Calls, NEW n \in Sends, Headers(c, n) PROVE ClientInv'
<1>1. PICK m \in Nat : CallOK(c, m) BY DEF ClientInv
<1>2. Typed BY DEF ClientInv
<1>3. /\ wire' \in [Calls \cup Streams -> Wires] /\ wire'[c][n] = "body"
      /\ Prefix(wire'[c], m)
      /\ \A d \in (Calls \cup Streams) \ {c} : wire'[d] = wire[d]
  BY <1>1, <1>2, Moves DEF Headers, CallOK
<1>4. UNCHANGED <<inflight, pending, timer, settled>> BY DEF Headers
<1>5. Busy(wire'[c]) BY <1>3 DEF Busy
<1>6. CallOK(c, m)' BY <1>1, <1>3, <1>4, <1>5 DEF CallOK, Prefix, Busy
<1>7. OnlyOf(c) BY <1>2, <1>4 DEF Typed, OnlyOf
<1> QED BY <1>3, <1>6, <1>7, StepOf

\* A send that is over, whatever the reducer makes of it.
LEMMA EndedSend ==
    ASSUME Typed, NEW c \in Calls, NEW n \in Sends, wire[c][n] \in {"headers", "body"},
           NEW m \in Nat, CallOK(c, m), wire' = [wire EXCEPT ![c][n] = "over"]
    PROVE /\ wire' \in [Calls \cup Streams -> Wires] /\ Prefix(wire'[c], m)
          /\ \A d \in (Calls \cup Streams) \ {c} : wire'[d] = wire[d]
BY Moves DEF CallOK

LEMMA BodyReadStep ==
    ASSUME ClientInv, NEW c \in Calls, NEW n \in Sends, BodyRead(c, n) PROVE ClientInv'
<1>1. PICK m \in Nat : CallOK(c, m) BY DEF ClientInv
<1>2. Typed BY DEF ClientInv
<1>3. /\ wire' \in [Calls \cup Streams -> Wires] /\ Prefix(wire'[c], m)
      /\ \A d \in (Calls \cup Streams) \ {c} : wire'[d] = wire[d]
  BY <1>1, <1>2, EndedSend DEF BodyRead
<1>4. OnlyOf(c) /\ CallOK(c, m)'
  BY <1>1, <1>2, <1>3, IgnoredOK, SettleOK DEF BodyRead, Delivered
<1> QED BY <1>3, <1>4, StepOf

LEMMA FailStep ==
    ASSUME ClientInv, NEW c \in Calls, NEW n \in Sends, Fail(c, n) PROVE ClientInv'
<1>1. PICK m \in Nat : CallOK(c, m) BY DEF ClientInv
<1>2. Typed BY DEF ClientInv
<1>3. /\ wire' \in [Calls \cup Streams -> Wires] /\ Prefix(wire'[c], m)
      /\ \A d \in (Calls \cup Streams) \ {c} : wire'[d] = wire[d]
  BY <1>1, <1>2, EndedSend DEF Fail, OnWire
<1>4. PICK retryable \in BOOLEAN : Errored(c, retryable) BY DEF Fail
<1>5. OnlyOf(c) /\ CallOK(c, m)' BY <1>1, <1>2, <1>3, <1>4, ErroredOK
<1> QED BY <1>3, <1>5, StepOf

LEMMA TimedOutStep ==
    ASSUME ClientInv, NEW c \in Calls, TimedOut(c) PROVE ClientInv'
<1>1. PICK m \in Nat : CallOK(c, m) BY DEF ClientInv
<1>2. Typed /\ wire' = wire BY DEF ClientInv, TimedOut
<1>3. Prefix(wire'[c], m) BY <1>1, <1>2 DEF CallOK
<1>4. OnlyOf(c) /\ CallOK(c, m)' BY <1>1, <1>2, <1>3, ErroredOK DEF TimedOut
<1> QED BY <1>2, <1>4, StepOf DEF Typed

LEMMA CancelStep ==
    ASSUME ClientInv, NEW c \in Calls, Cancel(c) PROVE ClientInv'
<1>1. PICK m \in Nat : CallOK(c, m) BY DEF ClientInv
<1>2. Typed /\ wire' = wire BY DEF ClientInv, Cancel
<1>3. Prefix(wire'[c], m) BY <1>1, <1>2 DEF CallOK
<1>4. OnlyOf(c) /\ CallOK(c, m)' BY <1>1, <1>2, <1>3, IgnoredOK, SettleOK DEF Cancel
<1> QED BY <1>2, <1>4, StepOf DEF Typed

\* The scheduled attempt is sent: it was counted and not yet on the wire.
LEMMA RetryDueStep ==
    ASSUME ClientInv, NEW c \in Calls, RetryDue(c) PROVE ClientInv'
<1>1. PICK m \in Nat : CallOK(c, m) BY DEF ClientInv
<1>2. Typed BY DEF ClientInv
<1>3. /\ inflight[c] # 0 /\ inflight[c] \in Nat
      /\ m < inflight[c] /\ inflight[c] <= maxAttempts
  BY <1>1, <1>2 DEF CallOK, RetryDue, Typed
<1>4. wire' = Post(wire, c) /\ m < maxAttempts /\ Prefix(wire[c], m)
  BY <1>1, <1>3, ClientAssumption DEF RetryDue, CallOK
<1>5. /\ wire' \in [Calls \cup Streams -> Wires]
      /\ Prefix(wire'[c], m + 1) /\ Busy(wire'[c])
      /\ \A d \in (Calls \cup Streams) \ {c} : wire'[d] = wire[d]
  BY <1>2, <1>4, Posts
<1>6. timer'[c] = "none" /\ UNCHANGED <<inflight, pending, settled>>
  BY <1>2 DEF RetryDue, Typed
<1>7. CallOK(c, m + 1)'
  BY <1>1, <1>3, <1>4, <1>5, <1>6, ClientAssumption DEF CallOK, Prefix, Busy
<1>8. OnlyOf(c) BY <1>2 DEF RetryDue, Typed, OnlyOf
<1>9. m + 1 \in Nat OBVIOUS
<1> QED BY <1>5, <1>7, <1>8, <1>9, StepOf

\* A stream is no call: the registries of the calls are left alone.
LEMMA StreamStep ==
    ASSUME ClientInv, NEW c \in Streams,
           inflight' \in [Calls \cup Streams -> Nat],
           wire' \in [Calls \cup Streams -> Wires],
           \A d \in (Calls \cup Streams) \ {c} : wire'[d] = wire[d] /\ inflight'[d] = inflight[d],
           UNCHANGED <<pending, timer, settled>>
    PROVE ClientInv'
<1>1. Typed' BY DEF ClientInv, Typed
<1>2. ASSUME NEW d \in Calls PROVE \E l \in Nat : CallOK(d, l)'
  <2>1. d # c BY ClientAssumption
  <2>2. PICK l \in Nat : CallOK(d, l) BY DEF ClientInv
  <2>3. CallOK(d, l)' BY <2>1, <2>2, Others
  <2> QED BY <2>3
<1> QED BY <1>1, <1>2 DEF ClientInv

LEMMA StreamSteps ==
    ASSUME ClientInv, NEW c \in Streams,
           StreamStart(c) \/ StreamOver(c) \/ StreamAbandoned(c)
    PROVE ClientInv'
<1>1. Typed BY DEF ClientInv
<1>2. 1 \in Sends BY ClientAssumption DEF Sends
<1>3. \E x \in {"headers", "over"} : wire' = [wire EXCEPT ![c][1] = x]
  BY DEF StreamStart, StreamOver, StreamAbandoned, Post
<1>4. PICK x \in {"headers", "over"} : wire' = [wire EXCEPT ![c] = [wire[c] EXCEPT ![1] = x]]
  BY <1>1, <1>3 DEF Typed
<1>5. [wire[c] EXCEPT ![1] = x] \in Wires BY <1>1, <1>2 DEF Typed, Wires
<1>6. /\ wire' \in [Calls \cup Streams -> Wires]
      /\ \A d \in (Calls \cup Streams) \ {c} : wire'[d] = wire[d]
  BY <1>1, <1>4, <1>5 DEF Typed
<1>7. \/ inflight' = inflight
      \/ \E y \in {0, 1} : inflight' = [inflight EXCEPT ![c] = y]
  BY DEF StreamStart, StreamOver, StreamAbandoned
<1>8. /\ inflight' \in [Calls \cup Streams -> Nat]
      /\ \A d \in (Calls \cup Streams) \ {c} : inflight'[d] = inflight[d]
  BY <1>1, <1>7 DEF Typed
<1>9. UNCHANGED <<pending, timer, settled>> BY DEF StreamStart, StreamOver, StreamAbandoned
<1> QED BY <1>6, <1>8, <1>9, StreamStep

LEMMA ClientInductive == ClientInv /\ [ClientNext]_clientVars => ClientInv'
<1> SUFFICES ASSUME ClientInv, [ClientNext]_clientVars PROVE ClientInv' OBVIOUS
<1>1. CASE UNCHANGED clientVars
  BY <1>1 DEF ClientInv, Typed, CallOK, Prefix, Busy
<1>2. ASSUME NEW c \in Calls, NEW hasTimeout \in BOOLEAN, Call(c, hasTimeout)
      PROVE ClientInv'
  BY <1>2, CallMade
<1>3. ASSUME NEW c \in Calls, CallAborted(c) PROVE ClientInv' BY <1>3, CallAbortedStep
<1>4. ASSUME NEW c \in Calls, NEW n \in Sends, Headers(c, n) \/ BodyRead(c, n) \/ Fail(c, n)
      PROVE ClientInv'
  BY <1>4, HeadersStep, BodyReadStep, FailStep
<1>5. ASSUME NEW c \in Calls, TimedOut(c) \/ RetryDue(c) \/ Cancel(c) PROVE ClientInv'
  BY <1>5, TimedOutStep, RetryDueStep, CancelStep
<1>6. ASSUME NEW c \in Streams, StreamStart(c) \/ StreamOver(c) \/ StreamAbandoned(c)
      PROVE ClientInv'
  BY <1>6, StreamSteps
<1> QED BY <1>1, <1>2, <1>3, <1>4, <1>5, <1>6 DEF ClientNext

\* The reducer's map and the shell's registries agree, for any number of calls
\* and any retry policy: a caller is pending exactly while its call is in
\* flight, something is then still to come, no timer outlives its call, no
\* promise is settled twice and no call is sent too often (dispatch,
\* runEffect, shouldRetry).
THEOREM RegistriesSafety == ClientSpec => []RegistriesAgree
<1>1. ClientInv => RegistriesAgree
  <2> SUFFICES ASSUME ClientInv, NEW c \in Calls
               PROVE /\ c \in pending <=> inflight[c] # 0
                     /\ inflight[c] # 0 => timer[c] # "none" \/ OnWire(c) # {}
                     /\ timer[c] # "none" => inflight[c] # 0
                     /\ settled[c] + (IF c \in pending THEN 1 ELSE 0) <= 1
                     /\ Sent(c) <= maxAttempts
    BY DEF RegistriesAgree
  <2>1. PICK m \in Nat : CallOK(c, m) BY DEF ClientInv
  <2>2. Sent(c) <= maxAttempts BY <2>1, SentIs DEF CallOK
  <2>3. Busy(wire[c]) => OnWire(c) # {} BY DEF Busy, OnWire
  <2> QED BY <2>1, <2>2, <2>3 DEF CallOK
<1>2. ClientSpec => []ClientInv BY InitClient, ClientInductive, PTL DEF ClientSpec
<1> QED BY <1>1, <1>2, PTL
=============================================================================
