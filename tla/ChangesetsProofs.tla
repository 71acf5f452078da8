------------------------- MODULE ChangesetsProofs -------------------------
(* Proofs about Changesets, for every set of changesets, items, runs and   *)
(* clients, and every dependency relation.                                 *)
EXTENDS Changesets, TLAPS

USE DEF vars, runVars, OthersUnchanged

(* The three parts of the type invariant *)

RowsTyped ==
    /\ cs \in [Sets -> SetStatuses]
    /\ owner \in [Items -> Sets \cup {NoSet}]
    /\ edits \in [Items -> Counter]
    /\ dry \in [Items -> Actions]
    /\ \A i \in Items : owner[i] = NoSet <=> dry[i] = "none"

RunRecord == [at : {"unused", "level", "close", "cancel", "reopen", "done"},
              set : Sets \cup {NoSet}, left : SUBSET Items, snap : Snapshot]

RunsTyped ==
    /\ run \in [Runs -> RunRecord]
    /\ op \in [Runs -> [Items -> OpStates]]
    /\ opAt \in [Runs -> [Items -> Counter]]

Handler == [at : {"idle", "stage", "edit", "delete", "discard", "gate", "mark", "start"},
            set : Sets \cup {NoSet}, item : Items \cup {NoItem}, snap : Snapshot]

ReqTyped == req \in [Clients -> Handler]

LEMMA TypeParts == TypeOK <=> RowsTyped /\ RunsTyped /\ ReqTyped
BY Zenon DEF TypeOK, RowsTyped, RunsTyped, ReqTyped, RunRecord, Handler

LEMMA TypePartsNext == TypeOK' <=> RowsTyped' /\ RunsTyped' /\ ReqTyped'
BY Zenon DEF TypeOK, RowsTyped, RunsTyped, ReqTyped, RunRecord, Handler

LEMMA EmptyTyped == Empty \in Snapshot
BY ConstantsAssumption DEF Empty, Snapshot, Counter

LEMMA ReadSetTyped ==
    ASSUME RowsTyped, NEW s \in Sets PROVE ReadSet(s) \in Snapshot
BY DEF ReadSet, Members, Snapshot, RowsTyped

---------------------------------------------------------------------------
(* The handlers' records *)

\* A handler's record that names what RequestsNamed asks for.
NamedHandler ==
    {h \in Handler : /\ h.at # "idle" => h.set \in Sets
                     /\ h.at \in {"stage", "edit", "delete"} => h.item \in Items}

\* A step leaves the handlers alone or gives one of them a record of those.
ReqStep ==
    \/ UNCHANGED req
    \/ \E c \in Clients, h \in NamedHandler : req' = [req EXCEPT ![c] = h]

LEMMA HandlersKept ==
    ASSUME ReqTyped, RequestsNamed, ReqStep
    PROVE ReqTyped' /\ RequestsNamed'
BY DEF ReqTyped, RequestsNamed, ReqStep, NamedHandler

LEMMA IdleNamed == Idle \in NamedHandler
BY EmptyTyped DEF Idle, NamedHandler, Handler

LEMMA ReqShape ==
    ASSUME RowsTyped, ReqTyped, RequestsNamed, [Next]_vars PROVE ReqStep
<1>1. ASSUME NEW c \in Clients, NewRequest(c) PROVE ReqStep
  <2>1. ASSUME NEW s \in Sets, create(c, s) PROVE ReqStep
    BY <2>1 DEF create, ReqStep
  <2>2. ASSUME NEW s \in Sets, ApplyRead(c, s) PROVE ReqStep
    <3>1. [Idle EXCEPT !.at = "gate", !.set = s, !.snap = ReadSet(s)] \in NamedHandler
      BY ReadSetTyped DEF Idle, NamedHandler, Handler
    <3> QED BY <2>2, <3>1 DEF ApplyRead, ReqStep
  <2>3. ASSUME NEW s \in Sets, NEW i \in Items \cup {NoItem},
               NEW at \in {"stage", "edit", "delete", "discard"},
               at = "discard" \/ i \in Items, Begin(c, at, s, i)
        PROVE  ReqStep
    <3>1. [Idle EXCEPT !.at = at, !.set = s, !.item = i] \in NamedHandler
      BY <2>3, EmptyTyped DEF Idle, NamedHandler, Handler
    <3> QED BY <2>3, <3>1 DEF Begin, ReqStep
  <2> QED BY <1>1, <2>1, <2>2, <2>3 DEF NewRequest, Members
<1>2. ASSUME NEW c \in Clients, HandlerStep(c) PROVE ReqStep
  <2>1. CASE stageItem(c) \/ updateItem(c) \/ deleteItem(c) \/ discard(c)
    BY <2>1, IdleNamed DEF stageItem, updateItem, deleteItem, discard, ReqStep
  <2>2. ASSUME NEW at \in {"mark", "start"}, req[c].at \in {"gate", "mark"},
               req' = [req EXCEPT ![c].at = at]
        PROVE  ReqStep
    <3>1. [req[c] EXCEPT !.at = at] \in NamedHandler
      BY <2>2 DEF ReqTyped, RequestsNamed, NamedHandler, Handler
    <3>2. req' = [req EXCEPT ![c] = [req[c] EXCEPT !.at = at]]
      BY <2>2
    <3> QED BY <3>1, <3>2, Zenon DEF ReqStep
  <2>3. CASE ApplyGate(c)
    <3>1. CASE \A i \in req[c].snap.items : dry[i] \notin {"none", "pending", "deferred"}
      <4>1. req' = [req EXCEPT ![c] = [req[c] EXCEPT !.at = "mark"]]
        BY <2>3, <3>1, Zenon DEF ApplyGate
      <4>2. req[c].at = "gate"
        BY <2>3 DEF ApplyGate
      <4> QED BY <2>2, <4>1, <4>2
    <3>2. CASE ~\A i \in req[c].snap.items : dry[i] \notin {"none", "pending", "deferred"}
      <4>1. req' = [req EXCEPT ![c] = Idle]
        BY <2>3, <3>2, Zenon DEF ApplyGate
      <4> QED BY <4>1, IdleNamed DEF ReqStep
    <3> QED BY <3>1, <3>2
  <2>4. CASE ApplyMark(c)
    BY <2>2, <2>4, IdleNamed DEF ApplyMark, ReqStep
  <2>5. CASE (\E r \in Runs : ApplyStart(c, r)) \/ ApplyStartFails(c)
    BY <2>5, IdleNamed DEF ApplyStart, ApplyStartFails, ReqStep
  <2> QED BY <1>2, <2>1, <2>3, <2>4, <2>5 DEF HandlerStep
<1>3. ASSUME NEW c \in Clients, Crash(c) PROVE ReqStep
  BY <1>3, IdleNamed DEF Crash, ReqStep
<1>4. ASSUME NEW r \in Runs, RunStep(r) PROVE UNCHANGED req
  BY <1>4 DEF RunStep, ItemStep, StartItem, StartItemFails, ForgetGone, FetchPlan, EndItem,
              LevelDone, Finish, FinishFails, reopenChangeSet
<1>5. ASSUME NEW r \in Runs, NEW i \in Items, NEW s, Decide(r, i, s) PROVE UNCHANGED req
  BY <1>5 DEF Decide
<1>6. ASSUME NEW i \in Items, NEW a, DryRunSettles(i, a) \/ DryRunReset(i) PROVE UNCHANGED req
  BY <1>6 DEF DryRunSettles, DryRunReset
<1>7. CASE UNCHANGED vars
  BY <1>7 DEF ReqStep
<1> QED BY <1>1, <1>2, <1>3, <1>4, <1>5, <1>6, <1>7 DEF Next, ReqStep

---------------------------------------------------------------------------
(* The rows *)

LEMMA RowsKept ==
    ASSUME RowsTyped, RunsTyped, ReqTyped, RequestsNamed, [Next]_vars
    PROVE RowsTyped'
<1> USE DEF RowsTyped, SetStatuses, Actions
<1>1. ASSUME NEW c \in Clients, NewRequest(c) PROVE RowsTyped'
  BY <1>1 DEF NewRequest, create, ApplyRead, Begin
<1>2. ASSUME NEW c \in Clients, HandlerStep(c) PROVE RowsTyped'
  <2>1. CASE stageItem(c)
    <3>1. req[c].item \in Items /\ req[c].set \in Sets
      BY <2>1 DEF stageItem, RequestsNamed
    <3>2. 1 \in Counter
      BY ConstantsAssumption DEF Counter
    <3> QED BY <2>1, <3>1, <3>2, ConstantsAssumption DEF stageItem
  <2>2. CASE updateItem(c)
    <3>1. req[c].item \in Items
      BY <2>2 DEF updateItem, RequestsNamed
    <3>2. \A n \in Counter : n < MaxEdits => n + 1 \in Counter
      BY ConstantsAssumption DEF Counter
    <3> QED BY <2>2, <3>1, <3>2 DEF updateItem
  <2>3. CASE deleteItem(c)
    BY <2>3 DEF deleteItem, RequestsNamed
  <2>4. CASE discard(c)
    BY <2>4 DEF discard
  <2>5. CASE ApplyGate(c) \/ (\E r \in Runs : ApplyStart(c, r))
    BY <2>5 DEF ApplyGate, ApplyStart
  <2>6. CASE ApplyMark(c) \/ ApplyStartFails(c)
    BY <2>6 DEF ApplyMark, ApplyStartFails
  <2> QED BY <1>2, <2>1, <2>2, <2>3, <2>4, <2>5, <2>6 DEF HandlerStep
<1>3. ASSUME NEW c \in Clients, Crash(c) PROVE RowsTyped'
  BY <1>3 DEF Crash
<1>4. ASSUME NEW r \in Runs, RunStep(r) PROVE RowsTyped'
  <2>1. CASE LevelDone(r) \/ \E i \in Items : ItemStep(r, i)
    BY <2>1 DEF LevelDone, ItemStep, StartItem, StartItemFails, ForgetGone, FetchPlan, EndItem
  <2>2. CASE Finish(r) \/ FinishFails(r)
    BY <2>2 DEF Finish, FinishFails
  <2>3. CASE reopenChangeSet(r)
    BY <2>3 DEF reopenChangeSet
  <2> QED BY <1>4, <2>1, <2>2, <2>3 DEF RunStep
<1>5. ASSUME NEW r \in Runs, NEW i \in Items, NEW s, Decide(r, i, s) PROVE RowsTyped'
  BY <1>5 DEF Decide
<1>6. ASSUME NEW i \in Items, NEW a \in {"deferred", "error", "planned"}, DryRunSettles(i, a)
      PROVE  RowsTyped'
  BY <1>6 DEF DryRunSettles
<1>7. ASSUME NEW i \in Items, DryRunReset(i) PROVE RowsTyped'
  BY <1>7 DEF DryRunReset
<1>8. CASE UNCHANGED vars
  BY <1>8
<1> QED BY <1>1, <1>2, <1>3, <1>4, <1>5, <1>6, <1>7, <1>8 DEF Next

---------------------------------------------------------------------------
(* The runs *)

\* An operation that is made, or that goes on.
OpMoves(r, i, s) ==
    /\ \/ InLevel(r, i) /\ op[r][i] = "none"
       \/ op[r][i] \in {"waiting", "open", "applying"}
    /\ s \in OpStates \ {"none"}
    /\ SetOp(r, i, s)
    /\ UNCHANGED run
    /\ \/ UNCHANGED opAt
       \/ opAt' = [opAt EXCEPT ![r][i] = edits[i]]

\* A last step of a run: the run is over, tries the step again or reopens.
RunLeaves(r) ==
    /\ run[r].at \in {"close", "cancel", "reopen"}
    /\ \E next \in {"done", "reopen", run[r].at} : run' = [run EXCEPT ![r].at = next]
    /\ UNCHANGED <<op, opAt>>

LEMMA LastSteps ==
    ASSUME NEW r, Finish(r) \/ FinishFails(r) \/ reopenChangeSet(r)
    PROVE  RunLeaves(r)
BY DEF Finish, FinishFails, reopenChangeSet, RunGoes, RunLeaves

RunShape ==
    \/ UNCHANGED runVars
    \/ \E c \in Clients, r \in Runs : ApplyStart(c, r)
    \/ \E r \in Runs, i \in Items, s \in OpStates : OpMoves(r, i, s)
    \/ \E r \in Runs : LevelDone(r)
    \/ \E r \in Runs : RunLeaves(r)

LEMMA RunSteps == ASSUME [Next]_vars PROVE RunShape
<1> USE DEF OpStates
<1>1. ASSUME NEW c \in Clients, NewRequest(c) \/ Crash(c) PROVE UNCHANGED runVars
  BY <1>1 DEF NewRequest, create, ApplyRead, Begin, Crash
<1>2. ASSUME NEW c \in Clients, HandlerStep(c) PROVE RunShape
  BY <1>2 DEF HandlerStep, stageItem, updateItem, deleteItem, discard, ApplyGate, ApplyMark,
              ApplyStartFails, RunShape
<1>3. ASSUME NEW r \in Runs, NEW i \in Items, ItemStep(r, i) PROVE RunShape
  <2>1. CASE StartItem(r, i)
    <3>1. OpMoves(r, i, IF i \in Gated THEN "waiting" ELSE "open")
      BY <2>1 DEF StartItem, OpMoves
    <3> QED BY <3>1 DEF RunShape
  <2>2. CASE StartItemFails(r, i)
    <3>1. OpMoves(r, i, "failed")
      BY <2>2 DEF StartItemFails, OpMoves
    <3> QED BY <3>1 DEF RunShape
  <2>3. CASE ForgetGone(r, i)
    <3>1. OpMoves(r, i, "noop")
      BY <2>3 DEF ForgetGone, OpMoves
    <3> QED BY <3>1 DEF RunShape
  <2>4. CASE FetchPlan(r, i)
    <3> DEFINE s == IF i \in Cached /\ dry[i] # "planned" /\ owner[i] # NoSet
                    THEN "failed" ELSE "applying"
    <3>1. OpMoves(r, i, s)
      BY <2>4 DEF FetchPlan, OpMoves
    <3> QED BY <3>1 DEF RunShape
  <2>5. ASSUME NEW s \in {"succeeded", "failed"}, EndItem(r, i, s) PROVE RunShape
    <3>1. OpMoves(r, i, s)
      BY <2>5 DEF EndItem, OpMoves
    <3> QED BY <3>1 DEF RunShape
  <2> QED BY <1>3, <2>1, <2>2, <2>3, <2>4, <2>5 DEF ItemStep
<1>4. ASSUME NEW r \in Runs, Finish(r) \/ FinishFails(r) \/ reopenChangeSet(r) PROVE RunShape
  BY <1>4, LastSteps DEF RunShape
<1>5. ASSUME NEW r \in Runs, NEW i \in Items, NEW s \in {"open", "canceled"}, Decide(r, i, s)
      PROVE  RunShape
  <2>1. OpMoves(r, i, s)
    BY <1>5 DEF Decide, OpMoves
  <2> QED BY <2>1 DEF RunShape
<1>6. ASSUME NEW i \in Items, NEW a, DryRunSettles(i, a) \/ DryRunReset(i) PROVE UNCHANGED runVars
  BY <1>6 DEF DryRunSettles, DryRunReset
<1>7. CASE UNCHANGED vars
  BY <1>7 DEF RunShape
<1> QED BY <1>1, <1>2, <1>3, <1>4, <1>5, <1>6, <1>7, Zenon DEF Next, RunStep, RunShape

LEMMA NextAtTyped ==
    ASSUME NEW r PROVE NextAt(r) \in {"level", "close", "cancel", "reopen"}
BY DEF NextAt

LEMMA RunsTypedKept ==
    ASSUME RowsTyped, RunsTyped, ReqTyped, RequestsNamed, RunShape
    PROVE RunsTyped'
<1> USE DEF RunsTyped, RunRecord
<1>1. CASE UNCHANGED runVars
  BY <1>1
<1>2. ASSUME NEW c \in Clients, NEW r \in Runs, ApplyStart(c, r) PROVE RunsTyped'
  <2>1. req[c].set \in Sets /\ req[c].snap \in Snapshot /\ req[c].snap.items \in SUBSET Items
    BY <1>2 DEF ApplyStart, RequestsNamed, ReqTyped, Handler, Snapshot
  <2> QED BY <1>2, <2>1 DEF ApplyStart
<1>3. ASSUME NEW r \in Runs, NEW i \in Items, NEW s \in OpStates, OpMoves(r, i, s) PROVE RunsTyped'
  <2>1. run' \in [Runs -> RunRecord]
    BY <1>3 DEF OpMoves
  <2>2. op' \in [Runs -> [Items -> OpStates]]
    BY <1>3 DEF OpMoves, SetOp
  <2>3. opAt' \in [Runs -> [Items -> Counter]]
    <3>1. edits[i] \in Counter
      BY DEF RowsTyped
    <3>2. opAt' = opAt \/ opAt' = [opAt EXCEPT ![r][i] = edits[i]]
      BY <1>3 DEF OpMoves
    <3>3. opAt \in [Runs -> [Items -> Counter]]
      OBVIOUS
    <3> HIDE DEF RunsTyped
    <3>4. [opAt[r] EXCEPT ![i] = edits[i]] \in [Items -> Counter]
      BY <3>1, <3>3
    <3> QED BY <3>2, <3>3, <3>4
  <2> QED BY <2>1, <2>2, <2>3
<1>4. ASSUME NEW r \in Runs, LevelDone(r) PROVE RunsTyped'
  <2> DEFINE left == IF NextAt(r) \in {"level", "close"}
                     THEN run[r].left \ Level(run[r].left) ELSE run[r].left
  <2>1. NextAt(r) \in {"unused", "level", "close", "cancel", "reopen", "done"}
    BY NextAtTyped
  <2>2. run[r] \in RunRecord
    OBVIOUS
  <2>3. left \in SUBSET Items
    BY <2>2
  <2>4. run' = [run EXCEPT ![r] = [run[r] EXCEPT !.at = NextAt(r), !.left = left]]
    BY <1>4 DEF LevelDone
  <2> HIDE DEF left
  <2>5. [run[r] EXCEPT !.at = NextAt(r), !.left = left] \in RunRecord
    BY <2>1, <2>2, <2>3
  <2>6. run' \in [Runs -> RunRecord]
    BY <2>4, <2>5
  <2> QED BY <1>4, <2>6 DEF LevelDone
<1>5. ASSUME NEW r \in Runs, RunLeaves(r) PROVE RunsTyped'
  <2>1. run[r] \in RunRecord
    OBVIOUS
  <2>2. PICK next \in {"done", "reopen", run[r].at} : run' = [run EXCEPT ![r].at = next]
    BY <1>5 DEF RunLeaves
  <2>3. [run[r] EXCEPT !.at = next] \in RunRecord
    BY <2>1, <2>2
  <2>4. run' = [run EXCEPT ![r] = [run[r] EXCEPT !.at = next]]
    BY <2>2
  <2>5. run' \in [Runs -> RunRecord]
    BY <2>3, <2>4
  <2> QED BY <1>5, <2>5 DEF RunLeaves
<1> QED BY <1>1, <1>2, <1>3, <1>4, <1>5 DEF RunShape

\* What RunsInOrder says of one run.
RunOrdered(r) ==
    /\ \A i \in run[r].snap.items \ run[r].left :
          i \in run[r].snap.done \/ op[r][i] \in {"succeeded", "noop"}
    /\ \A i \in Items : op[r][i] # "none" => DependsOn[i] \cap run[r].left = {}
    /\ run[r].at = "unused" => \A i \in Items : op[r][i] = "none"
    /\ run[r].at = "close" => run[r].left = {}

\* A level that is done takes its items off the plan only when each of them
\* was settled with success.
LEMMA LevelSettled ==
    ASSUME RunsTyped, NEW r \in Runs, Settled(r), NextAt(r) \in {"level", "close"},
           NEW i \in Level(run[r].left) \ run[r].snap.done
    PROVE  op[r][i] \in {"succeeded", "noop"}
<1> DEFINE ends == {op[r][j] : j \in Level(run[r].left) \ run[r].snap.done}
<1>1. op[r][i] \in ends
  OBVIOUS
<1>2. "failed" \notin ends /\ "canceled" \notin ends
  <2> HIDE DEF ends
  <2>1. NextAt(r) = IF "failed" \in ends THEN "reopen"
                    ELSE IF "canceled" \in ends THEN "cancel"
                    ELSE IF run[r].left = Level(run[r].left) THEN "close" ELSE "level"
    BY Zenon DEF NextAt, ends
  <2> QED BY <2>1
<1>3. op[r][i] \in OpEnds
  BY DEF Settled
<1> HIDE DEF ends
<1> QED BY <1>1, <1>2, <1>3 DEF OpEnds

LEMMA OrderKept ==
    ASSUME RunsTyped, ReqTyped, RunsInOrder, RunShape
    PROVE RunsInOrder'
<1> SUFFICES ASSUME NEW x \in Runs PROVE RunOrdered(x)'
  BY Zenon DEF RunsInOrder, RunOrdered
<1>a. RunOrdered(x)
  BY Zenon DEF RunsInOrder, RunOrdered
<1>1. CASE UNCHANGED runVars
  BY <1>1, <1>a DEF RunOrdered
<1>2. ASSUME NEW c \in Clients, NEW r \in Runs, ApplyStart(c, r) PROVE RunOrdered(x)'
  <2>1. op' = op /\ (x # r => run'[x] = run[x])
    BY <1>2 DEF ApplyStart, RunsTyped
  <2>2. CASE x = r
    <3>1. run'[x].snap.items = run'[x].left /\ run'[x].at = "level"
      BY <1>2, <2>2 DEF ApplyStart, RunsTyped
    <3>2. \A i \in Items : op[x][i] = "none"
      BY <1>2, <1>a, <2>2 DEF ApplyStart, RunOrdered
    <3> QED BY <2>1, <3>1, <3>2 DEF RunOrdered
  <2> QED BY <1>a, <2>1, <2>2 DEF RunOrdered
<1>3. ASSUME NEW r \in Runs, NEW i \in Items, NEW s \in OpStates, OpMoves(r, i, s)
      PROVE  RunOrdered(x)'
  <2>1. run' = run /\ s # "none"
    BY <1>3 DEF OpMoves
  <2>2. \A j \in Items : op'[x][j] = IF x = r /\ j = i THEN s ELSE op[x][j]
    BY <1>3 DEF OpMoves, SetOp, RunsTyped
  <2>3. CASE x = r
    <3>1. \/ run[x].at = "level" /\ i \in Level(run[x].left)
          \/ op[x][i] \in {"waiting", "open", "applying"}
      BY <1>3, <2>3 DEF OpMoves, InLevel
    <3>2. DependsOn[i] \cap run[x].left = {}
      BY <3>1, <1>a DEF RunOrdered, Level
    <3>3. i \in run[x].snap.items \ run[x].left => i \in run[x].snap.done
      BY <3>1, <1>a DEF RunOrdered, Level
    <3>4. run[x].at # "unused"
      BY <3>1, <1>a DEF RunOrdered
    <3>5. run[x].snap.items \subseteq Items
      BY DEF RunsTyped, RunRecord, Snapshot
    <3> QED BY <1>a, <2>1, <2>2, <2>3, <3>2, <3>3, <3>4, <3>5 DEF RunOrdered
  <2>4. CASE x # r
    <3>1. run[x].snap.items \subseteq Items
      BY DEF RunsTyped, RunRecord, Snapshot
    <3> QED BY <1>a, <2>1, <2>2, <2>4, <3>1 DEF RunOrdered
  <2> QED BY <2>3, <2>4
<1>4. ASSUME NEW r \in Runs, LevelDone(r) PROVE RunOrdered(x)'
  <2>1. op' = op /\ (x # r => run'[x] = run[x])
    BY <1>4 DEF LevelDone, RunsTyped
  <2>2. CASE x = r
    <3>1. /\ run'[x].snap = run[x].snap /\ run'[x].at = NextAt(x)
          /\ run'[x].left = IF NextAt(x) \in {"level", "close"}
                            THEN run[x].left \ Level(run[x].left) ELSE run[x].left
      BY <1>4, <2>2 DEF LevelDone, RunsTyped, RunRecord
    <3>2. run'[x].left \subseteq run[x].left
      BY <3>1
    <3>3. ASSUME NEW i \in run[x].left \ run'[x].left
          PROVE  i \in run[x].snap.done \/ op[x][i] \in {"succeeded", "noop"}
      BY <1>4, <2>2, <3>1, LevelSettled DEF LevelDone
    <3>4. NextAt(x) = "close" => run[x].left = Level(run[x].left)
      BY DEF NextAt
    <3>5. run'[x].at # "unused"
      BY <3>1, NextAtTyped
    <3> QED BY <1>a, <2>1, <3>1, <3>2, <3>3, <3>4, <3>5 DEF RunOrdered
  <2> QED BY <1>a, <2>1, <2>2 DEF RunOrdered
<1>5. ASSUME NEW r \in Runs, RunLeaves(r) PROVE RunOrdered(x)'
  <2>1. /\ op' = op /\ run'[x].snap = run[x].snap /\ run'[x].left = run[x].left
        /\ run'[x].at \in {run[x].at, "done", "reopen"}
    BY <1>5 DEF RunLeaves, RunsTyped, RunRecord
  <2> QED BY <1>a, <2>1 DEF RunOrdered
<1> QED BY <1>1, <1>2, <1>3, <1>4, <1>5, Zenon DEF RunShape

---------------------------------------------------------------------------
(* Theorems *)

LEMMA Initially == Init => IInv
<1> SUFFICES ASSUME Init PROVE IInv
  OBVIOUS
<1> USE DEF Init
<1>1. 0 \in Counter
  BY ConstantsAssumption DEF Counter
<1>2. RowsTyped
  BY <1>1 DEF RowsTyped, SetStatuses, Actions
<1>3. RunsTyped
  BY <1>1, EmptyTyped DEF RunsTyped, RunRecord, Unused, OpStates
<1>4. ReqTyped
  BY EmptyTyped DEF ReqTyped, Handler, Idle
<1>5. RequestsNamed
  BY DEF RequestsNamed, Idle
<1>6. RunsInOrder
  BY DEF RunsInOrder, Unused, Empty
<1> QED BY <1>2, <1>3, <1>4, <1>5, <1>6, TypeParts DEF IInv

LEMMA Inductive == IInv /\ [Next]_vars => IInv'
<1> SUFFICES ASSUME IInv, [Next]_vars PROVE IInv'
  OBVIOUS
<1>1. RowsTyped /\ RunsTyped /\ ReqTyped /\ RequestsNamed /\ RunsInOrder
  BY TypeParts DEF IInv
<1>2. ReqTyped' /\ RequestsNamed'
  BY <1>1, ReqShape, HandlersKept
<1>3. RowsTyped'
  BY <1>1, RowsKept
<1>4. RunsTyped' /\ RunsInOrder'
  BY <1>1, RunSteps, RunsTypedKept, OrderKept
<1> QED BY <1>2, <1>3, <1>4, TypePartsNext DEF IInv

\* The strengthening holds in every reachable state.
THEOREM Invariance == Spec => []IInv
BY Initially, Inductive, PTL DEF Spec

\* Every variable keeps its type, whatever handlers and runs do
\* (changesets.ts, workflows/index.ts, workflows/steps.ts).
THEOREM TypeCorrect == Spec => []TypeOK
<1>1. IInv => TypeOK
  BY DEF IInv
<1> QED BY <1>1, Invariance, PTL

\* For any dependency relation, any number of concurrent applies, edits and
\* crashes: an item is operated on only after everything it depends on was
\* applied by this run or before it (the levels of applyChangeSetWorkflow).
THEOREM OrderSafety == Spec => []DependenciesApplied
<1>1. IInv => DependenciesApplied
  <2> SUFFICES ASSUME IInv, NEW r \in Runs, NEW i \in Items, op[r][i] # "none",
                      NEW j \in DependsOn[i] \cap run[r].snap.items
               PROVE  j \in run[r].snap.done \/ op[r][j] \in {"succeeded", "noop"}
    BY DEF DependenciesApplied
  <2>1. j \notin run[r].left
    BY DEF IInv, RunsInOrder
  <2> QED BY <2>1 DEF IInv, RunsInOrder
<1> QED BY <1>1, Invariance, PTL

\* A run that is about to close its changeset has applied every item it took
\* (closeChangeSet is reached only past the last level).
THEOREM CompleteSafety == Spec => []RunComplete
<1>1. IInv => RunComplete
  BY DEF IInv, RunsInOrder, RunComplete
<1> QED BY <1>1, Invariance, PTL

---------------------------------------------------------------------------
(* One client.  When requests come one after another, nothing a handler or *)
(* a run has read changes under it: the statuses, rows and successes its   *)
(* snapshot tells of are those of the tables until it has ended.  Handlers *)
(* may still die, the writes of apply and of the run's ends may throw, and *)
(* runs of several changesets go on side by side.  What must not happen is *)
(* that reopenChangeSet commits, throws and is written again later: its    *)
(* user may have gone on with the draft meanwhile.                         *)

OneAtATime ==
    /\ \A c, d \in Clients : c = d
    /\ "reopen" \notin MayThrow

\* What a run at its present step may find its changeset to be: applying, or
\* what an earlier try of its last step made of it.
Standing(at) ==
    {"applying"} \cup (IF at \in {"close", "reopen"} THEN {"applied"} ELSE {})
                 \cup (IF at \in {"cancel", "reopen"} THEN {"canceled"} ELSE {})

\* The snapshot is what the tables hold of the set.
Kept(q, s) ==
    /\ q.items = Members(s)
    /\ \A i \in q.items : q.seen[i] = edits[i]

\* A run under way has its changeset to itself.
RunAlone(r) ==
    LET s == run[r].set
        q == run[r].snap
    IN  Active(r) =>
          /\ s \in Sets /\ cs[s] \in Standing(run[r].at)
          /\ Kept(q, s)
          /\ run[r].left \subseteq q.items
          /\ q.done \subseteq q.items /\ \A i \in q.done : CurrentSuccess(i)
          /\ \A i \in q.items \ q.done : CurrentSuccess(i) => op[r][i] = "succeeded"
          /\ \A x \in Runs : Active(x) /\ run[x].set = s => x = r

\* What assertDraft, or the read of the changeset, saw is still so.
HandlerAlone(c) ==
    LET h == req[c] IN
    /\ h.at \in {"stage", "edit", "delete", "discard", "gate", "mark"} => cs[h.set] = "draft"
    /\ h.at = "stage" => edits[h.item] = 0
    /\ h.at \in {"edit", "delete"} => owner[h.item] = h.set
    /\ h.at = "start" => /\ cs[h.set] = "applying"
                         /\ \A r \in Runs : Active(r) => run[r].set # h.set
    /\ h.at \in {"gate", "mark", "start"} =>
         /\ Kept(h.snap, h.set)
         /\ h.snap.done = {i \in h.snap.items : CurrentSuccess(i)}

\* An operation is of an item its run took and does not skip; one under way
\* is of the present level, and ran against the content its run has seen.
OpAlone(r, i) ==
    /\ op[r][i] # "none" => i \in run[r].snap.items \ run[r].snap.done
    /\ op[r][i] \in {"waiting", "open", "applying"} =>
         run[r].at = "level" /\ i \in Level(run[r].left)
    /\ op[r][i] \in {"waiting", "open", "applying", "succeeded"} =>
         opAt[r][i] = run[r].snap.seen[i]

RowsWritten == \A i \in Items : owner[i] # NoSet => edits[i] # 0
RunsAlone == \A r \in Runs : RunAlone(r)
HandlersAlone == \A c \in Clients : HandlerAlone(c)
OpsAlone == \A r \in Runs, i \in Items : OpAlone(r, i)

SerialInv ==
    /\ OneAtATime
    /\ IInv
    /\ RowsWritten
    /\ RunsAlone
    /\ HandlersAlone
    /\ OpsAlone
    /\ AppliedIsComplete

LEMMA SerialInitially == Init /\ OneAtATime => SerialInv
<1> SUFFICES ASSUME Init, OneAtATime PROVE SerialInv
  OBVIOUS
<1>1. IInv
  BY Initially
<1>2. RowsWritten /\ RunsAlone /\ HandlersAlone /\ OpsAlone /\ AppliedIsComplete
  BY DEF Init, RowsWritten, RunsAlone, RunAlone, Active, HandlersAlone, HandlerAlone, OpsAlone,
         OpAlone, AppliedIsComplete, Unused, Idle
<1> QED BY <1>1, <1>2 DEF SerialInv

\* What the steps need of the types.
LEMMA SerialTypes ==
    ASSUME IInv
    PROVE  /\ RowsTyped /\ RunsTyped /\ ReqTyped /\ RequestsNamed /\ RunsInOrder
           /\ \A r \in Runs : run[r].snap.items \subseteq Items
           /\ \A c \in Clients : req[c].snap.items \subseteq Items
           /\ NoSet \notin Sets
<1>1. RowsTyped /\ RunsTyped /\ ReqTyped /\ RequestsNamed /\ RunsInOrder
  BY TypeParts DEF IInv
<1>2. \A r \in Runs : run[r].snap.items \subseteq Items
  BY <1>1 DEF RunsTyped, RunRecord, Snapshot
<1>3. \A c \in Clients : req[c].snap.items \subseteq Items
  BY <1>1 DEF ReqTyped, Handler, Snapshot
<1> QED BY <1>1, <1>2, <1>3, ConstantsAssumption

(* Steps that change nothing but the handler *)

LEMMA HandlerReads ==
    ASSUME SerialInv, NEW c \in Clients, NewRequest(c) \/ ApplyGate(c) \/ Crash(c),
           UNCHANGED cs
    PROVE  (RowsWritten /\ RunsAlone /\ HandlersAlone /\ OpsAlone /\ AppliedIsComplete)'
<1>t. RowsTyped /\ ReqTyped /\ RequestsNamed
  BY SerialTypes DEF SerialInv
<1>1. UNCHANGED <<cs, owner, edits, run, op, opAt>>
  BY DEF NewRequest, create, ApplyRead, Begin, ApplyGate, Crash
<1>2. \A i : CurrentSuccess(i)' = CurrentSuccess(i)
  BY <1>1 DEF CurrentSuccess
<1>3. (RowsWritten /\ RunsAlone /\ OpsAlone /\ AppliedIsComplete)'
  BY <1>1 DEF SerialInv, RowsWritten, RunsAlone, RunAlone, Active, Kept, OpsAlone, OpAlone,
              AppliedIsComplete, CurrentSuccess, Members
<1>4. HandlerAlone(c)'
  <2>1. CASE ApplyGate(c)
    <3>1. HandlerAlone(c)
      BY DEF SerialInv, HandlersAlone
    <3>2. \/ req'[c] = Idle
          \/ /\ req[c].at = "gate"
             /\ req'[c] = [req[c] EXCEPT !.at = "mark"]
      BY <1>t, <2>1 DEF ApplyGate, ReqTyped
    <3>3. CASE req'[c] = Idle
      BY <3>3 DEF HandlerAlone, Idle
    <3>4. CASE req[c].at = "gate" /\ req'[c] = [req[c] EXCEPT !.at = "mark"]
      <4>1. /\ req'[c].at = "mark" /\ req'[c].set = req[c].set
            /\ req'[c].snap = req[c].snap
        BY <1>t, <3>4 DEF ReqTyped, Handler
      <4> QED BY <1>1, <1>2, <3>1, <3>4, <4>1 DEF HandlerAlone, Kept, Members
    <3> QED BY <3>2, <3>3, <3>4
  <2>2. CASE Crash(c)
    BY <1>t, <2>2 DEF Crash, ReqTyped, HandlerAlone, Idle
  <2>3. ASSUME NEW s \in Sets, ApplyRead(c, s) PROVE HandlerAlone(c)'
    <3>1. /\ req'[c].at = "gate" /\ req'[c].set = s /\ req'[c].snap = ReadSet(s)
          /\ cs[s] = "draft"
      BY <1>t, <2>3 DEF ApplyRead, ReqTyped, Idle
    <3> QED BY <1>1, <1>2, <3>1 DEF HandlerAlone, Kept, Members, ReadSet
  <2>4. ASSUME NEW s \in Sets, NEW i, NEW at \in {"stage", "edit", "delete", "discard"},
               at = "stage" => edits[i] = 0,
               at \in {"edit", "delete"} => owner[i] = s, Begin(c, at, s, i)
        PROVE  HandlerAlone(c)'
    <3>1. req'[c].at = at /\ req'[c].set = s /\ req'[c].item = i /\ cs[s] = "draft"
      BY <1>t, <2>4 DEF Begin, ReqTyped, Idle
    <3> QED BY <1>1, <2>4, <3>1 DEF HandlerAlone
  <2>5. ASSUME NEW s \in Sets PROVE ~create(c, s)
    BY <1>t DEF create, RowsTyped
  <2> QED BY <2>1, <2>2, <2>3, <2>4, <2>5 DEF NewRequest, Members
<1>5. HandlersAlone'
  BY <1>4 DEF SerialInv, OneAtATime, HandlersAlone
<1> QED BY <1>3, <1>5

(* Steps that write one item of the handler's draft *)

\* What stageItem, updateItem and deleteItem have in common: the item was
\* in no changeset or in the draft, and no other item changes.
ItemWritten(c) ==
    LET i == req[c].item
        s == req[c].set
    IN  /\ i \in Items /\ s \in Sets /\ cs[s] = "draft"
        /\ owner[i] \in {NoSet, s} /\ owner'[i] \in {NoSet, s}
        /\ owner'[i] # NoSet => edits'[i] # 0
        /\ \A j \in Items \ {i} : owner'[j] = owner[j] /\ edits'[j] = edits[j]
        /\ req'[c] = Idle
        /\ UNCHANGED <<cs, run, op, opAt>>

LEMMA ItemWrites ==
    ASSUME SerialInv, NEW c \in Clients, stageItem(c) \/ updateItem(c) \/ deleteItem(c)
    PROVE  ItemWritten(c)
<1> DEFINE i == req[c].item
           s == req[c].set
<1>t. RowsTyped /\ ReqTyped /\ RequestsNamed
  BY SerialTypes DEF SerialInv
<1>1. HandlerAlone(c) /\ RowsWritten
  BY DEF SerialInv, HandlersAlone
<1>2. /\ req[c].at \in {"stage", "edit", "delete"}
      /\ UNCHANGED <<cs, run, op, opAt>>
      /\ req' = [req EXCEPT ![c] = Idle]
  BY DEF stageItem, updateItem, deleteItem
<1>3. i \in Items /\ s \in Sets /\ cs[s] = "draft"
  BY <1>t, <1>1, <1>2 DEF RequestsNamed, HandlerAlone
<1>4. req'[c] = Idle
  BY <1>t, <1>2 DEF ReqTyped
<1>5. edits[i] \in Nat
  BY <1>t, <1>3, ConstantsAssumption DEF RowsTyped, Counter
<1>6. CASE stageItem(c)
  BY <1>t, <1>1, <1>2, <1>3, <1>4, <1>6
  DEF stageItem, RowsTyped, RowsWritten, ItemWritten, HandlerAlone
<1>7. CASE updateItem(c)
  BY <1>t, <1>1, <1>2, <1>3, <1>4, <1>5, <1>7
  DEF updateItem, RowsTyped, RowsWritten, ItemWritten, HandlerAlone
<1>8. CASE deleteItem(c)
  BY <1>t, <1>1, <1>2, <1>3, <1>4, <1>8
  DEF deleteItem, RowsTyped, ItemWritten, HandlerAlone
<1> QED BY <1>6, <1>7, <1>8

LEMMA HandlerWrites ==
    ASSUME SerialInv, NEW c \in Clients, ItemWritten(c)
    PROVE  (RowsWritten /\ RunsAlone /\ HandlersAlone /\ OpsAlone /\ AppliedIsComplete)'
<1> DEFINE i == req[c].item
           s == req[c].set
<1>t. /\ RowsTyped /\ RunsTyped /\ ReqTyped /\ NoSet \notin Sets
      /\ \A r \in Runs : run[r].snap.items \subseteq Items
  BY SerialTypes DEF SerialInv
<1>1. /\ i \in Items /\ s \in Sets /\ cs[s] = "draft"
      /\ owner[i] \in {NoSet, s} /\ owner'[i] \in {NoSet, s}
      /\ \A j \in Items \ {i} : owner'[j] = owner[j] /\ edits'[j] = edits[j]
      /\ UNCHANGED <<cs, run, op, opAt>>
  BY DEF ItemWritten
<1>2. \A j \in Items : j # i => CurrentSuccess(j)' = CurrentSuccess(j)
  BY <1>1 DEF CurrentSuccess
<1>3. \A t \in Sets : t # s => Members(t)' = Members(t) /\ i \notin Members(t)
  BY <1>t, <1>1 DEF Members
<1>4. RowsWritten'
  BY <1>1 DEF SerialInv, RowsWritten, ItemWritten
<1>5. ASSUME NEW r \in Runs PROVE RunAlone(r)'
  <2>1. RunAlone(r)
    BY DEF SerialInv, RunsAlone
  <2> SUFFICES ASSUME Active(r) PROVE RunAlone(r)'
    BY <1>1 DEF RunAlone, Active
  <2>2. run[r].set \in Sets /\ run[r].set # s /\ run[r].snap.items = Members(run[r].set)
    BY <1>1, <2>1 DEF RunAlone, Kept, Standing
  <2>3. \A j \in run[r].snap.items :
           j \in Items /\ j # i /\ edits'[j] = edits[j] /\ CurrentSuccess(j)' = CurrentSuccess(j)
    BY <1>t, <1>1, <1>2, <1>3, <2>2
  <2>4. Members(run[r].set)' = Members(run[r].set)
    BY <1>1, <1>3, <2>2
  <2> QED BY <1>1, <2>1, <2>2, <2>3, <2>4 DEF RunAlone, Active, Kept
<1>6. HandlersAlone'
  BY DEF ItemWritten, SerialInv, OneAtATime, HandlersAlone, HandlerAlone, Idle
<1>7. OpsAlone'
  BY <1>1 DEF SerialInv, OpsAlone, OpAlone, Level
<1>8. AppliedIsComplete'
  <2> SUFFICES ASSUME NEW t \in Sets, cs[t] = "applied", NEW j \in Members(t)
               PROVE  \/ \E r \in Runs : /\ run[r].set = t /\ op[r][j] = "noop"
                                         /\ run[r].snap.seen[j] = edits[j]
                      \/ CurrentSuccess(j)
    <3>1. ASSUME NEW t \in Sets, cs[t] = "applied", NEW j \in Members(t)
          PROVE  t # s /\ j # i /\ j \in Items
      BY <1>1, <1>3, <3>1 DEF Members
    <3>2. \A t \in Sets : cs[t] = "applied" => Members(t)' = Members(t)
      BY <1>1, <1>3
    <3> QED BY <1>1, <1>2, <3>1, <3>2 DEF AppliedIsComplete
  <2> QED BY DEF SerialInv, AppliedIsComplete
<1> QED BY <1>4, <1>5, <1>6, <1>7, <1>8 DEF RunsAlone

(* Steps that move a changeset no run is at work on *)

StatusMoved ==
    /\ UNCHANGED <<owner, edits, run, op, opAt>>
    /\ \/ UNCHANGED cs
       \/ \E s \in Sets, to \in SetStatuses \ {"applied"} :
             /\ \A r \in Runs : Active(r) => run[r].set # s
             /\ cs' = [cs EXCEPT ![s] = to]

LEMMA StatusMoves ==
    ASSUME SerialInv, NEW c \in Clients,
           \/ \E s \in Sets : create(c, s)
           \/ discard(c)
           \/ ApplyMark(c)
           \/ ApplyStartFails(c)
    PROVE  StatusMoved /\ HandlerAlone(c)'
<1>t. RowsTyped /\ ReqTyped /\ RequestsNamed
  BY SerialTypes DEF SerialInv
<1>1. HandlerAlone(c) /\ RunsAlone
  BY DEF SerialInv, HandlersAlone
<1>2. \A s \in Sets : cs[s] \in {"absent", "draft"} => \A r \in Runs : Active(r) => run[r].set # s
  BY <1>1 DEF RunsAlone, RunAlone, Standing
<1> USE DEF SetStatuses
<1>3. ASSUME NEW s \in Sets, create(c, s) PROVE StatusMoved /\ HandlerAlone(c)'
  BY <1>2, <1>3 DEF create, StatusMoved, HandlerAlone
<1>4. CASE discard(c)
  BY <1>t, <1>1, <1>2, <1>4
  DEF discard, StatusMoved, HandlerAlone, Idle, ReqTyped, RequestsNamed
<1>5. CASE ApplyMark(c)
  <2> DEFINE s == req[c].set
  <2>1. s \in Sets /\ cs[s] = "draft" /\ cs' = [cs EXCEPT ![s] = "applying"]
    BY <1>t, <1>1, <1>5 DEF ApplyMark, HandlerAlone, RequestsNamed
  <2>2. /\ req[c].at = "mark"
        /\ \/ req'[c] = Idle
           \/ req'[c].at = "start" /\ req'[c].set = s /\ req'[c].snap = req[c].snap
    BY <1>t, <1>5 DEF ApplyMark, ReqTyped, Handler
  <2>3. UNCHANGED <<owner, edits, run, op, opAt>>
    BY <1>5 DEF ApplyMark
  <2>4. StatusMoved
    BY <1>2, <2>1, <2>3 DEF StatusMoved
  <2>5. cs'[s] = "applying" /\ \A r \in Runs : Active(r)' => run'[r].set # s
    BY <1>t, <1>2, <2>1, <2>3 DEF RowsTyped, Active
  <2>6. \A i : CurrentSuccess(i)' = CurrentSuccess(i)
    BY <2>3 DEF CurrentSuccess
  <2>7. CASE req'[c] = Idle
    BY <2>4, <2>7 DEF HandlerAlone, Idle
  <2>8. CASE req'[c].at = "start" /\ req'[c].set = s /\ req'[c].snap = req[c].snap
    <3>1. /\ Kept(req[c].snap, req[c].set)'
          /\ req'[c].snap.done = {i \in req'[c].snap.items : CurrentSuccess(i)'}
      BY <1>1, <2>2, <2>3, <2>6, <2>8 DEF HandlerAlone, Kept, Members
    <3> QED BY <2>4, <2>5, <2>8, <3>1 DEF HandlerAlone
  <2> QED BY <2>2, <2>7, <2>8
<1>6. CASE ApplyStartFails(c)
  BY <1>t, <1>1, <1>2, <1>6
  DEF ApplyStartFails, StatusMoved, HandlerAlone, Idle, ReqTyped, RequestsNamed
<1> QED BY <1>3, <1>4, <1>5, <1>6

LEMMA StatusSerial ==
    ASSUME SerialInv, StatusMoved, NEW c \in Clients, HandlerAlone(c)'
    PROVE  (RowsWritten /\ RunsAlone /\ HandlersAlone /\ OpsAlone /\ AppliedIsComplete)'
<1>t. RowsTyped
  BY SerialTypes DEF SerialInv
<1>1. UNCHANGED <<owner, edits, run, op, opAt>>
  BY DEF StatusMoved
<1>2. \A i : CurrentSuccess(i)' = CurrentSuccess(i)
  BY <1>1 DEF CurrentSuccess
<1>3. RowsWritten' /\ OpsAlone'
  BY <1>1 DEF SerialInv, RowsWritten, OpsAlone, OpAlone, Level
<1>4. HandlersAlone'
  BY DEF SerialInv, OneAtATime, HandlersAlone
<1>5. \A r \in Runs : Active(r) /\ run[r].set \in Sets => cs'[run[r].set] = cs[run[r].set]
  BY <1>t DEF StatusMoved, RowsTyped
<1>6. ASSUME NEW r \in Runs PROVE RunAlone(r)'
  <2>1. RunAlone(r)
    BY DEF SerialInv, RunsAlone
  <2> QED BY <1>1, <1>2, <1>5, <2>1 DEF RunAlone, Active, Kept, Members
<1>7. \A s \in Sets : cs'[s] = "applied" => cs[s] = "applied"
  BY <1>t DEF StatusMoved, RowsTyped
<1>8. AppliedIsComplete'
  BY <1>1, <1>2, <1>7 DEF SerialInv, AppliedIsComplete, Members
<1> QED BY <1>3, <1>4, <1>6, <1>8 DEF RunsAlone

(* A run starts *)

LEMMA StartSerial ==
    ASSUME SerialInv, NEW c \in Clients, NEW r \in Runs, ApplyStart(c, r)
    PROVE  (RowsWritten /\ RunsAlone /\ HandlersAlone /\ OpsAlone /\ AppliedIsComplete)'
<1> DEFINE h == req[c]
<1>t. /\ RowsTyped /\ RunsTyped /\ ReqTyped /\ RequestsNamed /\ RunsInOrder
      /\ \A x \in Runs : run[x].snap.items \subseteq Items
  BY SerialTypes DEF SerialInv
<1>1. /\ h.at = "start" /\ run[r].at = "unused"
      /\ UNCHANGED <<cs, owner, edits, op, opAt>>
      /\ req'[c] = Idle
  BY <1>t DEF ApplyStart, ReqTyped
<1>2. /\ run'[r].at = "level" /\ run'[r].set = h.set /\ run'[r].left = h.snap.items
      /\ run'[r].snap = h.snap
      /\ \A x \in Runs \ {r} : run'[x] = run[x]
  BY <1>t DEF ApplyStart, RunsTyped
<1>3. HandlerAlone(c) /\ h.set \in Sets
  BY <1>t, <1>1 DEF SerialInv, HandlersAlone, RequestsNamed
<1>4. \A i : CurrentSuccess(i)' = CurrentSuccess(i)
  BY <1>1 DEF CurrentSuccess
<1>5. \A i \in Items : op[r][i] = "none"
  BY <1>t, <1>1 DEF RunsInOrder
<1>6. RowsWritten'
  BY <1>1 DEF SerialInv, RowsWritten
<1>7. RunAlone(r)'
  <2>1. h.snap.items = Members(h.set) /\ \A i \in h.snap.items : h.snap.seen[i] = edits[i]
    BY <1>1, <1>3 DEF HandlerAlone, Kept
  <2>2. h.snap.done = {i \in h.snap.items : CurrentSuccess(i)}
    BY <1>1, <1>3 DEF HandlerAlone
  <2>3. ASSUME NEW x \in Runs, Active(x)', run'[x].set = h.set PROVE x = r
    BY <1>1, <1>2, <1>3, <2>3 DEF HandlerAlone, Active
  <2>4. cs'[h.set] \in Standing("level")
    BY <1>1, <1>3 DEF HandlerAlone, Standing
  <2>5. Kept(run[r].snap, run[r].set)'
    BY <1>1, <1>2, <2>1 DEF Kept, Members
  <2> QED BY <1>2, <1>3, <1>4, <2>2, <2>3, <2>4, <2>5 DEF RunAlone
<1>8. ASSUME NEW x \in Runs, x # r PROVE RunAlone(x)'
  <2>1. RunAlone(x) /\ run'[x] = run[x]
    BY <1>2, <1>8 DEF SerialInv, RunsAlone
  <2> SUFFICES ASSUME Active(x) PROVE RunAlone(x)'
    BY <2>1 DEF RunAlone, Active
  <2>2. run[x].set # h.set
    BY <1>1, <1>3 DEF HandlerAlone
  <2>3. ASSUME NEW y \in Runs, Active(y)', run'[y].set = run[x].set PROVE y = x
    BY <1>2, <2>1, <2>2, <2>3 DEF RunAlone, Active
  <2> QED BY <1>1, <1>4, <2>1, <2>3 DEF RunAlone, Active, Kept, Members
<1>9. HandlersAlone'
  BY <1>1 DEF SerialInv, OneAtATime, HandlersAlone, HandlerAlone, Idle
<1>10. OpsAlone'
  <2> SUFFICES ASSUME NEW x \in Runs, NEW i \in Items PROVE OpAlone(x, i)'
    BY DEF OpsAlone
  <2>1. CASE x = r
    BY <1>1, <1>5, <2>1 DEF OpAlone
  <2>2. CASE x # r
    BY <1>1, <1>2, <2>2 DEF SerialInv, OpsAlone, OpAlone, Level
  <2> QED BY <2>1, <2>2
<1>11. AppliedIsComplete'
  <2>1. \A x \in Runs, i \in Items : op[x][i] = "noop" => run'[x] = run[x]
    BY <1>2, <1>5
  <2>2. \A s \in Sets : Members(s) \subseteq Items
    BY DEF Members
  <2> QED BY <1>1, <1>4, <2>1, <2>2 DEF SerialInv, AppliedIsComplete, Members
<1> QED BY <1>6, <1>7, <1>8, <1>9, <1>10, <1>11 DEF RunsAlone

(* A run works on its items *)

\* The steps of one operation: it is made, with the time of its making, or
\* fails to be; or it goes on.
OpMade(r, i, s) ==
    /\ InLevel(r, i) /\ op[r][i] = "none"
    /\ \/ s \in {"waiting", "open"} /\ opAt' = [opAt EXCEPT ![r][i] = edits[i]]
       \/ s \in {"failed", "noop"} /\ UNCHANGED opAt

OpGoesOn(r, i, s) ==
    /\ op[r][i] \in {"waiting", "open", "applying"}
    /\ s \in {"open", "applying", "succeeded", "failed", "canceled"}
    /\ UNCHANGED opAt

ItemMoved(r, i, s) ==
    /\ OpMade(r, i, s) \/ OpGoesOn(r, i, s)
    /\ SetOp(r, i, s)
    /\ UNCHANGED <<cs, owner, edits, run, req>>

LEMMA ItemMoves ==
    ASSUME NEW r \in Runs, NEW i \in Items,
           ItemStep(r, i) \/ \E s \in {"open", "canceled"} : Decide(r, i, s)
    PROVE  \E s : ItemMoved(r, i, s)
<1>1. CASE StartItem(r, i)
  <2>1. ItemMoved(r, i, IF i \in Gated THEN "waiting" ELSE "open")
    BY <1>1 DEF StartItem, ItemMoved, OpMade
  <2> QED BY <2>1
<1>2. CASE StartItemFails(r, i)
  <2>1. ItemMoved(r, i, "failed")
    BY <1>2 DEF StartItemFails, ItemMoved, OpMade
  <2> QED BY <2>1
<1>3. CASE ForgetGone(r, i)
  <2>1. ItemMoved(r, i, "noop")
    BY <1>3 DEF ForgetGone, ItemMoved, OpMade
  <2> QED BY <2>1
<1>4. CASE FetchPlan(r, i)
  <2>1. ItemMoved(r, i, IF i \in Cached /\ dry[i] # "planned" /\ owner[i] # NoSet
                        THEN "failed" ELSE "applying")
    BY <1>4 DEF FetchPlan, ItemMoved, OpGoesOn
  <2> QED BY <2>1
<1>5. ASSUME NEW s \in {"succeeded", "failed"}, EndItem(r, i, s) PROVE ItemMoved(r, i, s)
  BY <1>5 DEF EndItem, ItemMoved, OpGoesOn
<1>6. ASSUME NEW s \in {"open", "canceled"}, Decide(r, i, s) PROVE ItemMoved(r, i, s)
  BY <1>6 DEF Decide, ItemMoved, OpGoesOn
<1> QED BY <1>1, <1>2, <1>3, <1>4, <1>5, <1>6 DEF ItemStep

\* Where an operation moves, its run is under way and its item is one of
\* those the run took.
LEMMA ItemOfRun ==
    ASSUME SerialInv, NEW r \in Runs, NEW i \in Items, NEW s, ItemMoved(r, i, s)
    PROVE  /\ run[r].at = "level" /\ i \in Level(run[r].left)
           /\ cs[run[r].set] = "applying" /\ run[r].set \in Sets
           /\ i \in run[r].snap.items \ run[r].snap.done
           /\ owner[i] = run[r].set
           /\ run[r].snap.seen[i] = edits[i]
           /\ s \in {"waiting", "open", "applying", "succeeded"} =>
                opAt'[r][i] = run[r].snap.seen[i]
<1>t. RunsTyped
  BY SerialTypes DEF SerialInv
<1>1. RunAlone(r) /\ OpAlone(r, i)
  BY DEF SerialInv, RunsAlone, OpsAlone
<1>2. run[r].at = "level" /\ i \in Level(run[r].left)
  BY <1>1 DEF ItemMoved, OpMade, OpGoesOn, InLevel, OpAlone
<1>3. /\ cs[run[r].set] = "applying" /\ run[r].set \in Sets
      /\ Kept(run[r].snap, run[r].set) /\ run[r].left \subseteq run[r].snap.items
  BY <1>1, <1>2 DEF RunAlone, Active, Standing
<1>4. i \in run[r].snap.items \ run[r].snap.done
  BY <1>1, <1>2, <1>3 DEF ItemMoved, OpMade, OpGoesOn, InLevel, OpAlone, Level
<1>5. owner[i] = run[r].set /\ run[r].snap.seen[i] = edits[i]
  BY <1>3, <1>4 DEF Kept, Members
<1>6. ASSUME s \in {"waiting", "open", "applying", "succeeded"}
      PROVE  opAt'[r][i] = run[r].snap.seen[i]
  BY <1>t, <1>1, <1>5, <1>6 DEF ItemMoved, OpMade, OpGoesOn, OpAlone, RunsTyped
<1> QED BY <1>2, <1>3, <1>4, <1>5, <1>6

\* A success is lost by no step of an operation, and is gained by the one
\* that succeeds.
LEMMA ItemSuccess ==
    ASSUME SerialInv, NEW r \in Runs, NEW i \in Items, NEW s, ItemMoved(r, i, s)
    PROVE  /\ \A x \in Runs, j \in Items : x # r \/ j # i =>
                 op'[x][j] = op[x][j] /\ opAt'[x][j] = opAt[x][j]
           /\ op'[r][i] = s
           /\ op[r][i] \in {"none", "waiting", "open", "applying"}
           /\ \A j \in Items : j # i => CurrentSuccess(j)' = CurrentSuccess(j)
           /\ CurrentSuccess(i) => CurrentSuccess(i)'
           /\ CurrentSuccess(i)' => CurrentSuccess(i) \/ s = "succeeded"
<1>t. RunsTyped
  BY SerialTypes DEF SerialInv
<1>1. UNCHANGED edits
  BY DEF ItemMoved
<1>2. \A x \in Runs, j \in Items : x # r \/ j # i =>
         op'[x][j] = op[x][j] /\ opAt'[x][j] = opAt[x][j]
  BY <1>t DEF ItemMoved, OpMade, OpGoesOn, SetOp, RunsTyped
<1>3. op'[r][i] = s
  BY <1>t DEF ItemMoved, SetOp, RunsTyped
<1>4. op[r][i] \in {"none", "waiting", "open", "applying"}
  BY DEF ItemMoved, OpMade, OpGoesOn
<1>5. \A j \in Items : j # i => CurrentSuccess(j)' = CurrentSuccess(j)
  BY <1>1, <1>2 DEF CurrentSuccess
<1>6. CurrentSuccess(i) => CurrentSuccess(i)'
  BY <1>1, <1>2, <1>4 DEF CurrentSuccess
<1>7. CurrentSuccess(i)' => CurrentSuccess(i) \/ s = "succeeded"
  BY <1>1, <1>2, <1>3 DEF CurrentSuccess
<1> QED BY <1>2, <1>3, <1>4, <1>5, <1>6, <1>7

LEMMA ItemSerial ==
    ASSUME SerialInv, NEW r \in Runs, NEW i \in Items, NEW s, ItemMoved(r, i, s)
    PROVE  (RowsWritten /\ RunsAlone /\ HandlersAlone /\ OpsAlone /\ AppliedIsComplete)'
<1>t. /\ RunsTyped
      /\ \A x \in Runs : run[x].snap.items \subseteq Items
      /\ \A c \in Clients : req[c].snap.items \subseteq Items
  BY SerialTypes DEF SerialInv
<1>1. UNCHANGED <<cs, owner, edits, run, req>>
  BY DEF ItemMoved
<1>2. /\ run[r].at = "level" /\ i \in Level(run[r].left) /\ Active(r)
      /\ cs[run[r].set] = "applying" /\ run[r].set \in Sets
      /\ i \in run[r].snap.items \ run[r].snap.done
      /\ owner[i] = run[r].set
      /\ s \in {"waiting", "open", "applying", "succeeded"} =>
           opAt'[r][i] = run[r].snap.seen[i]
  BY ItemOfRun DEF Active
<1>3. /\ \A x \in Runs, j \in Items : x # r \/ j # i =>
            op'[x][j] = op[x][j] /\ opAt'[x][j] = opAt[x][j]
      /\ op'[r][i] = s
      /\ op[r][i] \in {"none", "waiting", "open", "applying"}
      /\ \A j \in Items : j # i => CurrentSuccess(j)' = CurrentSuccess(j)
      /\ CurrentSuccess(i) => CurrentSuccess(i)'
      /\ CurrentSuccess(i)' => CurrentSuccess(i) \/ s = "succeeded"
  BY ItemSuccess
<1>4. RowsWritten'
  BY <1>1 DEF SerialInv, RowsWritten
<1>5. ASSUME NEW x \in Runs PROVE RunAlone(x)'
  <2>1. RunAlone(x) /\ RunAlone(r)
    BY DEF SerialInv, RunsAlone
  <2> SUFFICES ASSUME Active(x) PROVE RunAlone(x)'
    BY <1>1 DEF RunAlone, Active
  <2>2. x # r => i \notin run[x].snap.items
    BY <1>2, <2>1 DEF RunAlone, Kept, Members
  <2>3. run[x].snap.items \subseteq Items /\ run[x].snap.done \subseteq run[x].snap.items
    BY <1>t, <2>1 DEF RunAlone
  <2>4. \A j \in run[x].snap.done : CurrentSuccess(j)'
    BY <1>3, <2>1, <2>3 DEF RunAlone
  <2>5. ASSUME NEW j \in run[x].snap.items \ run[x].snap.done, CurrentSuccess(j)'
        PROVE  op'[x][j] = "succeeded"
    BY <1>3, <2>1, <2>2, <2>3, <2>5 DEF RunAlone
  <2> QED BY <1>1, <2>1, <2>4, <2>5 DEF RunAlone, Active, Kept, Members
<1>6. ASSUME NEW c \in Clients PROVE HandlerAlone(c)'
  <2>1. HandlerAlone(c)
    BY DEF SerialInv, HandlersAlone
  <2>2. req[c].at \in {"gate", "mark", "start"} => i \notin req[c].snap.items
    BY <1>2, <2>1 DEF HandlerAlone, Kept, Members
  <2>3. req[c].at \in {"gate", "mark", "start"} =>
           req[c].snap.done = {j \in req[c].snap.items : CurrentSuccess(j)'}
    BY <1>t, <1>3, <2>1, <2>2 DEF HandlerAlone
  <2> QED BY <1>1, <2>1, <2>3 DEF HandlerAlone, Active, Kept, Members
<1>7. ASSUME NEW x \in Runs, NEW j \in Items PROVE OpAlone(x, j)'
  <2>1. CASE x = r /\ j = i
    BY <1>1, <1>2, <1>3, <2>1 DEF OpAlone, Level
  <2>2. CASE x # r \/ j # i
    BY <1>1, <1>3, <2>2 DEF SerialInv, OpsAlone, OpAlone, Level
  <2> QED BY <2>1, <2>2
<1>8. AppliedIsComplete'
  <2>1. \A x \in Runs, j \in Items : op[x][j] = "noop" => op'[x][j] = "noop"
    BY <1>3
  <2>2. \A j \in Items : CurrentSuccess(j) => CurrentSuccess(j)'
    BY <1>3
  <2>3. \A t \in Sets : Members(t) \subseteq Items /\ Members(t)' = Members(t)
    BY <1>1 DEF Members
  <2> QED BY <1>1, <2>1, <2>2, <2>3 DEF SerialInv, AppliedIsComplete
<1> QED BY <1>4, <1>5, <1>6, <1>7, <1>8 DEF RunsAlone, HandlersAlone, OpsAlone

(* A run leaves a level, and ends *)

LEMMA LevelSerial ==
    ASSUME SerialInv, NEW r \in Runs, LevelDone(r)
    PROVE  (RowsWritten /\ RunsAlone /\ HandlersAlone /\ OpsAlone /\ AppliedIsComplete)'
<1>t. RunsTyped
  BY SerialTypes DEF SerialInv
<1>1. /\ run[r].at = "level" /\ Settled(r)
      /\ UNCHANGED <<cs, owner, edits, req, op, opAt>>
  BY DEF LevelDone
<1>2. /\ run'[r].at = NextAt(r) /\ run'[r].set = run[r].set /\ run'[r].snap = run[r].snap
      /\ run'[r].left \subseteq run[r].left
      /\ \A x \in Runs \ {r} : run'[x] = run[x]
  BY <1>t DEF LevelDone, RunsTyped, RunRecord
<1>3. \A x \in Runs : /\ Active(x)' <=> Active(x)
                      /\ run'[x].set = run[x].set /\ run'[x].snap = run[x].snap
                      /\ run'[x].left \subseteq run[x].left
  BY <1>1, <1>2, NextAtTyped DEF Active
<1>4. \A i : CurrentSuccess(i)' = CurrentSuccess(i)
  BY <1>1 DEF CurrentSuccess
<1>5. RowsWritten'
  BY <1>1 DEF SerialInv, RowsWritten
<1>6. ASSUME NEW x \in Runs PROVE RunAlone(x)'
  <2>1. RunAlone(x)
    BY DEF SerialInv, RunsAlone
  <2>2. Standing(run[x].at) \subseteq Standing(run'[x].at)
    BY <1>1, <1>2 DEF Standing
  <2>3. Active(x) => cs[run[x].set] \in Standing(run'[x].at)
    BY <2>1, <2>2 DEF RunAlone
  <2> HIDE DEF Standing
  <2> QED BY <1>1, <1>3, <1>4, <2>1, <2>3 DEF RunAlone, Kept, Members
<1>7. ASSUME NEW c \in Clients PROVE HandlerAlone(c)'
  <2>1. HandlerAlone(c)
    BY DEF SerialInv, HandlersAlone
  <2> QED BY <1>1, <1>3, <1>4, <2>1 DEF HandlerAlone, Kept, Members
<1>8. ASSUME NEW x \in Runs, NEW i \in Items PROVE OpAlone(x, i)'
  <2>1. OpAlone(x, i)
    BY DEF SerialInv, OpsAlone
  <2>2. CASE x = r
    <3>1. op[r][i] \notin {"waiting", "open", "applying"}
      BY <1>1, <2>1, <2>2 DEF OpAlone, Settled, OpEnds
    <3> QED BY <1>1, <1>3, <2>1, <2>2, <3>1 DEF OpAlone
  <2>3. CASE x # r
    BY <1>1, <1>2, <2>1, <2>3 DEF OpAlone, Level
  <2> QED BY <2>2, <2>3
<1>9. AppliedIsComplete'
  <2>1. \A t : Members(t)' = Members(t)
    BY <1>1 DEF Members
  <2> QED BY <1>1, <1>3, <1>4, <2>1 DEF SerialInv, AppliedIsComplete
<1> QED BY <1>5, <1>6, <1>7, <1>8, <1>9 DEF RunsAlone, HandlersAlone, OpsAlone

\* A try of closeChangeSet, cancelChangeSet or reopenChangeSet: the run's
\* changeset is applied, canceled or a draft again, or stays as it is; the run
\* is over, or is still at work on what it has made of it.
RunEnded(r) ==
    LET s == run[r].set IN
    /\ RunLeaves(r)
    /\ run'[r].at # "done" => cs'[s] \in Standing(run'[r].at)
    /\ \E to \in {"applied", "canceled", "draft", cs[s]} :
          /\ cs' = [cs EXCEPT ![s] = to]
          /\ to = "applied" => run[r].at = "close" \/ cs[s] = "applied"
    /\ UNCHANGED <<owner, edits, req>>

LEMMA RunEnds ==
    ASSUME SerialInv, NEW r \in Runs, Finish(r) \/ FinishFails(r) \/ reopenChangeSet(r)
    PROVE  RunEnded(r)
<1> DEFINE s == run[r].set
<1>t. RowsTyped /\ RunsTyped
  BY SerialTypes DEF SerialInv
<1>1. RunLeaves(r) /\ UNCHANGED <<owner, edits, req>>
  BY LastSteps DEF Finish, FinishFails, reopenChangeSet
<1>2. s \in Sets /\ cs[s] \in Standing(run[r].at)
  BY <1>1 DEF RunLeaves, SerialInv, RunsAlone, RunAlone, Active
<1>3. cs = [cs EXCEPT ![s] = cs[s]]
  BY <1>t, <1>2 DEF RowsTyped
<1>4. CASE Finish(r)
  <2>1. run[r].at \in {"close", "cancel"} /\ run'[r].at \in {run[r].at, "done", "reopen"}
    BY <1>t, <1>1, <1>4 DEF Finish, RunLeaves, RunsTyped, RunRecord
  <2>2. cs' = [cs EXCEPT ![s] = IF run[r].at = "close" THEN "applied" ELSE "canceled"]
    BY <1>4 DEF Finish
  <2>3. cs'[s] = IF run[r].at = "close" THEN "applied" ELSE "canceled"
    BY <1>t, <1>2, <2>2 DEF RowsTyped
  <2>4. run'[r].at # "done" => cs'[s] \in Standing(run'[r].at)
    BY <2>1, <2>3 DEF Standing
  <2> QED BY <1>1, <2>1, <2>2, <2>4 DEF RunEnded
<1>5. CASE FinishFails(r)
  <2>1. cs' = cs /\ run'[r].at = "reopen" /\ run[r].at \in {"close", "cancel"}
    BY <1>t, <1>5 DEF FinishFails, RunsTyped, RunRecord
  <2>2. cs'[s] \in Standing(run'[r].at)
    BY <1>2, <2>1 DEF Standing
  <2> QED BY <1>1, <1>3, <2>1, <2>2 DEF RunEnded
<1>6. CASE reopenChangeSet(r)
  <2>1. run'[r].at = "done"
    BY <1>t, <1>6 DEF reopenChangeSet, RunGoes, SerialInv, OneAtATime, RunsTyped, RunRecord
  <2>2. cs' = cs \/ cs' = [cs EXCEPT ![s] = "draft"]
    BY <1>6 DEF reopenChangeSet
  <2> QED BY <1>1, <1>3, <2>1, <2>2 DEF RunEnded
<1> QED BY <1>4, <1>5, <1>6

LEMMA EndSerial ==
    ASSUME SerialInv, NEW r \in Runs, RunEnded(r)
    PROVE  (RowsWritten /\ RunsAlone /\ HandlersAlone /\ OpsAlone /\ AppliedIsComplete)'
<1> DEFINE s == run[r].set
<1>t. /\ RowsTyped /\ RunsTyped /\ RunsInOrder
      /\ run[r].snap.items \subseteq Items
  BY SerialTypes DEF SerialInv
<1>1. /\ run[r].at \in {"close", "cancel", "reopen"} /\ Active(r)
      /\ UNCHANGED <<owner, edits, op, opAt, req>>
  BY DEF RunEnded, RunLeaves, Active
<1>2. /\ run'[r].at \in {"done", "reopen", run[r].at}
      /\ run'[r].set = s /\ run'[r].snap = run[r].snap /\ run'[r].left = run[r].left
      /\ \A x \in Runs \ {r} : run'[x] = run[x]
  BY <1>t DEF RunEnded, RunLeaves, RunsTyped, RunRecord
<1>3. RunAlone(r) /\ s \in Sets /\ cs[s] \in {"applying", "applied", "canceled"}
      /\ Kept(run[r].snap, s)
  BY <1>1 DEF SerialInv, RunsAlone, RunAlone, Standing
<1>4. \A t \in Sets \ {s} : cs'[t] = cs[t]
  BY <1>t DEF RunEnded, RowsTyped
<1>5. \A i : CurrentSuccess(i)' = CurrentSuccess(i)
  BY <1>1 DEF CurrentSuccess
<1>6. RowsWritten'
  BY <1>1 DEF SerialInv, RowsWritten
<1>7. ASSUME NEW x \in Runs PROVE RunAlone(x)'
  <2> SUFFICES ASSUME Active(x)' PROVE RunAlone(x)'
    BY DEF RunAlone
  <2>1. \A y \in Runs : Active(y)' => Active(y) /\ run'[y].set = run[y].set
    BY <1>1, <1>2 DEF Active
  <2>2. RunAlone(x) /\ Active(x)
    BY <2>1 DEF SerialInv, RunsAlone
  <2>3. CASE x = r
    <3>1. cs'[s] \in Standing(run'[r].at)
      BY <2>3 DEF RunEnded, Active
    <3> HIDE DEF Standing
    <3> QED BY <1>1, <1>2, <1>5, <2>1, <2>2, <2>3, <3>1 DEF RunAlone, Kept, Members
  <2>4. CASE x # r
    <3>1. run'[x] = run[x] /\ run[x].set # s /\ run[x].set \in Sets
      BY <1>1, <1>2, <1>3, <2>2, <2>4 DEF RunAlone
    <3> HIDE DEF Standing
    <3> QED BY <1>1, <1>4, <1>5, <2>1, <2>2, <3>1 DEF RunAlone, Kept, Members
  <2> QED BY <2>3, <2>4
<1>8. ASSUME NEW c \in Clients PROVE HandlerAlone(c)'
  <2>1. HandlerAlone(c)
    BY DEF SerialInv, HandlersAlone
  <2>2. req[c].at # "idle" => req[c].set \in Sets /\ req[c].set # s
    BY <1>1, <1>3, <2>1, SerialTypes DEF SerialInv, HandlerAlone, RequestsNamed, ReqTyped, Handler
  <2>3. \A x \in Runs : Active(x)' => Active(x) /\ run'[x].set = run[x].set
    BY <1>1, <1>2 DEF Active
  <2> QED BY <1>1, <1>4, <1>5, <2>1, <2>2, <2>3 DEF HandlerAlone, Kept, Members
<1>9. ASSUME NEW x \in Runs, NEW i \in Items PROVE OpAlone(x, i)'
  <2>1. OpAlone(x, i)
    BY DEF SerialInv, OpsAlone
  <2>2. CASE x = r
    BY <1>1, <1>2, <2>1, <2>2 DEF OpAlone
  <2>3. CASE x # r
    BY <1>1, <1>2, <2>1, <2>3 DEF OpAlone, Level
  <2> QED BY <2>2, <2>3
<1>10. AppliedIsComplete'
  <2>1. \A t : Members(t)' = Members(t)
    BY <1>1 DEF Members
  <2>2. \A x \in Runs : run'[x].set = run[x].set /\ run'[x].snap = run[x].snap
    BY <1>2
  <2>3. ASSUME cs'[s] = "applied", cs[s] # "applied", NEW i \in Members(s)
        PROVE  \/ op[r][i] = "noop" /\ run[r].snap.seen[i] = edits[i]
               \/ CurrentSuccess(i)
    <3>1. run[r].at = "close" /\ run[r].left = {}
      BY <1>t, <1>3, <2>3 DEF RunEnded, RunsInOrder, RowsTyped
    <3>2. i \in Items /\ i \in run[r].snap.items /\ run[r].snap.seen[i] = edits[i]
      BY <1>3 DEF Kept, Members
    <3>3. i \in run[r].snap.done \/ op[r][i] \in {"succeeded", "noop"}
      BY <1>t, <3>1, <3>2 DEF RunsInOrder
    <3>4. i \in run[r].snap.done => CurrentSuccess(i)
      BY <1>1, <1>3 DEF RunAlone
    <3>5. op[r][i] = "succeeded" => opAt[r][i] = edits[i]
      BY <3>2 DEF SerialInv, OpsAlone, OpAlone
    <3> QED BY <3>2, <3>3, <3>4, <3>5 DEF CurrentSuccess
  <2>4. ASSUME NEW t \in Sets, cs'[t] = "applied", NEW i \in Members(t)
        PROVE  \/ \E x \in Runs : /\ run'[x].set = t /\ op'[x][i] = "noop"
                                  /\ run'[x].snap.seen[i] = edits'[i]
               \/ CurrentSuccess(i)'
    <3>1. CASE t = s /\ cs[s] # "applied"
      BY <1>1, <1>5, <2>2, <2>3, <2>4, <3>1
    <3>2. CASE cs[t] = "applied"
      BY <1>1, <1>5, <2>2, <2>4, <3>2 DEF SerialInv, AppliedIsComplete
    <3>3. CASE t # s
      BY <1>4, <2>4, <3>2, <3>3
    <3> QED BY <3>1, <3>2, <3>3
  <2> QED BY <2>1, <2>4 DEF AppliedIsComplete
<1> QED BY <1>6, <1>7, <1>8, <1>9, <1>10 DEF RunsAlone, HandlersAlone, OpsAlone

(* The induction *)

LEMMA SerialInductive == SerialInv /\ [Next]_vars => SerialInv'
<1> SUFFICES ASSUME SerialInv, [Next]_vars PROVE SerialInv'
  OBVIOUS
<1> DEFINE Parts == RowsWritten /\ RunsAlone /\ HandlersAlone /\ OpsAlone /\ AppliedIsComplete
<1>1. IInv' /\ OneAtATime
  BY Inductive DEF SerialInv
<1>2. Parts'
  <2>1. ASSUME NEW c \in Clients, NewRequest(c) PROVE Parts'
    <3>1. CASE \E s \in Sets : create(c, s)
      BY <3>1, StatusMoves, StatusSerial, Zenon
    <3>2. CASE ~\E s \in Sets : create(c, s)
      <4>1. UNCHANGED cs
        BY <2>1, <3>2 DEF NewRequest, ApplyRead, Begin
      <4> QED BY <2>1, <4>1, HandlerReads, Zenon
    <3> QED BY <3>1, <3>2
  <2>2. ASSUME NEW c \in Clients, HandlerStep(c) PROVE Parts'
    <3>1. CASE stageItem(c) \/ updateItem(c) \/ deleteItem(c)
      BY <3>1, ItemWrites, HandlerWrites, Zenon
    <3>2. CASE discard(c) \/ ApplyMark(c) \/ ApplyStartFails(c)
      BY <3>2, StatusMoves, StatusSerial, Zenon
    <3>3. CASE ApplyGate(c)
      <4>1. UNCHANGED cs
        BY <3>3 DEF ApplyGate
      <4> QED BY <3>3, <4>1, HandlerReads, Zenon
    <3>4. ASSUME NEW r \in Runs, ApplyStart(c, r) PROVE Parts'
      BY <3>4, StartSerial, Zenon
    <3> QED BY <2>2, <3>1, <3>2, <3>3, <3>4, Zenon DEF HandlerStep
  <2>3. ASSUME NEW c \in Clients, Crash(c) PROVE Parts'
    <3>1. UNCHANGED cs
      BY <2>3 DEF Crash
    <3> QED BY <2>3, <3>1, HandlerReads, Zenon
  <2>4. ASSUME NEW r \in Runs, RunStep(r) PROVE Parts'
    <3>1. ASSUME NEW i \in Items, ItemStep(r, i) PROVE Parts'
      BY <3>1, ItemMoves, ItemSerial, Zenon
    <3>2. CASE LevelDone(r)
      BY <3>2, LevelSerial, Zenon
    <3>3. CASE Finish(r) \/ FinishFails(r) \/ reopenChangeSet(r)
      BY <3>3, RunEnds, EndSerial, Zenon
    <3> QED BY <2>4, <3>1, <3>2, <3>3, Zenon DEF RunStep
  <2>5. ASSUME NEW r \in Runs, NEW i \in Items, NEW s \in {"open", "canceled"}, Decide(r, i, s)
        PROVE  Parts'
    BY <2>5, ItemMoves, ItemSerial, Zenon
  <2>6. CASE UNCHANGED <<cs, owner, edits, run, op, opAt, req>>
    <3>1. \A c \in Clients : HandlerAlone(c)'
      BY <2>6 DEF SerialInv, HandlersAlone, HandlerAlone, Active, Kept, Members, CurrentSuccess
    <3>2. StatusMoved
      BY <2>6 DEF StatusMoved
    <3>3. CASE Clients = {}
      BY <2>6, <3>3 DEF SerialInv, RowsWritten, RunsAlone, RunAlone, Active, Kept, Members,
                        CurrentSuccess, HandlersAlone, OpsAlone, OpAlone, Level, AppliedIsComplete
    <3>4. ASSUME NEW c \in Clients PROVE Parts'
      BY <3>1, <3>2, StatusSerial, Zenon
    <3> QED BY <3>3, <3>4
  <2>7. ASSUME NEW i \in Items, NEW a, DryRunSettles(i, a) \/ DryRunReset(i) PROVE Parts'
    BY <2>6, <2>7 DEF DryRunSettles, DryRunReset
  <2>8. CASE UNCHANGED vars
    BY <2>6, <2>8
  <2> QED BY <2>1, <2>2, <2>3, <2>4, <2>5, <2>7, <2>8, Zenon DEF Next
<1> QED BY <1>1, <1>2 DEF SerialInv

(* What one client at a time makes true *)

LEMMA SerialInvariance == OneAtATime /\ Spec => []SerialInv
BY SerialInitially, SerialInductive, PTL DEF Spec

\* With one request at a time, a changeset that closeChangeSet marked applied
\* has every item it holds applied as it stands: by a current success, or as
\* a forget that had nothing left to do.  Handlers may die at any write.
THEOREM AppliedSafety == OneAtATime /\ Spec => []AppliedIsComplete
<1>1. SerialInv => AppliedIsComplete
  BY DEF SerialInv
<1> QED BY <1>1, SerialInvariance, PTL

\* With one request at a time, a success that hasCurrentSuccess takes for
\* current is a success of the content its run had read.
THEOREM SuccessSafety == OneAtATime /\ Spec => []SuccessIsCurrent
<1>1. SerialInv => SuccessIsCurrent
  BY DEF SerialInv, OpsAlone, OpAlone, SuccessIsCurrent
<1> QED BY <1>1, SerialInvariance, PTL

\* With one request at a time, a run that applies a changeset again makes no
\* operation for an item that already succeeded (the skip of alreadySucceeded
\* in workflows/steps.ts).
THEOREM NoSecondApplySafety == OneAtATime /\ Spec => NoSecondApply
<1> DEFINE Once == \A r \in Runs, i \in Items :
                     op[r][i] = "none" /\ op'[r][i] \in {"open", "waiting"} => ~CurrentSuccess(i)
<1>1. SerialInv /\ [Next]_vars => [Once]_vars
  <2> SUFFICES ASSUME SerialInv, [Next]_vars, NEW r \in Runs, NEW i \in Items,
                      op[r][i] = "none", op'[r][i] \in {"open", "waiting"}
               PROVE  ~CurrentSuccess(i)
    OBVIOUS
  <2>1. ASSUME NEW x \in Runs, NEW j \in Items, NEW s, ItemMoved(x, j, s)
        PROVE  ~CurrentSuccess(i)
    <3>1. x = r /\ j = i
      BY <2>1, ItemSuccess
    <3>2. run[r].at = "level" /\ i \in run[r].snap.items \ run[r].snap.done
      BY <2>1, <3>1, ItemOfRun
    <3> QED BY <3>2 DEF SerialInv, RunsAlone, RunAlone, Active
  <2>2. op' # op
    OBVIOUS
  <2>3. ASSUME NEW c \in Clients PROVE ~(NewRequest(c) \/ HandlerStep(c) \/ Crash(c))
    BY <2>2 DEF NewRequest, HandlerStep, Crash, create, ApplyRead, Begin, stageItem, updateItem,
                deleteItem, discard, ApplyGate, ApplyMark, ApplyStart, ApplyStartFails
  <2>4. ASSUME NEW x \in Runs, RunStep(x) PROVE ~CurrentSuccess(i)
    <3>1. ~(LevelDone(x) \/ Finish(x) \/ FinishFails(x) \/ reopenChangeSet(x))
      BY <2>2 DEF LevelDone, Finish, FinishFails, reopenChangeSet
    <3> QED BY <2>1, <2>4, <3>1, ItemMoves DEF RunStep
  <2>5. ASSUME NEW x \in Runs, NEW j \in Items, NEW s \in {"open", "canceled"}, Decide(x, j, s)
        PROVE  ~CurrentSuccess(i)
    BY <2>1, <2>5, ItemMoves
  <2>6. ASSUME NEW j \in Items, NEW a PROVE ~(DryRunSettles(j, a) \/ DryRunReset(j))
    BY <2>2 DEF DryRunSettles, DryRunReset
  <2> QED BY <2>2, <2>3, <2>4, <2>5, <2>6 DEF Next
<1> QED BY <1>1, SerialInvariance, PTL DEF Spec, NoSecondApply

(* The lifecycle.  Each step of the tables is one of the promised moves of  *)
(* one changeset, or leaves all statuses alone and the runs at work.        *)

LifecycleMoves == [Lifecycle!Next]_<<cs, Working>>

LEMMA SameWorking == ASSUME UNCHANGED run PROVE Working' = Working
BY DEF Working, Active

LEMMA Untouched ==
    ASSUME UNCHANGED cs, Working' = Working PROVE LifecycleMoves
BY DEF LifecycleMoves

\* A changeset without a run at work on it.
LEMMA NotWorking ==
    ASSUME NEW s, \A r \in Runs : Active(r) => run[r].set # s PROVE s \notin Working
BY DEF Working

LEMMA NoDraftIs ==
    ASSUME NEW s \in Sets, DraftFree(s), cs[s] # "draft" PROVE Lifecycle!NoDraft
BY DEF DraftFree, Lifecycle!NoDraft

\* A last step leaves its changeset in work, or takes it out.
LEMMA EndWorking ==
    ASSUME SerialInv, NEW r \in Runs, RunLeaves(r)
    PROVE  /\ run[r].set \in Sets /\ run[r].set \in Working
           /\ Working' = IF run'[r].at = "done" THEN Working \ {run[r].set} ELSE Working
<1>t. RunsTyped
  BY SerialTypes DEF SerialInv
<1>1. /\ run'[r].at \in {"done", "reopen", run[r].at} /\ run'[r].set = run[r].set
      /\ \A x \in Runs \ {r} : run'[x] = run[x]
      /\ Active(r)
  BY <1>t DEF RunLeaves, RunsTyped, RunRecord, Active
<1>2. RunAlone(r)
  BY DEF SerialInv, RunsAlone
<1>3. \A x \in Runs : Active(x) /\ run[x].set = run[r].set => x = r
  BY <1>1, <1>2 DEF RunAlone
<1>4. \A x \in Runs : x # r => (Active(x)' <=> Active(x)) /\ run'[x].set = run[x].set
  BY <1>1 DEF Active
<1>5. Active(r)' <=> run'[r].at # "done"
  BY <1>1 DEF Active
<1>6. CASE run'[r].at = "done"
  <2>1. \A x \in Runs : Active(x)' <=> Active(x) /\ run[x].set # run[r].set
    BY <1>1, <1>3, <1>4, <1>5, <1>6
  <2> HIDE DEF Active
  <2>2. ASSUME NEW s PROVE s \in Working' <=> s \in Working \ {run[r].set}
    BY <1>1, <1>4, <2>1 DEF Working
  <2> QED BY <1>1, <1>2, <1>6, <2>2 DEF Working, RunAlone
<1>7. CASE run'[r].at # "done"
  <2>1. \A x \in Runs : (Active(x)' <=> Active(x)) /\ run'[x].set = run[x].set
    BY <1>1, <1>4, <1>5, <1>7
  <2> HIDE DEF Active
  <2>2. ASSUME NEW s PROVE s \in Working' <=> s \in Working
    BY <2>1 DEF Working
  <2> QED BY <1>1, <1>2, <1>7, <2>2 DEF Working, RunAlone
<1> QED BY <1>6, <1>7

LEMMA RunLifecycle ==
    ASSUME SerialInv, NEW r \in Runs, Finish(r) \/ FinishFails(r) \/ reopenChangeSet(r)
    PROVE  LifecycleMoves
<1> DEFINE s == run[r].set
<1>t. RowsTyped /\ RunsTyped
  BY SerialTypes DEF SerialInv
<1>1. /\ s \in Sets /\ s \in Working
      /\ Working' = IF run'[r].at = "done" THEN Working \ {s} ELSE Working
  BY LastSteps, EndWorking
<1>2. run[r].at \in {"close", "cancel", "reopen"} /\ RunAlone(r)
  BY LastSteps DEF RunLeaves, SerialInv, RunsAlone
<1>3. cs[s] \in Standing(run[r].at)
  BY <1>2 DEF RunAlone, Active
<1>4. CASE Finish(r)
  <2> DEFINE to == IF run[r].at = "close" THEN "applied" ELSE "canceled"
  <2>1. cs' = [cs EXCEPT ![s] = to] /\ to \in {"applied", "canceled"}
    BY <1>4 DEF Finish
  <2>2. cs[s] \in {"applying", to}
    BY <1>2, <1>3, <1>4 DEF Finish, Standing
  <2>3. Lifecycle!Finish(s)
    BY <1>1, <2>1, <2>2 DEF Lifecycle!Finish, Lifecycle!Move
  <2> QED BY <1>1, <2>3 DEF LifecycleMoves, Lifecycle!Next
<1>5. CASE FinishFails(r)
  <2>1. UNCHANGED cs /\ run'[r].at = "reopen"
    BY <1>t, <1>5 DEF FinishFails, RunsTyped, RunRecord
  <2> QED BY <1>1, <2>1, Untouched
<1>6. CASE reopenChangeSet(r)
  <2>1. run'[r].at = "done"
    BY <1>t, <1>6 DEF reopenChangeSet, RunGoes, SerialInv, OneAtATime, RunsTyped, RunRecord
  <2>2. cs[s] \in {"applying", "applied", "canceled"}
    BY <1>3, <1>6 DEF Standing
  <2>3. CASE DraftFree(s)
    <3>1. cs' = [cs EXCEPT ![s] = "draft"]
      BY <1>6, <2>3 DEF reopenChangeSet, SerialInv, OneAtATime
    <3>2. Lifecycle!NoDraft
      BY <1>1, <2>2, <2>3, NoDraftIs
    <3>3. Lifecycle!Reopen(s)
      BY <1>1, <2>1, <2>2, <3>1, <3>2 DEF Lifecycle!Reopen, Lifecycle!Move
    <3> QED BY <1>1, <3>3 DEF LifecycleMoves, Lifecycle!Next
  <2>4. CASE ~DraftFree(s)
    <3>1. UNCHANGED cs
      BY <1>6, <2>4 DEF reopenChangeSet
    <3>2. ~Lifecycle!NoDraft
      BY <2>4 DEF DraftFree, Lifecycle!NoDraft
    <3>3. Lifecycle!GiveUp(s)
      BY <1>1, <2>1, <3>1, <3>2 DEF Lifecycle!GiveUp
    <3> QED BY <1>1, <3>3 DEF LifecycleMoves, Lifecycle!Next
  <2> QED BY <2>3, <2>4
<1> QED BY <1>4, <1>5, <1>6

LEMMA HandlerLifecycle ==
    ASSUME SerialInv, NEW c \in Clients, HandlerStep(c) PROVE LifecycleMoves
<1> DEFINE s == req[c].set
<1>t. RowsTyped /\ RunsTyped /\ RequestsNamed
  BY SerialTypes DEF SerialInv
<1>1. HandlerAlone(c)
  BY DEF SerialInv, HandlersAlone
<1>2. CASE stageItem(c) \/ updateItem(c) \/ deleteItem(c) \/ ApplyGate(c)
  BY <1>2, SameWorking, Untouched DEF stageItem, updateItem, deleteItem, ApplyGate
<1>3. CASE discard(c)
  <2>1. /\ s \in Sets /\ cs[s] = "draft" /\ cs' = [cs EXCEPT ![s] = "discarded"]
        /\ Working' = Working
    BY <1>t, <1>1, <1>3, SameWorking DEF discard, HandlerAlone, RequestsNamed
  <2>2. Lifecycle!Discard(s)
    BY <2>1 DEF Lifecycle!Discard, Lifecycle!Move
  <2> QED BY <2>1, <2>2 DEF LifecycleMoves, Lifecycle!Next
<1>4. CASE ApplyMark(c)
  <2>1. /\ s \in Sets /\ cs[s] = "draft" /\ cs' = [cs EXCEPT ![s] = "applying"]
        /\ Working' = Working
    BY <1>t, <1>1, <1>4, SameWorking DEF ApplyMark, HandlerAlone, RequestsNamed
  <2>2. Lifecycle!Apply(s)
    BY <2>1 DEF Lifecycle!Apply, Lifecycle!Move
  <2> QED BY <2>1, <2>2 DEF LifecycleMoves, Lifecycle!Next
<1>5. CASE ApplyStartFails(c)
  <2>1. s \in Sets /\ s \notin Working /\ Working' = Working
    BY <1>t, <1>1, <1>5, SameWorking, NotWorking DEF ApplyStartFails, HandlerAlone, RequestsNamed
  <2>2. \/ UNCHANGED cs
        \/ cs[s] = "applying" /\ DraftFree(s) /\ cs' = [cs EXCEPT ![s] = "draft"]
    BY <1>5 DEF ApplyStartFails
  <2>3. CASE cs[s] = "applying" /\ DraftFree(s) /\ cs' = [cs EXCEPT ![s] = "draft"]
    <3>1. Lifecycle!Revert(s)
      BY <2>1, <2>3, NoDraftIs DEF Lifecycle!Revert, Lifecycle!Move
    <3> QED BY <2>1, <3>1 DEF LifecycleMoves, Lifecycle!Next
  <2> QED BY <2>1, <2>2, <2>3, Untouched
<1>6. ASSUME NEW r \in Runs, ApplyStart(c, r) PROVE LifecycleMoves
  <2>1. /\ s \in Sets /\ cs[s] = "applying" /\ s \notin Working /\ UNCHANGED cs
    BY <1>t, <1>1, <1>6, NotWorking DEF ApplyStart, HandlerAlone, RequestsNamed
  <2>2. /\ run[r].at = "unused" /\ run'[r].at = "level" /\ run'[r].set = s
        /\ \A x \in Runs \ {r} : run'[x] = run[x]
    BY <1>t, <1>6 DEF ApplyStart, RunsTyped
  <2>3. \A x \in Runs : x # r => (Active(x)' <=> Active(x)) /\ run'[x].set = run[x].set
    BY <2>2 DEF Active
  <2>4. ~Active(r) /\ Active(r)'
    BY <2>2 DEF Active
  <2> HIDE DEF Active
  <2>5. ASSUME NEW t PROVE t \in Working' <=> t \in Working \cup {s}
    BY <2>2, <2>3, <2>4 DEF Working
  <2>6. Working' = Working \cup {s}
    BY <2>5
  <2>7. Lifecycle!Start(s)
    BY <2>1, <2>6 DEF Lifecycle!Start
  <2> QED BY <2>1, <2>7 DEF LifecycleMoves, Lifecycle!Next
<1> QED BY <1>2, <1>3, <1>4, <1>5, <1>6 DEF HandlerStep

LEMMA LifecycleStep == SerialInv /\ [Next]_vars => LifecycleMoves
<1> SUFFICES ASSUME SerialInv, [Next]_vars PROVE LifecycleMoves
  OBVIOUS
<1>t. RowsTyped /\ RunsTyped
  BY SerialTypes DEF SerialInv
<1>1. ASSUME NEW c \in Clients, NewRequest(c) PROVE LifecycleMoves
  <2>1. ASSUME NEW s \in Sets, create(c, s) PROVE LifecycleMoves
    <3>1. /\ cs[s] = "absent" /\ DraftFree(s) /\ cs' = [cs EXCEPT ![s] = "draft"]
          /\ Working' = Working
      BY <2>1, SameWorking DEF create
    <3>2. Lifecycle!Create(s)
      BY <3>1, NoDraftIs DEF Lifecycle!Create, Lifecycle!Move
    <3> QED BY <3>2 DEF LifecycleMoves, Lifecycle!Next
  <2>2. CASE ~\E s \in Sets : create(c, s)
    <3>1. UNCHANGED <<cs, run>>
      BY <1>1, <2>2 DEF NewRequest, ApplyRead, Begin
    <3> QED BY <3>1, SameWorking, Untouched
  <2> QED BY <2>1, <2>2
<1>2. ASSUME NEW c \in Clients, HandlerStep(c) PROVE LifecycleMoves
  BY <1>2, HandlerLifecycle
<1>3. ASSUME NEW c \in Clients, Crash(c) PROVE LifecycleMoves
  BY <1>3, SameWorking, Untouched DEF Crash
<1>4. ASSUME NEW r \in Runs, RunStep(r) PROVE LifecycleMoves
  <2>1. CASE Finish(r) \/ FinishFails(r) \/ reopenChangeSet(r)
    BY <2>1, RunLifecycle
  <2>2. CASE LevelDone(r)
    <3>1. /\ \A x \in Runs : (Active(x)' <=> Active(x)) /\ run'[x].set = run[x].set
          /\ UNCHANGED cs
      <4>1. /\ run[r].at = "level" /\ run'[r].at = NextAt(r) /\ run'[r].set = run[r].set
            /\ \A x \in Runs \ {r} : run'[x] = run[x]
            /\ UNCHANGED cs
        BY <1>t, <2>2 DEF LevelDone, RunsTyped, RunRecord
      <4> QED BY <4>1, NextAtTyped DEF Active
    <3> HIDE DEF Active
    <3>2. ASSUME NEW t PROVE t \in Working' <=> t \in Working
      BY <3>1 DEF Working
    <3>3. Working' = Working
      BY <3>2
    <3> QED BY <3>1, <3>3, Untouched
  <2>3. ASSUME NEW i \in Items, ItemStep(r, i) PROVE LifecycleMoves
    <3>1. UNCHANGED <<cs, run>>
      BY <2>3 DEF ItemStep, StartItem, StartItemFails, ForgetGone, FetchPlan, EndItem
    <3> QED BY <3>1, SameWorking, Untouched
  <2> QED BY <1>4, <2>1, <2>2, <2>3 DEF RunStep
<1>5. ASSUME NEW r \in Runs, NEW i \in Items, NEW s, Decide(r, i, s) PROVE LifecycleMoves
  BY <1>5, SameWorking, Untouched DEF Decide
<1>6. ASSUME NEW i \in Items, NEW a, DryRunSettles(i, a) \/ DryRunReset(i) PROVE LifecycleMoves
  BY <1>6, SameWorking, Untouched DEF DryRunSettles, DryRunReset
<1>7. CASE UNCHANGED vars
  BY <1>7, SameWorking, Untouched
<1> QED BY <1>1, <1>2, <1>3, <1>4, <1>5, <1>6, <1>7 DEF Next

\* With one request at a time, the changesets of a project implement the
\* lifecycle they promise, though discard, closeChangeSet, cancelChangeSet
\* and reopenChangeSet write by id whatever the status is, and closeChangeSet
\* and cancelChangeSet may throw after their commit and be reopened: one
\* draft, one run at work on a changeset, and no end undone but by that run.
THEOREM LifecycleRefinement == OneAtATime /\ Spec => ImplementsLifecycle
<1>1. Init => Lifecycle!Init
  BY DEF Init, Lifecycle!Init, Working, Active, Unused
<1>2. SerialInv /\ [Next]_vars => [Lifecycle!Next]_<<cs, Working>>
  BY LifecycleStep DEF LifecycleMoves
<1> QED BY <1>1, <1>2, SerialInvariance, PTL
        DEF Spec, ImplementsLifecycle, Lifecycle!Spec
============================================================================
