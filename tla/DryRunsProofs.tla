--------------------------- MODULE DryRunsProofs ---------------------------
(***************************************************************************)
(* Proofs about the dry runs of a draft, for every set of items, every     *)
(* relation of dependencies, any number of requests and of retries, and     *)
(* whatever throws.                                                        *)
(***************************************************************************)
EXTENDS DryRuns, FiniteSetTheorems, TLAPS

(* Bags of executions *)

BagOK(B) == IsABag(B) /\ BagToSet(B) \subseteq Flow /\ IsFiniteSet(BagToSet(B))

\* There is an execution, called or in flight, that may settle the row of i.
Owned(B, i) == \E f \in BagToSet(B) : f.item = i /\ f.fresh

\* A bag has finitely many copies.
LEMMA CopiesFinite ==
    ASSUME NEW B, BagOK(B)
    PROVE  IsFiniteSet(Copies(B))
<1> DEFINE S == BagToSet(B)
           T == {{f} \X (1..B[f]) : f \in S}
           F == [f \in S |-> {f} \X (1..B[f])]
<1>1. F \in Surjection(S, T)
  BY DEF Surjection
<1>2. IsFiniteSet(T)
  BY <1>1, FS_Surjection DEF BagOK
<1>3. ASSUME NEW f \in S PROVE IsFiniteSet({f} \X (1..B[f]))
  <2>1. B[f] \in Nat
    BY DEF BagOK, IsABag, BagToSet
  <2>2. IsFiniteSet({f})
    BY FS_Singleton
  <2>3. IsFiniteSet(1..B[f])
    BY <2>1, 1 \in Int, B[f] \in Int, FS_Interval
  <2> QED BY <2>2, <2>3, FS_Product
<1> HIDE DEF F
<1> QED BY <1>2, <1>3, FS_UNION DEF Copies

\* The image of a bag is a bag, over the image of its members.
LEMMA ImageIs ==
    ASSUME NEW B, BagOK(B), NEW F \in [BagToSet(B) -> Flow]
    PROVE  /\ BagOK(Image(F, B))
           /\ BagToSet(Image(F, B)) = {F[f] : f \in BagToSet(B)}
<1> DEFINE S == BagToSet(B)
           T == {F[f] : f \in S}
           Of(g) == {c \in Copies(B) : F[c[1]] = g}
<1>1. BagToSet(Image(F, B)) = T
  BY DEF Image, BagToSet
<1>2. F \in Surjection(S, T)
  BY DEF Surjection
<1>3. IsFiniteSet(T)
  BY <1>2, FS_Surjection DEF BagOK
<1>4. ASSUME NEW g \in T PROVE Cardinality(Of(g)) \in Nat /\ Cardinality(Of(g)) > 0
  <2>1. PICK f \in S : F[f] = g
    OBVIOUS
  <2>2. B[f] \in Nat /\ B[f] > 0
    BY DEF BagOK, IsABag, BagToSet
  <2>3. <<f, 1>> \in {f} \X (1..B[f])
    BY <2>2
  <2>4. <<f, 1>> \in Copies(B)
    BY <2>3 DEF Copies
  <2>5. <<f, 1>> \in Of(g)
    BY <2>1, <2>4
  <2>6. IsFiniteSet(Of(g))
    BY CopiesFinite, FS_Subset
  <2> HIDE DEF Of
  <2> QED BY <2>5, <2>6, FS_CardinalityType, FS_EmptySet
<1>5. IsABag(Image(F, B))
  BY <1>1, <1>4 DEF IsABag, Image, BagToSet
<1> QED BY <1>1, <1>3, <1>5 DEF BagOK

\* An image in which i's executions keep item and timestamp owns as much.
LEMMA ImageKeeps ==
    ASSUME NEW B, BagOK(B), NEW F \in [BagToSet(B) -> Flow], NEW i,
           \A f \in BagToSet(B) : F[f].item = f.item /\ (f.item = i => F[f].fresh = f.fresh)
    PROVE  Owned(Image(F, B), i) <=> Owned(B, i)
<1>1. BagToSet(Image(F, B)) = {F[f] : f \in BagToSet(B)}
  BY ImageIs
<1> QED BY <1>1 DEF Owned

\* The parts of a bag, and what is added to one.
LEMMA TakeIs ==
    ASSUME BagOK(flows), NEW f \in BagToSet(flows)
    PROVE  /\ BagOK(Take(f))
           /\ BagToSet(Take(f)) \subseteq BagToSet(flows)
           /\ BagToSet(flows) \ {f} \subseteq BagToSet(Take(f))
<1> DEFINE S == BagToSet(flows)
           Left == [g \in S |-> IF g = f THEN flows[g] - 1 ELSE flows[g]]
<1>1. \A g \in S : flows[g] \in Nat /\ flows[g] > 0
  BY DEF BagOK, IsABag, BagToSet
<1>2. Take(f) = [g \in {d \in S : Left[d] > 0} |-> Left[g]]
  BY DEF Take, SetToBag, BagToSet, (-)
<1>3. BagToSet(Take(f)) = {d \in S : Left[d] > 0}
  BY <1>2 DEF BagToSet
<1>4. \A g \in S : Left[g] \in Nat
  BY <1>1
<1>5. IsABag(Take(f))
  BY <1>2, <1>4 DEF IsABag
<1>6. IsFiniteSet(BagToSet(Take(f)))
  BY <1>3, FS_Subset DEF BagOK
<1>7. BagOK(Take(f))
  BY <1>3, <1>5, <1>6 DEF BagOK
<1>8. \A g \in S \ {f} : Left[g] = flows[g] /\ Left[g] > 0
  BY <1>1
<1> HIDE DEF Left
<1> QED BY <1>3, <1>7, <1>8

LEMMA PlusIs ==
    ASSUME NEW B, BagOK(B), NEW C, BagOK(C)
    PROVE  /\ BagOK(B (+) C)
           /\ BagToSet(B (+) C) = BagToSet(B) \cup BagToSet(C)
           /\ \A i : Owned(B (+) C, i) <=> Owned(B, i) \/ Owned(C, i)
<1>1. /\ \A f \in BagToSet(B) : B[f] \in Nat /\ B[f] > 0
      /\ \A f \in BagToSet(C) : C[f] \in Nat /\ C[f] > 0
  BY DEF BagOK, IsABag, BagToSet
<1>2. BagToSet(B (+) C) = BagToSet(B) \cup BagToSet(C)
  BY DEF BagToSet, (+)
<1>3. \A i : Owned(B (+) C, i) <=> Owned(B, i) \/ Owned(C, i)
  BY <1>2 DEF Owned
<1>4. IsABag(B (+) C)
  BY <1>1 DEF BagToSet, IsABag, (+)
<1>5. IsFiniteSet(BagToSet(B (+) C))
  BY <1>2, FS_Union DEF BagOK
<1> QED BY <1>2, <1>3, <1>4, <1>5 DEF BagOK

LEMMA SetIs ==
    ASSUME NEW S \in SUBSET Flow, IsFiniteSet(S)
    PROVE  BagOK(SetToBag(S)) /\ BagToSet(SetToBag(S)) = S
BY DEF BagOK, IsABag, SetToBag, BagToSet

LEMMA OneIs ==
    ASSUME NEW f \in Flow
    PROVE  BagOK(SetToBag({f})) /\ BagToSet(SetToBag({f})) = {f}
<1>1. {f} \in SUBSET Flow /\ IsFiniteSet({f})
  BY FS_Singleton
<1> QED BY <1>1, SetIs

LEMMA EmptyIs == BagOK(EmptyBag) /\ BagToSet(EmptyBag) = {}
BY SetIs, FS_EmptySet DEF EmptyBag

\* Who owns a row after another row's execution has gone.
LEMMA TakeKeeps ==
    ASSUME BagOK(flows), NEW f \in BagToSet(flows), NEW i, ~(f.item = i /\ f.fresh)
    PROVE  Owned(Take(f), i) <=> Owned(flows, i)
BY TakeIs DEF Owned

LEMMA OvertakeIs ==
    ASSUME NEW I, NEW f \in Flow
    PROVE  /\ Overtake(I, f) \in Flow
           /\ Overtake(I, f).item = f.item /\ Overtake(I, f).at = f.at
           /\ Overtake(I, f).self = f.self /\ Overtake(I, f).seen = f.seen \ I
           /\ Overtake(I, f).fresh = (f.fresh /\ f.item \notin I)
BY DEF Flow, Overtake

\* Writes of rows: the executions of the items I are overtaken.
LEMMA AfterIs ==
    ASSUME NEW B, BagOK(B), NEW I
    PROVE  /\ BagOK(After(I, B))
           /\ BagToSet(After(I, B)) = {Overtake(I, f) : f \in BagToSet(B)}
           /\ \A f \in BagToSet(B) :
                /\ Overtake(I, f) \in Flow
                /\ Overtake(I, f).item = f.item /\ Overtake(I, f).at = f.at
                /\ Overtake(I, f).self = f.self /\ Overtake(I, f).seen = f.seen \ I
                /\ Overtake(I, f).fresh = (f.fresh /\ f.item \notin I)
           /\ \A i \in I : ~Owned(After(I, B), i)
           /\ \A i : i \notin I => (Owned(After(I, B), i) <=> Owned(B, i))
<1> DEFINE F == [f \in BagToSet(B) |-> Overtake(I, f)]
<1>1. ASSUME NEW f \in BagToSet(B)
      PROVE  /\ Overtake(I, f) \in Flow
             /\ Overtake(I, f).item = f.item /\ Overtake(I, f).at = f.at
             /\ Overtake(I, f).self = f.self /\ Overtake(I, f).seen = f.seen \ I
             /\ Overtake(I, f).fresh = (f.fresh /\ f.item \notin I)
  <2>1. f \in Flow
    BY DEF BagOK
  <2> QED BY <2>1, OvertakeIs
<1>2. F \in [BagToSet(B) -> Flow]
  BY <1>1
<1>3. \A f \in BagToSet(B) : F[f] = Overtake(I, f)
  OBVIOUS
<1>4. After(I, B) = Image(F, B)
  BY DEF After
<1> HIDE DEF F
<1>5. /\ BagOK(After(I, B))
      /\ BagToSet(After(I, B)) = {Overtake(I, f) : f \in BagToSet(B)}
  BY <1>2, <1>3, <1>4, ImageIs
<1>6. ASSUME NEW i \in I, NEW g \in BagToSet(After(I, B)), g.item = i PROVE ~g.fresh
  <2>1. PICK f \in BagToSet(B) : g = Overtake(I, f)
    BY <1>5
  <2> QED BY <1>1, <1>6, <2>1
<1>7. ASSUME NEW i, i \notin I
      PROVE  Owned(After(I, B), i) <=> Owned(B, i)
  <2>1. \A f \in BagToSet(B) : F[f].item = f.item /\ (f.item = i => F[f].fresh = f.fresh)
    <3>1. \A f \in BagToSet(B) : f.fresh \in BOOLEAN
      BY DEF BagOK, Flow
    <3> QED BY <1>1, <1>3, <1>7, <3>1
  <2> QED BY <1>2, <1>4, <2>1, ImageKeeps
<1>8. \A i \in I : ~Owned(After(I, B), i)
  BY <1>6 DEF Owned
<1> QED BY <1>1, <1>5, <1>7, <1>8

\* Edits of an item: its executions no longer speak of the present content.
LEMMA EditedIs ==
    ASSUME NEW B, BagOK(B), NEW i
    PROVE  /\ BagOK(Edited(i, B))
           /\ BagToSet(Edited(i, B)) = {Reread(i, f) : f \in BagToSet(B)}
           /\ \A f \in BagToSet(B) :
                /\ Reread(i, f) \in Flow
                /\ Reread(i, f).item = f.item /\ Reread(i, f).at = f.at
                /\ Reread(i, f).fresh = f.fresh /\ Reread(i, f).seen = f.seen
                /\ f.item # i => Reread(i, f).self = f.self
           /\ \A d : Owned(Edited(i, B), d) <=> Owned(B, d)
<1> DEFINE F == [f \in BagToSet(B) |-> Reread(i, f)]
<1>1. ASSUME NEW f \in BagToSet(B)
      PROVE  /\ Reread(i, f) \in Flow
             /\ Reread(i, f).item = f.item /\ Reread(i, f).at = f.at
             /\ Reread(i, f).fresh = f.fresh /\ Reread(i, f).seen = f.seen
             /\ f.item # i => Reread(i, f).self = f.self
  <2>1. f \in Flow
    BY DEF BagOK
  <2> QED BY <2>1 DEF Flow, Reread
<1>2. F \in [BagToSet(B) -> Flow]
  BY <1>1
<1>3. \A f \in BagToSet(B) : F[f] = Reread(i, f)
  OBVIOUS
<1>4. Edited(i, B) = Image(F, B)
  BY DEF Edited
<1> HIDE DEF F
<1>5. /\ BagOK(Edited(i, B))
      /\ BagToSet(Edited(i, B)) = {Reread(i, f) : f \in BagToSet(B)}
  BY <1>2, <1>3, <1>4, ImageIs
<1>6. ASSUME NEW d PROVE Owned(Edited(i, B), d) <=> Owned(B, d)
  <2>1. \A f \in BagToSet(B) : F[f].item = f.item /\ (f.item = d => F[f].fresh = f.fresh)
    BY <1>1, <1>3
  <2> QED BY <1>2, <1>4, <2>1, ImageKeeps
<1> QED BY <1>1, <1>5, <1>6

\* A start() is due for each of the items I.
LEMMA CallsIs ==
    ASSUME NEW I \in SUBSET Items, IsFiniteSet(I), NEW at \in {"call", "step"}
    PROVE  /\ BagOK(Calls(I, at))
           /\ \A f \in BagToSet(Calls(I, at)) :
                f.item \in I /\ f.at = at /\ f.fresh = TRUE /\ f.self = TRUE
           /\ \A i : Owned(Calls(I, at), i) <=> i \in I
<1> DEFINE New(i) == [item |-> i, at |-> at, fresh |-> TRUE, self |-> TRUE, seen |-> {}]
           S == {New(i) : i \in I}
           F == [i \in I |-> New(i)]
<1>1. F \in Surjection(I, S)
  BY DEF Surjection
<1>2. IsFiniteSet(S)
  BY <1>1, FS_Surjection
<1>3. ASSUME NEW i \in I
      PROVE  New(i) \in Flow /\ New(i) \in S /\ New(i).item = i /\ New(i).fresh
  BY DEF Flow, Unread
<1>4. Calls(I, at) = SetToBag(S)
  BY DEF Calls
<1>5. \A f \in S : f.item \in I /\ f.at = at /\ f.fresh = TRUE /\ f.self = TRUE
  OBVIOUS
<1>6. S \in SUBSET Flow
  BY <1>3
<1> HIDE DEF S
<1>7. BagOK(Calls(I, at)) /\ BagToSet(Calls(I, at)) = S
  BY <1>2, <1>4, <1>6, SetIs
<1>8. \A i : Owned(Calls(I, at), i) <=> i \in I
  BY <1>3, <1>5, <1>7 DEF Owned
<1> QED BY <1>5, <1>7, <1>8

----------------------------------------------------------------------------
(* The invariant *)

Types ==
    /\ draft \in BOOLEAN
    /\ staged \subseteq Items /\ IsFiniteSet(staged)
    /\ row \in [Items -> Rows]
    /\ BagOK(flows)
    /\ refreshing \in 0..edits /\ edits \in 0..MaxEdits /\ retries \in 0..MaxRetries
    /\ orphaned \subseteq Items /\ missed \subseteq Items

\* Only staged items have pending rows, each with an execution that may settle
\* it, unless that was lost.
OwnersOK ==
    \A i \in Items : IF row[i].action = "pending"
                     THEN i \in staged /\ (i \notin orphaned => Owned(flows, i))
                     ELSE ~Owned(flows, i)

\* An execution that may settle a row has not come to its end, and read what
\* the item holds; so every plan was made from the item's content.
ContentOK ==
    /\ \A f \in BagToSet(flows) : f.fresh => f.at # "trigger" /\ f.self
    /\ \A i \in Items : row[i].self

\* The restart of d's dependents is still to come.
Triggered(d) == \E t \in BagToSet(flows) : t.item = d /\ t.at = "trigger"

\* A plan of i from the rows in seen knows the plans of its siblings, or is
\* about to be made again, or missed that.
UpToDate(i, seen) ==
    \A d \in (DependsOn[i] \cap staged) \ {i} :
        row[d].action = "planned" => d \in seen \/ Triggered(d) \/ i \in missed

PlansOK ==
    draft =>
        /\ \A i \in staged : row[i].action = "planned" => UpToDate(i, row[i].seen)
        /\ \A f \in BagToSet(flows) : f.fresh /\ f.at = "plan" => UpToDate(f.item, f.seen)

Inv == Types /\ OwnersOK /\ ContentOK /\ PlansOK

LEMMA Initially == Init => Inv
<1> SUFFICES ASSUME Init PROVE Inv
  OBVIOUS
<1>1. BagOK(flows) /\ BagToSet(flows) = {}
  BY EmptyIs DEF Init
<1>2. IsFiniteSet(staged)
  BY FS_EmptySet DEF Init
<1>3. \A i \in Items : row[i] \in Rows /\ row[i].action = "none" /\ row[i].self
  BY DEF Init, Plain, Rows, Actions
<1>4. Types
  BY <1>1, <1>2, <1>3, DryRunsAssumption DEF Types, Init
<1>5. OwnersOK /\ ContentOK /\ PlansOK
  BY <1>1, <1>3 DEF OwnersOK, Owned, ContentOK, PlansOK, Init
<1> QED BY <1>4, <1>5 DEF Inv

\* What the executions in flight are about.
LEMMA FreshIs ==
    ASSUME Inv, NEW f \in BagToSet(flows)
    PROVE  /\ f \in Flow
           /\ f.fresh => f.item \in staged /\ row[f.item].action = "pending"
<1>1. f \in Flow
  BY DEF Inv, Types, BagOK
<1>2. f.item \in Items
  BY <1>1 DEF Flow
<1> QED BY <1>1, <1>2 DEF Inv, OwnersOK, Owned

----------------------------------------------------------------------------
(* Rows I start over, beside the executions in B *)

\* B holds what was in flight: only executions of the items I may have
\* been edited, and a trigger is gone only with its dependents among I.
Carries(B, I) ==
    /\ \A g \in BagToSet(B) : \E f \in BagToSet(flows) :
          /\ g.item = f.item /\ g.at = f.at /\ g.fresh = f.fresh /\ g.seen = f.seen
          /\ g.item \notin I => g.self = f.self
    /\ \A i \in Items \ I : Owned(flows, i) <=> Owned(B, i)
    /\ draft => \A t \in BagToSet(flows) : t.at = "trigger" =>
          \/ \E g \in BagToSet(B) : g.item = t.item /\ g.at = "trigger"
          \/ \A i \in staged \ {t.item} : t.item \in DependsOn[i] => i \in I

LEMMA RestartRows ==
    ASSUME Inv, NEW I \in SUBSET Items, WriteRows(I, Plain("pending"))
    PROVE  /\ row' \in [Items -> Rows]
           /\ \A i \in I : row'[i].action = "pending" /\ row'[i].self
           /\ \A i \in Items \ I : /\ row'[i].action = row[i].action
                                   /\ row'[i].self = row[i].self
                                   /\ row'[i].seen = row[i].seen \ I
<1>1. row \in [Items -> Rows]
  BY DEF Inv, Types
<1>2. ASSUME NEW i \in Items
      PROVE  /\ Plain("pending") \in Rows
             /\ [row[i] EXCEPT !.seen = @ \ I] \in Rows
  BY <1>1 DEF Rows, Plain, Actions
<1>3. row' \in [Items -> Rows]
  BY <1>2 DEF WriteRows
<1>4. \A i \in I : row'[i] = Plain("pending")
  BY DEF WriteRows
<1>5. ASSUME NEW i \in Items \ I
      PROVE  /\ row'[i].action = row[i].action
             /\ row'[i].self = row[i].self
             /\ row'[i].seen = row[i].seen \ I
  <2>1. row'[i] = [row[i] EXCEPT !.seen = @ \ I]
    BY DEF WriteRows
  <2>2. row[i] \in Rows
    BY <1>1
  <2> QED BY <2>1, <2>2 DEF Rows
<1> QED BY <1>3, <1>4, <1>5 DEF Plain

LEMMA ResetKeeps ==
    ASSUME Inv, NEW I \in SUBSET Items, IsFiniteSet(I), NEW S \in SUBSET I,
           NEW at \in {"call", "step"}, NEW B, BagOK(B), Carries(B, I),
           Reset(I, S, at, B), staged' = staged \cup I, draft' = draft,
           edits' \in 0..MaxEdits, refreshing' \in 0..edits', retries' \in 0..MaxRetries
    PROVE  Inv'
<1>r. /\ row' \in [Items -> Rows]
      /\ \A i \in I : row'[i].action = "pending" /\ row'[i].self
      /\ \A i \in Items \ I : /\ row'[i].action = row[i].action
                              /\ row'[i].self = row[i].self
                              /\ row'[i].seen = row[i].seen \ I
  BY RestartRows DEF Reset
<1>f. /\ flows' = After(I, B) (+) Calls(S, at)
      /\ orphaned' = (orphaned \ I) \cup (I \ S) /\ missed' = missed \ I
  BY DEF Reset
<1>s. S \in SUBSET Items /\ IsFiniteSet(S)
  BY FS_Subset
<1>a. BagOK(After(I, B)) /\ BagOK(Calls(S, at))
  BY <1>s, AfterIs, CallsIs
<1>1. /\ BagOK(flows') /\ BagToSet(flows') = BagToSet(After(I, B)) \cup BagToSet(Calls(S, at))
      /\ \A i : Owned(flows', i) <=> Owned(After(I, B), i) \/ Owned(Calls(S, at), i)
  BY <1>f, <1>a, PlusIs
<1>2. Types'
  <2>1. IsFiniteSet(staged')
    BY FS_Union DEF Inv, Types
  <2> QED BY <1>r, <1>f, <1>1, <2>1 DEF Inv, Types
\* Whatever is in flight now has just started, or was in flight before.
<1>3. ASSUME NEW g \in BagToSet(flows')
      PROVE  \/ g.item \in I /\ g.at \in {"call", "step"} /\ g.self
             \/ \E f \in BagToSet(flows) :
                  /\ g.item = f.item /\ g.at = f.at /\ g.seen = f.seen \ I
                  /\ g.fresh => f.fresh /\ g.item \notin I /\ g.self = f.self
  <2>1. CASE g \in BagToSet(Calls(S, at))
    BY <1>s, <2>1, CallsIs
  <2>2. CASE g \in BagToSet(After(I, B))
    <3>1. PICK h \in BagToSet(B) : g = Overtake(I, h)
      BY <2>2, AfterIs
    <3>2. /\ g.item = h.item /\ g.at = h.at /\ g.self = h.self /\ g.seen = h.seen \ I
          /\ g.fresh = (h.fresh /\ h.item \notin I)
      <4>1. h \in Flow
        BY DEF BagOK
      <4> QED BY <3>1, <4>1, OvertakeIs
    <3>3. PICK f \in BagToSet(flows) :
                 /\ h.item = f.item /\ h.at = f.at /\ h.fresh = f.fresh /\ h.seen = f.seen
                 /\ h.item \notin I => h.self = f.self
      BY DEF Carries
    <3> QED BY <3>2, <3>3
  <2> QED BY <1>1, <2>1, <2>2
<1>4. OwnersOK'
  <2>1. ASSUME NEW i \in I PROVE i \notin orphaned' => Owned(flows', i)
    BY <1>f, <1>s, <1>1, CallsIs
  <2>2. ASSUME NEW i \in Items \ I
        PROVE  (Owned(flows', i) <=> Owned(flows, i)) /\ (i \in orphaned' <=> i \in orphaned)
    <3>1. Owned(flows, i) <=> Owned(B, i)
      BY DEF Carries
    <3>2. ~Owned(Calls(S, at), i)
      BY <1>s, CallsIs
    <3>3. Owned(After(I, B), i) <=> Owned(B, i)
      BY AfterIs
    <3> QED BY <1>f, <1>1, <3>1, <3>2, <3>3
  <2>3. ASSUME NEW i \in Items
        PROVE  IF row'[i].action = "pending"
               THEN i \in staged' /\ (i \notin orphaned' => Owned(flows', i))
               ELSE ~Owned(flows', i)
    BY <1>r, <2>1, <2>2 DEF Inv, OwnersOK
  <2> QED BY <2>3 DEF OwnersOK, Owned
<1>5. ContentOK'
  <2>1. \A g \in BagToSet(flows') : g.fresh => g.at # "trigger" /\ g.self
    BY <1>3 DEF Inv, ContentOK
  <2>2. \A i \in Items : row'[i].self
    BY <1>r DEF Inv, ContentOK
  <2> QED BY <2>1, <2>2 DEF ContentOK
<1>6. PlansOK'
  <2> SUFFICES ASSUME draft'
               PROVE  /\ \A i \in staged' : row'[i].action = "planned" => UpToDate(i, row[i].seen)'
                      /\ \A f \in BagToSet(flows') : f.fresh /\ f.at = "plan" =>
                           \A d \in (DependsOn[f.item] \cap staged') \ {f.item} :
                              row'[d].action = "planned" =>
                                 d \in f.seen \/ Triggered(d)' \/ f.item \in missed'
    BY DEF PlansOK, UpToDate
  \* What was up to date stays so.
  <2>1. ASSUME NEW i \in staged \ I, NEW seen, UpToDate(i, seen),
               NEW d \in (DependsOn[i] \cap staged') \ {i}, row'[d].action = "planned"
        PROVE  d \in seen \ I \/ Triggered(d)' \/ i \in missed'
    <3>1. i \in Items /\ DependsOn[i] \subseteq Items /\ d \in Items
      BY DryRunsAssumption DEF Inv, Types
    <3>2. d \notin I /\ d \in staged /\ row[d].action = "planned"
      BY <1>r, <2>1, <3>1
    <3>3. CASE d \in seen
      BY <3>2, <3>3
    <3>4. CASE Triggered(d)
      <4>1. PICK t \in BagToSet(flows) : t.item = d /\ t.at = "trigger"
        BY <3>4 DEF Triggered
      <4>2. i \in staged \ {t.item} /\ t.item \in DependsOn[i]
        BY <2>1, <4>1
      <4>3. PICK g \in BagToSet(B) : g.item = d /\ g.at = "trigger"
        BY <2>1, <4>1, <4>2 DEF Carries
      <4>4. /\ Overtake(I, g) \in BagToSet(After(I, B))
            /\ Overtake(I, g).item = d /\ Overtake(I, g).at = "trigger"
        BY <4>3, AfterIs
      <4> QED BY <1>1, <4>4 DEF Triggered
    <3> QED BY <1>f, <2>1, <3>2, <3>3, <3>4 DEF UpToDate
  <2>2. ASSUME NEW i \in staged', row'[i].action = "planned" PROVE UpToDate(i, row[i].seen)'
    <3>1. i \in Items
      BY DEF Inv, Types
    <3>2. i \notin I /\ i \in staged /\ row[i].action = "planned" /\ row'[i].seen = row[i].seen \ I
      BY <1>r, <2>2, <3>1
    <3>3. UpToDate(i, row[i].seen)
      BY <3>2 DEF Inv, PlansOK
    <3> QED BY <2>1, <3>2, <3>3 DEF UpToDate
  <2>3. ASSUME NEW g \in BagToSet(flows'), g.fresh, g.at = "plan",
               NEW d \in (DependsOn[g.item] \cap staged') \ {g.item}, row'[d].action = "planned"
        PROVE  d \in g.seen \/ Triggered(d)' \/ g.item \in missed'
    <3>1. PICK f \in BagToSet(flows) :
                 /\ g.item = f.item /\ g.at = f.at /\ g.seen = f.seen \ I
                 /\ f.fresh /\ g.item \notin I
      BY <1>3, <2>3
    <3>2. f.item \in staged
      BY <3>1, FreshIs
    <3>3. UpToDate(f.item, f.seen)
      BY <2>3, <3>1 DEF Inv, PlansOK
    <3> QED BY <2>1, <2>3, <3>1, <3>2, <3>3
  <2> QED BY <2>2, <2>3
<1> QED BY <1>2, <1>4, <1>5, <1>6 DEF Inv

\* What was in flight, as it was.
LEMMA CarriesSelf ==
    ASSUME NEW I
    PROVE  Carries(flows, I)
BY DEF Carries

\* A request is counted.
LEMMA RequestIs ==
    ASSUME Inv, Request
    PROVE  /\ edits' \in 0..MaxEdits /\ retries' \in 0..MaxRetries /\ draft' = draft
           /\ refreshing \in 0..edits' /\ refreshing + 1 \in 0..edits'
BY DryRunsAssumption DEF Request, Inv, Types

LEMMA StageKeeps ==
    ASSUME Inv, NEW i \in Items, stageItem(i)
    PROVE  Inv'
<1>1. IsFiniteSet({i}) /\ {i} \in SUBSET Items
  BY FS_Singleton
<1>2. Request /\ Reset({i}, {i}, "call", flows) /\ staged' = staged \cup {i}
      /\ refreshing' = refreshing
  BY DEF stageItem, Restart
<1>3. BagOK(flows)
  BY DEF Inv, Types
<1> QED BY <1>1, <1>2, <1>3, RequestIs, CarriesSelf, ResetKeeps

LEMMA UpdateKeeps ==
    ASSUME Inv, NEW i \in Items, updateItem(i)
    PROVE  Inv'
<1>1. IsFiniteSet({i}) /\ {i} \in SUBSET Items
  BY FS_Singleton
<1>3. /\ Request /\ Reset({i}, {i}, "call", Edited(i, flows)) /\ staged' = staged \cup {i}
      /\ refreshing' = refreshing
  BY DEF updateItem, Restart
<1>4. BagOK(flows)
  BY DEF Inv, Types
<1>5. Carries(Edited(i, flows), {i})
  <2>1. ASSUME NEW g \in BagToSet(Edited(i, flows))
        PROVE  \E f \in BagToSet(flows) :
                  /\ g.item = f.item /\ g.at = f.at /\ g.fresh = f.fresh /\ g.seen = f.seen
                  /\ g.item \notin {i} => g.self = f.self
    <3>1. PICK f \in BagToSet(flows) : g = Reread(i, f)
      BY <1>4, EditedIs
    <3> QED BY <1>4, <3>1, EditedIs
  <2>2. \A t \in BagToSet(flows) :
          /\ Reread(i, t) \in BagToSet(Edited(i, flows))
          /\ Reread(i, t).item = t.item /\ Reread(i, t).at = t.at
    BY <1>4, EditedIs
  <2>3. \A d \in Items : Owned(flows, d) <=> Owned(Edited(i, flows), d)
    BY <1>4, EditedIs
  <2> QED BY <2>1, <2>2, <2>3 DEF Carries
<1> QED BY <1>1, <1>3, <1>4, <1>5, RequestIs, EditedIs, ResetKeeps

\* resetChangeSetDryRuns, with or without the starts to come.
LEMMA RefreshKeeps ==
    ASSUME Inv, resetChangeSetDryRuns
    PROVE  Inv'
<1> DEFINE I == IF draft THEN staged ELSE {}
<1>1. BagOK(flows) /\ staged \subseteq Items /\ IsFiniteSet(staged) /\ edits \in 0..MaxEdits
      /\ refreshing \in 0..edits /\ retries \in 0..MaxRetries
  BY DEF Inv, Types
<1>2. I \in SUBSET Items /\ IsFiniteSet(I) /\ staged \cup I = staged
  BY <1>1, FS_Subset
<1>3. \E S \in SUBSET I : Reset(I, S, "step", flows)
  BY DEF resetChangeSetDryRuns, Restart
<1>4. /\ staged' = staged /\ draft' = draft /\ edits' = edits
      /\ refreshing' \in 0..edits /\ retries' \in 0..MaxRetries
  BY <1>1, DryRunsAssumption DEF resetChangeSetDryRuns, Retry
<1> HIDE DEF I
<1>5. Carries(flows, I)
  BY CarriesSelf
<1> QED BY <1>1, <1>2, <1>3, <1>4, <1>5, ResetKeeps

LEMMA TriggerKeeps ==
    ASSUME Inv, NEW f \in BagToSet(flows), startDependentDryRuns(f)
    PROVE  Inv'
<1> DEFINE I == Dependents(f.item)
<1>1. BagOK(flows) /\ staged \subseteq Items /\ IsFiniteSet(staged) /\ edits \in 0..MaxEdits
      /\ refreshing \in 0..edits /\ retries \in 0..MaxRetries
  BY DEF Inv, Types
<1>2. I \subseteq staged
  BY DEF Dependents
<1>3. IsFiniteSet(I) /\ I \in SUBSET Items
  BY <1>1, <1>2, FS_Subset
<1>4. f.at = "trigger" /\ ~f.fresh
  BY DEF startDependentDryRuns, Inv, ContentOK
<1>5. Carries(Take(f), I)
  <2>1. BagToSet(Take(f)) \subseteq BagToSet(flows)
    BY <1>1, TakeIs
  <2>2. \A i \in Items : Owned(flows, i) <=> Owned(Take(f), i)
    BY <1>1, <1>4, TakeKeeps
  <2>3. ASSUME draft, NEW t \in BagToSet(flows), t.at = "trigger"
        PROVE  \/ \E g \in BagToSet(Take(f)) : g.item = t.item /\ g.at = "trigger"
               \/ \A i \in staged \ {t.item} : t.item \in DependsOn[i] => i \in I
    <3>1. CASE t = f
      BY <2>3, <3>1 DEF Dependents
    <3>2. CASE t # f
      <4>1. t \in BagToSet(Take(f))
        BY <1>1, <3>2, TakeIs
      <4> QED BY <2>3, <4>1
    <3> QED BY <3>1, <3>2
  <2> HIDE DEF I
  <2> QED BY <2>1, <2>2, <2>3 DEF Carries
<1>6. /\ Reset(I, I, "call", Take(f)) \/ Reset(I, I, "call", flows)
      /\ staged' = staged \cup I /\ draft' = draft /\ edits' = edits
      /\ refreshing' = refreshing /\ retries' \in 0..MaxRetries
  BY <1>1, <1>2, DryRunsAssumption DEF startDependentDryRuns, Requests, Restart, Retry
<1>7. BagOK(Take(f))
  BY <1>1, TakeIs
<1> HIDE DEF I
<1>8. Carries(flows, I)
  BY CarriesSelf
<1> QED BY <1>1, <1>3, <1>5, <1>6, <1>7, <1>8, ResetKeeps

----------------------------------------------------------------------------
(* Steps of executions *)

\* Steps that write no row.  What may settle a row may still, or its loss is
\* noted; and a restart that will not come is noted too.
LEMMA FlowsKeep ==
    ASSUME Inv, UNCHANGED <<draft, staged, row>>, BagOK(flows'),
           edits' \in 0..MaxEdits, refreshing' \in 0..edits', retries' \in 0..MaxRetries,
           orphaned \subseteq orphaned', orphaned' \subseteq Items,
           missed \subseteq missed', missed' \subseteq Items,
           \A g \in BagToSet(flows') : g.fresh =>
              /\ g.at # "trigger"
              /\ \E f \in BagToSet(flows) :
                    /\ f.item = g.item /\ f.fresh /\ f.self = g.self
                    /\ g.at = "plan" => \/ f.at = "plan" /\ f.seen = g.seen
                                       \/ g.seen = DependsOn[g.item] \cap staged,
           \A i \in Items : Owned(flows, i) => Owned(flows', i) \/ i \in orphaned',
           \A d : Triggered(d) => Triggered(d)' \/ Dependents(d) \subseteq missed'
    PROVE  Inv'
<1>1. Types'
  BY DEF Inv, Types
<1>2. OwnersOK'
  <2>1. \A i \in Items : Owned(flows', i) => Owned(flows, i)
    BY DEF Owned
  <2>2. ASSUME NEW i \in Items
        PROVE  IF row'[i].action = "pending"
               THEN i \in staged' /\ (i \notin orphaned' => Owned(flows', i))
               ELSE ~Owned(flows', i)
    BY <2>1 DEF Inv, OwnersOK
  <2> QED BY <2>2 DEF OwnersOK, Owned
<1>3. ContentOK'
  BY DEF Inv, ContentOK
<1>4. PlansOK'
  <2> SUFFICES ASSUME draft'
               PROVE  /\ \A i \in staged' : row'[i].action = "planned" => UpToDate(i, row[i].seen)'
                      /\ \A f \in BagToSet(flows') : f.fresh /\ f.at = "plan" =>
                           \A d \in (DependsOn[f.item] \cap staged') \ {f.item} :
                              row'[d].action = "planned" =>
                                 d \in f.seen \/ Triggered(d)' \/ f.item \in missed'
    BY DEF PlansOK, UpToDate
  <2>1. ASSUME NEW i \in staged, NEW seen, UpToDate(i, seen),
               NEW d \in (DependsOn[i] \cap staged) \ {i}, row[d].action = "planned"
        PROVE  d \in seen \/ Triggered(d)' \/ i \in missed'
    BY <2>1 DEF UpToDate, Dependents
  <2>2. ASSUME NEW i \in staged', row'[i].action = "planned" PROVE UpToDate(i, row[i].seen)'
    <3>1. UpToDate(i, row[i].seen)
      BY <2>2 DEF Inv, PlansOK
    <3> QED BY <2>1, <2>2, <3>1 DEF UpToDate
  <2>3. ASSUME NEW g \in BagToSet(flows'), g.fresh, g.at = "plan",
               NEW d \in (DependsOn[g.item] \cap staged') \ {g.item}, row'[d].action = "planned"
        PROVE  d \in g.seen \/ Triggered(d)' \/ g.item \in missed'
    <3>1. PICK f \in BagToSet(flows) :
                 /\ f.item = g.item /\ f.fresh
                 /\ \/ f.at = "plan" /\ f.seen = g.seen
                    \/ g.seen = DependsOn[g.item] \cap staged
      BY <2>3
    <3>2. CASE f.at = "plan" /\ f.seen = g.seen
      <4>1. UpToDate(f.item, f.seen) /\ f.item \in staged
        BY <3>1, <3>2, FreshIs DEF Inv, PlansOK
      <4> QED BY <2>1, <2>3, <3>1, <3>2, <4>1
    <3>3. CASE g.seen = DependsOn[g.item] \cap staged
      BY <2>3, <3>3
    <3> QED BY <3>1, <3>2, <3>3
  <2> QED BY <2>2, <2>3
<1> QED BY <1>1, <1>2, <1>3, <1>4 DEF Inv

\* What an execution that has lost its row leaves behind.
LEMMA StaleKeeps ==
    ASSUME Inv, NEW f \in BagToSet(flows), f.at # "trigger", ~f.fresh,
           NEW rest, BagOK(rest), \A g \in BagToSet(rest) : ~g.fresh,
           flows' = Take(f) (+) rest, UNCHANGED <<Requests, row, retries, orphaned, missed>>
    PROVE  Inv'
<1>1. BagOK(flows) /\ edits \in 0..MaxEdits /\ refreshing \in 0..edits
      /\ retries \in 0..MaxRetries /\ orphaned \subseteq Items /\ missed \subseteq Items
  BY DEF Inv, Types
<1>2. /\ BagOK(Take(f))
      /\ BagToSet(Take(f)) \subseteq BagToSet(flows)
      /\ BagToSet(flows) \ {f} \subseteq BagToSet(Take(f))
  BY <1>1, TakeIs
<1>3. BagOK(flows') /\ BagToSet(flows') = BagToSet(Take(f)) \cup BagToSet(rest)
  BY <1>2, PlusIs
<1>4. \A i : Owned(flows, i) => Owned(flows', i)
  BY <1>2, <1>3 DEF Owned
<1>5. \A d : Triggered(d) => Triggered(d)'
  BY <1>2, <1>3 DEF Triggered
<1>6. \A g \in BagToSet(flows') : g.fresh => g \in BagToSet(flows) /\ g.at # "trigger"
  BY <1>2, <1>3 DEF Inv, ContentOK
<1> QED BY <1>1, <1>3, <1>4, <1>5, <1>6, FlowsKeep DEF Requests

\* An execution that settles its row with r; when r holds a plan, the restart
\* of the dependents is among the rest.
LEMMA SettleKeeps ==
    ASSUME Inv, NEW f \in BagToSet(flows), f.at # "trigger", f.fresh,
           NEW r \in Rows, r.action # "pending", r.self,
           NEW rest, BagOK(rest), \A g \in BagToSet(rest) : ~g.fresh,
           r.action = "planned" =>
               /\ f.at = "plan" /\ r.seen = f.seen
               /\ \E g \in BagToSet(rest) : g.item = f.item /\ g.at = "trigger",
           WriteRows({f.item}, r), flows' = After({f.item}, Take(f)) (+) rest,
           orphaned' = orphaned \ {f.item}, UNCHANGED <<Requests, retries, missed>>
    PROVE  Inv'
<1> DEFINE I == {f.item}
           A == After(I, Take(f))
<1>1. BagOK(flows) /\ row \in [Items -> Rows] /\ staged \subseteq Items
  BY DEF Inv, Types
<1>2. f \in Flow /\ f.item \in staged /\ f.item \in Items
  BY <1>1, FreshIs
<1>3. /\ BagOK(Take(f))
      /\ BagToSet(Take(f)) \subseteq BagToSet(flows)
      /\ BagToSet(flows) \ {f} \subseteq BagToSet(Take(f))
  BY <1>1, TakeIs
<1>i. A = After(I, Take(f)) /\ \A i : i \in I <=> i = f.item
  OBVIOUS
<1>w. WriteRows(I, r)
  OBVIOUS
<1>p. flows' = A (+) rest /\ orphaned' = orphaned \ I /\ missed' = missed
      /\ UNCHANGED <<draft, staged, refreshing, edits, retries>>
  BY DEF Requests
<1> HIDE DEF I, A
<1>4. BagOK(A) /\ BagToSet(A) = {Overtake(I, h) : h \in BagToSet(Take(f))}
  BY <1>3, <1>i, AfterIs
<1>5. BagOK(flows') /\ BagToSet(flows') = BagToSet(A) \cup BagToSet(rest)
  <2>1. BagOK(A (+) rest) /\ BagToSet(A (+) rest) = BagToSet(A) \cup BagToSet(rest)
    BY <1>4, PlusIs
  <2> QED BY <1>p, <2>1
<1>o. \A h \in BagToSet(Take(f)) :
        /\ Overtake(I, h).item = h.item /\ Overtake(I, h).at = h.at
        /\ Overtake(I, h).self = h.self /\ Overtake(I, h).seen = h.seen \ I
        /\ Overtake(I, h).fresh = (h.fresh /\ h.item \notin I)
  <2>1. \A h \in BagToSet(Take(f)) : h \in Flow
    BY <1>3 DEF BagOK
  <2> QED BY <2>1, OvertakeIs
\* Whatever may settle a row was in flight before.
<1>6. ASSUME NEW g \in BagToSet(flows'), g.fresh
      PROVE  \E h \in BagToSet(flows) :
                /\ g.item = h.item /\ g.at = h.at /\ g.self = h.self /\ g.seen = h.seen \ I
                /\ h.fresh /\ h.item \notin I
  <2>1. PICK h \in BagToSet(Take(f)) : g = Overtake(I, h)
    BY <1>4, <1>5, <1>6
  <2> QED BY <1>3, <1>6, <1>o, <2>1
<1>7. \A d : Triggered(d) => Triggered(d)'
  <2>1. ASSUME NEW t \in BagToSet(flows), t.at = "trigger"
        PROVE  /\ Overtake(I, t) \in BagToSet(flows')
               /\ Overtake(I, t).item = t.item /\ Overtake(I, t).at = "trigger"
    <3>1. t \in BagToSet(Take(f))
      BY <1>3, <2>1
    <3> QED BY <1>4, <1>5, <1>o, <2>1, <3>1
  <2> QED BY <2>1 DEF Triggered
<1>8. /\ row' \in [Items -> Rows]
      /\ row'[f.item] = r
      /\ \A i \in Items \ I : /\ row'[i].action = row[i].action
                              /\ row'[i].self = row[i].self
                              /\ row'[i].seen = row[i].seen \ I
  <2>1. \A i \in Items : row'[i] = IF i \in I THEN r ELSE [row[i] EXCEPT !.seen = @ \ I]
    BY <1>w DEF WriteRows
  <2>2. ASSUME NEW i \in Items
        PROVE  /\ [row[i] EXCEPT !.seen = @ \ I] \in Rows
               /\ [row[i] EXCEPT !.seen = @ \ I].action = row[i].action
               /\ [row[i] EXCEPT !.seen = @ \ I].self = row[i].self
               /\ [row[i] EXCEPT !.seen = @ \ I].seen = row[i].seen \ I
    BY <1>1 DEF Rows
  <2>3. row' \in [Items -> Rows]
    BY <1>w, <2>2 DEF WriteRows
  <2> QED BY <1>2, <1>i, <2>1, <2>2, <2>3
<1>9. Types'
  BY <1>5, <1>8, <1>p DEF Inv, Types
<1>10. OwnersOK'
  <2>1. ~Owned(flows', f.item)
    BY <1>6, <1>i DEF Owned
  <2>2. ASSUME NEW i \in Items \ I
        PROVE  (Owned(flows', i) <=> Owned(flows, i)) /\ (i \in orphaned' <=> i \in orphaned)
    <3>1. Owned(Take(f), i) <=> Owned(flows, i)
      BY <1>1, <1>i, TakeKeeps
    <3>2. Owned(A, i) <=> Owned(Take(f), i)
      BY <1>3, <1>i, AfterIs
    <3>3. ~Owned(rest, i)
      BY DEF Owned
    <3>4. Owned(A (+) rest, i) <=> Owned(A, i) \/ Owned(rest, i)
      BY <1>4, PlusIs
    <3> QED BY <1>p, <3>1, <3>2, <3>3, <3>4
  <2>3. ASSUME NEW i \in Items
        PROVE  IF row'[i].action = "pending"
               THEN i \in staged' /\ (i \notin orphaned' => Owned(flows', i))
               ELSE ~Owned(flows', i)
    <3>1. CASE i = f.item
      BY <1>8, <2>1, <3>1
    <3>2. CASE i # f.item
      <4>1. i \in Items \ I
        BY <1>i, <3>2
      <4> QED BY <1>8, <1>p, <2>2, <4>1 DEF Inv, OwnersOK
    <3> QED BY <3>1, <3>2
  <2> QED BY <2>3 DEF OwnersOK, Owned
<1>11. ContentOK'
  <2>1. \A g \in BagToSet(flows') : g.fresh => g.at # "trigger" /\ g.self
    BY <1>6 DEF Inv, ContentOK
  <2>2. \A i \in Items : row'[i].self
    BY <1>8, <1>i DEF Inv, ContentOK
  <2> QED BY <2>1, <2>2 DEF ContentOK
<1>12. PlansOK'
  <2> SUFFICES ASSUME draft'
               PROVE  /\ \A i \in staged' : row'[i].action = "planned" => UpToDate(i, row[i].seen)'
                      /\ \A g \in BagToSet(flows') : g.fresh /\ g.at = "plan" =>
                           \A d \in (DependsOn[g.item] \cap staged') \ {g.item} :
                              row'[d].action = "planned" =>
                                 d \in g.seen \/ Triggered(d)' \/ g.item \in missed'
    BY DEF PlansOK, UpToDate
  <2>1. row'[f.item].action = "planned" => Triggered(f.item)'
    BY <1>5, <1>8 DEF Triggered
  \* What was up to date stays so.
  <2>2. ASSUME NEW i \in staged, NEW seen, UpToDate(i, seen),
               NEW d \in (DependsOn[i] \cap staged) \ {i}, row'[d].action = "planned"
        PROVE  d \in seen \ I \/ Triggered(d)' \/ i \in missed'
    <3>1. CASE d = f.item
      BY <2>1, <2>2, <3>1
    <3>2. CASE d # f.item
      <4>1. d \in Items /\ d \notin I
        BY <1>1, <1>i, <2>2, <3>2
      <4>2. row[d].action = "planned"
        BY <1>8, <2>2, <4>1
      <4> QED BY <1>7, <1>p, <2>2, <4>1, <4>2 DEF UpToDate
    <3> QED BY <3>1, <3>2
  <2>3. ASSUME NEW i \in staged, row'[i].action = "planned"
        PROVE  \E seen : UpToDate(i, seen) /\ (row'[i].seen = seen \ I \/ row'[i].seen = seen)
    <3>1. CASE i = f.item
      <4>1. f.at = "plan" /\ row'[i].seen = f.seen
        BY <1>8, <2>3, <3>1
      <4>2. UpToDate(f.item, f.seen)
        BY <1>p, <4>1 DEF Inv, PlansOK
      <4> QED BY <3>1, <4>1, <4>2
    <3>2. CASE i # f.item
      <4>1. i \in Items \ I
        BY <1>1, <1>i, <3>2
      <4>2. row[i].action = "planned" /\ row'[i].seen = row[i].seen \ I
        BY <1>8, <2>3, <4>1
      <4> QED BY <1>p, <4>2 DEF Inv, PlansOK
    <3> QED BY <3>1, <3>2
  <2>4. ASSUME NEW i \in staged', row'[i].action = "planned" PROVE UpToDate(i, row[i].seen)'
    <3>1. PICK seen : UpToDate(i, seen) /\ (row'[i].seen = seen \ I \/ row'[i].seen = seen)
      BY <1>p, <2>3, <2>4
    <3>2. \A d \in (DependsOn[i] \cap staged) \ {i} : row'[d].action = "planned" =>
             d \in row'[i].seen \/ Triggered(d)' \/ i \in missed'
      BY <1>p, <2>2, <2>4, <3>1
    <3> QED BY <1>p, <3>2 DEF UpToDate
  <2>5. ASSUME NEW g \in BagToSet(flows'), g.fresh, g.at = "plan",
               NEW d \in (DependsOn[g.item] \cap staged') \ {g.item}, row'[d].action = "planned"
        PROVE  d \in g.seen \/ Triggered(d)' \/ g.item \in missed'
    <3>1. PICK h \in BagToSet(flows) :
                 g.item = h.item /\ g.at = h.at /\ g.seen = h.seen \ I /\ h.fresh
      BY <1>6, <2>5
    <3>2. h.item \in staged /\ UpToDate(h.item, h.seen)
      BY <1>p, <2>5, <3>1, FreshIs DEF Inv, PlansOK
    <3> QED BY <1>p, <2>2, <2>5, <3>1, <3>2
  <2> QED BY <2>4, <2>5
<1> QED BY <1>9, <1>10, <1>11, <1>12 DEF Inv

\* An execution goes on.
LEMMA BecomesKeeps ==
    ASSUME Inv, NEW f \in BagToSet(flows), f.at # "trigger", NEW g \in Flow,
           g.item = f.item, g.fresh = f.fresh, g.self = f.self, g.at # "trigger",
           g.at = "plan" => g.seen = DependsOn[f.item] \cap staged,
           Becomes(f, g), UNCHANGED <<Requests, row, retries, orphaned, missed>>
    PROVE  Inv'
<1>1. BagOK(flows) /\ edits \in 0..MaxEdits /\ refreshing \in 0..edits
      /\ retries \in 0..MaxRetries /\ orphaned \subseteq Items /\ missed \subseteq Items
  BY DEF Inv, Types
<1>2. /\ BagOK(Take(f))
      /\ BagToSet(Take(f)) \subseteq BagToSet(flows)
      /\ BagToSet(flows) \ {f} \subseteq BagToSet(Take(f))
  BY <1>1, TakeIs
<1>3. BagOK(flows') /\ BagToSet(flows') = BagToSet(Take(f)) \cup {g}
  <2> DEFINE C == SetToBag({g})
  <2>1. BagOK(C) /\ BagToSet(C) = {g}
    BY OneIs
  <2>2. flows' = Take(f) (+) C
    BY DEF Becomes
  <2> HIDE DEF C
  <2>3. /\ BagOK(Take(f) (+) C)
        /\ BagToSet(Take(f) (+) C) = BagToSet(Take(f)) \cup BagToSet(C)
    BY <1>2, <2>1, PlusIs
  <2> QED BY <2>1, <2>2, <2>3
<1>4. \A i : Owned(flows, i) => Owned(flows', i)
  BY <1>2, <1>3 DEF Owned
<1>5. \A d : Triggered(d) => Triggered(d)'
  BY <1>2, <1>3 DEF Triggered
<1>6. ASSUME NEW h \in BagToSet(flows'), h.fresh
      PROVE  /\ h.at # "trigger"
             /\ \E k \in BagToSet(flows) :
                   /\ k.item = h.item /\ k.fresh /\ k.self = h.self
                   /\ h.at = "plan" => \/ k.at = "plan" /\ k.seen = h.seen
                                      \/ h.seen = DependsOn[h.item] \cap staged
  <2>1. CASE h = g
    BY <1>6, <2>1
  <2>2. CASE h # g
    <3>1. h \in BagToSet(flows)
      BY <1>2, <1>3, <2>2
    <3>2. h.at # "trigger"
      BY <1>6, <3>1 DEF Inv, ContentOK
    <3> QED BY <1>6, <3>1, <3>2
  <2> QED BY <2>1, <2>2
<1> QED BY <1>1, <1>3, <1>4, <1>5, <1>6, FlowsKeep DEF Requests

\* start() is made once more, under the same timestamp.
LEMMA AgainKeeps ==
    ASSUME Inv, NEW f \in BagToSet(flows), NEW g \in Flow,
           g.item = f.item, g.fresh = f.fresh, g.self = f.self, g.at = "start",
           flows' = flows (+) SetToBag({g}), Retry, UNCHANGED <<Requests, row, orphaned, missed>>
    PROVE  Inv'
<1>1. BagOK(flows) /\ edits \in 0..MaxEdits /\ refreshing \in 0..edits
      /\ retries' \in 0..MaxRetries /\ orphaned \subseteq Items /\ missed \subseteq Items
  BY DryRunsAssumption DEF Retry, Inv, Types
<1>2. BagOK(flows') /\ BagToSet(flows') = BagToSet(flows) \cup {g}
  <2> DEFINE C == SetToBag({g})
  <2>1. BagOK(C) /\ BagToSet(C) = {g}
    BY OneIs
  <2>2. flows' = flows (+) C
    OBVIOUS
  <2> HIDE DEF C
  <2>3. BagOK(flows (+) C) /\ BagToSet(flows (+) C) = BagToSet(flows) \cup BagToSet(C)
    BY <1>1, <2>1, PlusIs
  <2> QED BY <2>1, <2>2, <2>3
<1>3. \A i : Owned(flows, i) => Owned(flows', i)
  BY <1>2 DEF Owned
<1>4. \A d : Triggered(d) => Triggered(d)'
  BY <1>2 DEF Triggered
<1>5. ASSUME NEW h \in BagToSet(flows'), h.fresh
      PROVE  /\ h.at # "trigger"
             /\ \E k \in BagToSet(flows) :
                   /\ k.item = h.item /\ k.fresh /\ k.self = h.self
                   /\ h.at = "plan" => k.at = "plan" /\ k.seen = h.seen
  <2>1. CASE h = g
    BY <1>5, <2>1
  <2>2. CASE h # g
    <3>1. h \in BagToSet(flows)
      BY <1>2, <2>2
    <3>2. h.at # "trigger"
      BY <1>5, <3>1 DEF Inv, ContentOK
    <3> QED BY <1>5, <3>1, <3>2
  <2> QED BY <2>1, <2>2
<1> QED BY <1>1, <1>2, <1>3, <1>4, <1>5, FlowsKeep DEF Requests

\* An execution ends: its row, or its dependents, are noted.
LEMMA GoneKeeps ==
    ASSUME Inv, NEW f \in BagToSet(flows), Orphan(f) \/ TriggerFails(f)
    PROVE  Inv'
<1>1. BagOK(flows) /\ edits \in 0..MaxEdits /\ refreshing \in 0..edits
      /\ retries \in 0..MaxRetries /\ orphaned \subseteq Items /\ missed \subseteq Items
      /\ staged \subseteq Items
  BY DEF Inv, Types
<1>2. /\ BagOK(Take(f))
      /\ BagToSet(Take(f)) \subseteq BagToSet(flows)
      /\ BagToSet(flows) \ {f} \subseteq BagToSet(Take(f))
  BY <1>1, TakeIs
<1>3. f.item \in Items /\ (f.fresh => f.at # "trigger")
  BY FreshIs DEF Flow, Inv, ContentOK
<1>4. flows' = Take(f) /\ UNCHANGED <<draft, staged, row, refreshing, edits, retries>>
  BY DEF Orphan, TriggerFails, Requests
<1>5. \A h \in BagToSet(flows') : h.fresh => h \in BagToSet(flows) /\ h.at # "trigger"
  BY <1>2, <1>4 DEF Inv, ContentOK
<1>6. /\ orphaned \subseteq orphaned' /\ orphaned' \subseteq Items
      /\ missed \subseteq missed' /\ missed' \subseteq Items
      /\ f.fresh => f.item \in orphaned'
      /\ f.at = "trigger" => Dependents(f.item) \subseteq missed'
  BY <1>1, <1>3 DEF Orphan, TriggerFails, Dependents
<1>7. \A i \in Items : Owned(flows, i) => Owned(flows', i) \/ i \in orphaned'
  BY <1>2, <1>4, <1>6 DEF Owned
<1>8. \A d : Triggered(d) => Triggered(d)' \/ Dependents(d) \subseteq missed'
  BY <1>2, <1>4, <1>6 DEF Triggered
<1> QED BY <1>1, <1>2, <1>4, <1>5, <1>6, <1>7, <1>8, FlowsKeep

\* deleteItem: the row is gone, and so are the executions that did not read
\* the item yet; a reference to it is no longer one to a sibling.
LEMMA DeleteKeeps ==
    ASSUME Inv, NEW i \in Items, deleteItem(i)
    PROVE  Inv'
<1> DEFINE S == BagToSet(flows)
           unread == {f \in S : f.item = i /\ f.at \in Unread}
           B == [f \in S \ unread |-> flows[f]]
<1>1. BagOK(flows) /\ row \in [Items -> Rows] /\ staged \subseteq Items /\ IsFiniteSet(staged)
  BY DEF Inv, Types
<1>2. BagToSet(B) = S \ unread
  BY DEF BagToSet
<1>3. \A f \in S : flows[f] \in Nat /\ flows[f] > 0
  BY <1>1 DEF BagOK, IsABag, BagToSet
<1>4. BagOK(B)
  <2>1. IsABag(B)
    BY <1>3 DEF IsABag
  <2>2. IsFiniteSet(S \ unread)
    BY <1>1, FS_Subset DEF BagOK
  <2> QED BY <1>1, <1>2, <2>1, <2>2 DEF BagOK
<1>5. \A j \in Items \ {i} : Owned(flows, j) <=> Owned(B, j)
  BY <1>2 DEF Owned
<1>p. flows' = After({i}, B)
  BY DEF deleteItem
<1>w. /\ WriteRows({i}, Plain("none")) /\ staged' = staged \ {i} /\ draft' = draft
      /\ edits' \in 0..MaxEdits /\ refreshing' \in 0..edits' /\ retries' \in 0..MaxRetries
      /\ orphaned' = orphaned \ {i} /\ missed' = missed \ {i}
  BY RequestIs DEF deleteItem
<1>6. \A h \in S : h \in BagToSet(B) \/ (h.item = i /\ h.at # "trigger")
  BY <1>2 DEF Unread
<1>7. BagToSet(B) \subseteq S
  BY <1>2
<1> HIDE DEF B, unread
<1>8. BagOK(flows') /\ BagToSet(flows') = {Overtake({i}, h) : h \in BagToSet(B)}
  <2>1. /\ BagOK(After({i}, B))
        /\ BagToSet(After({i}, B)) = {Overtake({i}, h) : h \in BagToSet(B)}
    <3> DEFINE I == {i}
    <3>1. BagOK(After(I, B)) /\ BagToSet(After(I, B)) = {Overtake(I, h) : h \in BagToSet(B)}
      <4> HIDE DEF I
      <4> QED BY <1>4, AfterIs
    <3> QED BY <3>1
  <2> QED BY <1>p, <2>1
<1>o. \A h \in S :
        /\ Overtake({i}, h).item = h.item /\ Overtake({i}, h).at = h.at
        /\ Overtake({i}, h).self = h.self /\ Overtake({i}, h).seen = h.seen \ {i}
        /\ Overtake({i}, h).fresh = (h.fresh /\ h.item \notin {i})
  <2>1. \A h \in S : h \in Flow
    BY <1>1 DEF BagOK
  <2> QED BY <2>1, OvertakeIs
<1>9. ASSUME NEW g \in BagToSet(flows'), g.fresh
      PROVE  \E h \in S : /\ g.item = h.item /\ g.at = h.at /\ g.self = h.self
                          /\ g.seen = h.seen \ {i} /\ h.fresh /\ h.item # i
  <2>1. PICK h \in BagToSet(B) : g = Overtake({i}, h)
    BY <1>8
  <2> QED BY <1>7, <1>9, <1>o, <2>1
<1>10. \A d : Triggered(d) => Triggered(d)'
  BY <1>6, <1>8, <1>o DEF Triggered
<1>11. /\ row' \in [Items -> Rows]
       /\ row'[i].action = "none" /\ row'[i].self
       /\ \A j \in Items \ {i} : /\ row'[j].action = row[j].action
                                 /\ row'[j].self = row[j].self
                                 /\ row'[j].seen = row[j].seen \ {i}
  <2>1. \A j \in Items : row'[j] = IF j \in {i} THEN Plain("none")
                                                ELSE [row[j] EXCEPT !.seen = @ \ {i}]
    BY <1>w DEF WriteRows
  <2>2. ASSUME NEW j \in Items
        PROVE  /\ [row[j] EXCEPT !.seen = @ \ {i}] \in Rows
               /\ [row[j] EXCEPT !.seen = @ \ {i}].action = row[j].action
               /\ [row[j] EXCEPT !.seen = @ \ {i}].self = row[j].self
               /\ [row[j] EXCEPT !.seen = @ \ {i}].seen = row[j].seen \ {i}
    BY <1>1 DEF Rows
  <2>3. /\ Plain("none") \in Rows
        /\ Plain("none").action = "none" /\ Plain("none").self
    BY DEF Plain, Rows, Actions
  <2>4. row' \in [Items -> Rows]
    BY <1>w, <2>2, <2>3 DEF WriteRows
  <2> QED BY <2>1, <2>2, <2>3, <2>4
<1>12. Types'
  <2>1. IsFiniteSet(staged')
    BY <1>1, <1>w, FS_Subset
  <2> QED BY <1>1, <1>8, <1>11, <1>w, <2>1 DEF Inv, Types
<1>13. OwnersOK'
  <2>1. ~Owned(flows', i)
    BY <1>9 DEF Owned
  <2>2. ASSUME NEW j \in Items \ {i}
        PROVE  (Owned(flows', j) <=> Owned(flows, j)) /\ (j \in orphaned' <=> j \in orphaned)
    <3>1. Owned(After({i}, B), j) <=> Owned(B, j)
      BY <1>4, AfterIs
    <3> QED BY <1>5, <1>p, <1>w, <3>1
  <2>3. ASSUME NEW j \in Items
        PROVE  IF row'[j].action = "pending"
               THEN j \in staged' /\ (j \notin orphaned' => Owned(flows', j))
               ELSE ~Owned(flows', j)
    BY <1>11, <1>w, <2>1, <2>2 DEF Inv, OwnersOK
  <2> QED BY <2>3 DEF OwnersOK, Owned
<1>14. ContentOK'
  <2>1. \A g \in BagToSet(flows') : g.fresh => g.at # "trigger" /\ g.self
    BY <1>9 DEF Inv, ContentOK
  <2>2. \A j \in Items : row'[j].self
    BY <1>11 DEF Inv, ContentOK
  <2> QED BY <2>1, <2>2 DEF ContentOK
<1>15. PlansOK'
  <2> SUFFICES ASSUME draft'
               PROVE  /\ \A j \in staged' : row'[j].action = "planned" => UpToDate(j, row[j].seen)'
                      /\ \A g \in BagToSet(flows') : g.fresh /\ g.at = "plan" =>
                           \A d \in (DependsOn[g.item] \cap staged') \ {g.item} :
                              row'[d].action = "planned" =>
                                 d \in g.seen \/ Triggered(d)' \/ g.item \in missed'
    BY DEF PlansOK, UpToDate
  <2>1. ASSUME NEW j, j # i, NEW seen, UpToDate(j, seen),
               NEW d \in (DependsOn[j] \cap staged') \ {j}, row'[d].action = "planned"
        PROVE  d \in seen \ {i} \/ Triggered(d)' \/ j \in missed'
    <3>1. d \in Items \ {i} /\ d \in staged
      BY <1>1, <1>w
    <3>2. row[d].action = "planned"
      BY <1>11, <2>1, <3>1
    <3> QED BY <1>10, <1>w, <2>1, <3>1, <3>2 DEF UpToDate
  <2>2. ASSUME NEW j \in staged', row'[j].action = "planned" PROVE UpToDate(j, row[j].seen)'
    <3>1. j \in Items \ {i} /\ j \in staged
      BY <1>1, <1>w
    <3>2. row[j].action = "planned" /\ row'[j].seen = row[j].seen \ {i}
      BY <1>11, <2>2, <3>1
    <3>3. UpToDate(j, row[j].seen)
      BY <1>w, <3>1, <3>2 DEF Inv, PlansOK
    <3>4. \A d \in (DependsOn[j] \cap staged') \ {j} : row'[d].action = "planned" =>
             d \in row'[j].seen \/ Triggered(d)' \/ j \in missed'
      BY <2>1, <3>1, <3>2, <3>3
    <3> QED BY <3>4 DEF UpToDate
  <2>3. ASSUME NEW g \in BagToSet(flows'), g.fresh, g.at = "plan",
               NEW d \in (DependsOn[g.item] \cap staged') \ {g.item}, row'[d].action = "planned"
        PROVE  d \in g.seen \/ Triggered(d)' \/ g.item \in missed'
    <3>1. PICK h \in S : /\ g.item = h.item /\ g.at = h.at /\ g.seen = h.seen \ {i}
                        /\ h.fresh /\ h.item # i
      BY <1>9, <2>3
    <3>2. UpToDate(h.item, h.seen)
      BY <1>w, <2>3, <3>1 DEF Inv, PlansOK
    <3> QED BY <2>1, <2>3, <3>1, <3>2
  <2> QED BY <2>2, <2>3
<1> QED BY <1>12, <1>13, <1>14, <1>15 DEF Inv

\* A write under the compare and set, by an execution that is not a trigger.
LEMMA SaveKeeps ==
    ASSUME Inv, NEW f \in BagToSet(flows), f.at # "trigger",
           NEW r \in Rows, r.action # "pending", f.fresh => r.self,
           NEW rest, BagOK(rest), \A g \in BagToSet(rest) : ~g.fresh,
           r.action = "planned" =>
               /\ f.at = "plan" /\ r.seen = f.seen
               /\ \E g \in BagToSet(rest) : g.item = f.item /\ g.at = "trigger",
           Save(f, r, rest), UNCHANGED <<Requests, retries, missed>>
    PROVE  Inv'
<1>1. CASE f.fresh
  <2>1. /\ WriteRows({f.item}, r) /\ flows' = After({f.item}, Take(f)) (+) rest
        /\ orphaned' = orphaned \ {f.item}
    BY <1>1 DEF Save
  <2> QED BY <1>1, <2>1, SettleKeeps
<1>2. CASE ~f.fresh
  <2>1. UNCHANGED <<row, orphaned>> /\ flows' = Take(f) (+) rest
    BY <1>2 DEF Save
  <2> QED BY <1>2, <2>1, StaleKeeps
<1> QED BY <1>1, <1>2

LEMMA FlowKeeps ==
    ASSUME Inv, NEW f \in BagToSet(flows), FlowStep(f)
    PROVE  Inv'
<1>1. f \in Flow /\ (f.fresh => f.self)
  BY FreshIs DEF Inv, ContentOK
<1>2. CASE getChangeSetItem(f)
  <2> DEFINE g == [f EXCEPT !.at = "inputs"]
  <2>1. /\ g \in Flow /\ g.item = f.item /\ g.fresh = f.fresh /\ g.self = f.self
        /\ g.at = "inputs"
    BY <1>1 DEF Flow
  <2>2. f.at = "start" /\ Becomes(f, g) /\ UNCHANGED <<Requests, row, retries, orphaned, missed>>
    BY <1>2 DEF getChangeSetItem
  <2> HIDE DEF g
  <2> QED BY <2>1, <2>2, BecomesKeeps
<1>3. CASE getChangeSetDryRunInputs(f)
  <2> DEFINE deferred == [f EXCEPT !.at = "defer"]
             filled == [f EXCEPT !.at = "plan", !.seen = DependsOn[f.item] \cap staged]
  <2>1. /\ deferred \in Flow /\ deferred.item = f.item /\ deferred.fresh = f.fresh
        /\ deferred.self = f.self /\ deferred.at = "defer"
    BY <1>1 DEF Flow
  <2>2. DependsOn[f.item] \cap staged \in SUBSET Items
    BY DEF Inv, Types
  <2>3. /\ filled \in Flow /\ filled.item = f.item /\ filled.fresh = f.fresh
        /\ filled.self = f.self /\ filled.at = "plan"
        /\ filled.seen = DependsOn[f.item] \cap staged
    BY <1>1, <2>2 DEF Flow
  <2>4. /\ f.at = "inputs" /\ UNCHANGED <<Requests, row, retries, orphaned, missed>>
        /\ Becomes(f, deferred) \/ Becomes(f, filled)
    BY <1>3 DEF getChangeSetDryRunInputs
  <2> HIDE DEF deferred, filled
  <2>5. CASE Becomes(f, deferred)
    BY <2>1, <2>4, <2>5, BecomesKeeps
  <2>6. CASE Becomes(f, filled)
    BY <2>3, <2>4, <2>6, BecomesKeeps
  <2> QED BY <2>4, <2>5, <2>6
<1>4. CASE updateDryRunDeferred(f)
  <2>1. /\ Plain("deferred") \in Rows /\ Plain("deferred").action = "deferred"
        /\ Plain("deferred").self
    BY DEF Plain, Rows, Actions
  <2>2. /\ f.at = "defer" /\ Save(f, Plain("deferred"), EmptyBag)
        /\ UNCHANGED <<Requests, retries, missed>>
    BY <1>4 DEF updateDryRunDeferred
  <2> QED BY <2>1, <2>2, EmptyIs, SaveKeeps
<1>5. ASSUME NEW outcome \in Outcomes, updateDryRun(f, outcome) PROVE Inv'
  <2> DEFINE r == [action |-> outcome, seen |-> f.seen, self |-> f.self]
             t == [f EXCEPT !.at = "trigger", !.fresh = FALSE, !.seen = {}]
             rest == ToTrigger(f)
  <2>1. /\ r \in Rows /\ r.action # "pending" /\ r.self = f.self /\ r.seen = f.seen
    BY <1>1 DEF Rows, Actions, Outcomes, Flow
  <2>2. t \in Flow /\ t.item = f.item /\ t.at = "trigger" /\ ~t.fresh
    BY <1>1 DEF Flow
  <2>3. BagOK(rest) /\ BagToSet(rest) = {t}
    <3>1. rest = SetToBag({t})
      BY DEF ToTrigger
    <3> HIDE DEF t, rest
    <3> QED BY <2>2, <3>1, OneIs
  <2>4. f.at = "plan" /\ Save(f, r, rest) /\ UNCHANGED <<Requests, retries, missed>>
    BY <1>5 DEF updateDryRun
  <2> HIDE DEF r, t, rest
  <2> QED BY <1>1, <2>1, <2>2, <2>3, <2>4, SaveKeeps
<1>6. CASE startDependentDryRuns(f)
  BY <1>6, TriggerKeeps
<1>7. CASE markDryRunFailed(f)
  <2>1. /\ Plain("void") \in Rows /\ Plain("void").action = "void" /\ Plain("void").self
    BY DEF Plain, Rows, Actions, Outcomes
  <2>2. /\ f.at # "trigger" /\ Save(f, Plain("void"), EmptyBag)
        /\ UNCHANGED <<Requests, retries, missed>>
    BY <1>7 DEF markDryRunFailed
  <2> QED BY <2>1, <2>2, EmptyIs, SaveKeeps
<1>8. CASE Start(f)
  <2> DEFINE g == [f EXCEPT !.at = "start"]
  <2>1. /\ g \in Flow /\ g.item = f.item /\ g.fresh = f.fresh /\ g.self = f.self
        /\ g.at = "start"
    BY <1>1 DEF Flow, Unread
  <2>2. /\ f.at # "trigger" /\ UNCHANGED <<Requests, row, orphaned, missed>>
        /\ \/ Becomes(f, g) /\ UNCHANGED retries
           \/ flows' = flows (+) SetToBag({g}) /\ Retry
    BY <1>8 DEF Start
  <2> HIDE DEF g
  <2> QED BY <2>1, <2>2, BecomesKeeps, AgainKeeps
<1>9. CASE Orphan(f) \/ TriggerFails(f)
  BY <1>9, GoneKeeps
<1> QED BY <1>2, <1>3, <1>4, <1>5, <1>6, <1>7, <1>8, <1>9 DEF FlowStep

\* refreshDryRuns starts an execution, and RefreshFails ends one.
LEMMA RefreshingKeeps ==
    ASSUME Inv, refreshDryRuns \/ RefreshFails
    PROVE  Inv'
<1>1. /\ UNCHANGED <<draft, staged, row, flows, orphaned, missed>>
      /\ edits' \in 0..MaxEdits /\ refreshing' \in 0..edits' /\ retries' \in 0..MaxRetries
  <2>1. CASE refreshDryRuns
    BY <2>1, RequestIs DEF refreshDryRuns
  <2>2. CASE RefreshFails
    BY <2>2 DEF RefreshFails, Inv, Types
  <2> QED BY <2>1, <2>2
<1> QED BY <1>1 DEF Inv, Types, OwnersOK, Owned, ContentOK, PlansOK, UpToDate, Triggered

LEMMA Inductive == Inv /\ [Next]_vars => Inv'
<1> SUFFICES ASSUME Inv, [Next]_vars PROVE Inv'
  OBVIOUS
<1>1. CASE UNCHANGED vars
  BY <1>1 DEF vars, Inv, Types, OwnersOK, Owned, ContentOK, PlansOK, UpToDate, Triggered
<1>2. ASSUME NEW i \in Items, stageItem(i) \/ updateItem(i) \/ deleteItem(i) PROVE Inv'
  BY <1>2, StageKeeps, UpdateKeeps, DeleteKeeps
<1>3. CASE refreshDryRuns
  BY <1>3, RefreshingKeeps
<1>4. CASE apply
  <2>1. /\ draft' = FALSE
        /\ UNCHANGED <<staged, row, flows, refreshing, edits, retries, orphaned, missed>>
    BY <1>4 DEF apply
  <2> QED BY <2>1 DEF Inv, Types, OwnersOK, Owned, ContentOK, PlansOK
<1>5. CASE Work
  BY <1>5, RefreshKeeps, RefreshingKeeps, FlowKeeps DEF Work
<1> QED BY <1>1, <1>2, <1>3, <1>4, <1>5 DEF Next

----------------------------------------------------------------------------
(* Theorems *)

\* The inductive invariant: every pending row that was not orphaned by a throw
\* has an execution, called or in flight, that may settle it; every plan was
\* made from the present content of its item; and each sibling plan it does
\* not know has a restart on its way, unless that was given up
\* (startDependentDryRuns).
THEOREM Invariance == Spec => []Inv
BY Initially, Inductive, PTL DEF Spec

\* Types are kept: rows and executions stay what resource_dry_runs and
\* dryRunChangeWorkflow hold, and requests and retries stay within their bounds.
THEOREM TypeCorrect == Spec => []TypeOK
<1>1. Inv => TypeOK
  BY DryRunsAssumption DEF Inv, Types, BagOK, TypeOK
<1> QED BY <1>1, Invariance, PTL

\* A pending row has an execution, called or in flight, under its timestamp,
\* unless a throw between commit and start(), or in markDryRunFailed, has
\* orphaned it; a settled row has none.  So it is however requests, cascades,
\* retries and failures interleave.
THEOREM OwnerSafety == Spec => []PendingOwned
<1>1. Inv => PendingOwned
  <2> SUFFICES ASSUME Inv, NEW i \in staged
               PROVE  IF row[i].action = "pending"
                      THEN i \notin orphaned => Owned(flows, i)
                      ELSE ~Owned(flows, i)
    BY DEF PendingOwned, Owned
  <2>1. i \in Items
    BY DEF Inv, Types
  <2> QED BY <2>1 DEF Inv, OwnersOK
<1> QED BY <1>1, Invariance, PTL

\* When the dry runs of a draft have come to rest, every plan was made from the
\* item's present content and, unless a throw in startDependentDryRuns has
\* given up its restart, from the present plans of its siblings.
THEOREM CurrentSafety == Spec => []SettledCurrent
<1>1. Inv => SettledCurrent
  <2> SUFFICES ASSUME Inv, draft, Quiet, NEW i \in staged, row[i].action = "planned"
               PROVE  /\ row[i].self
                      /\ \A d \in DependsOn[i] \cap staged :
                            row[d].action = "planned" =>
                               d \in row[i].seen \cup {i} \/ i \in missed
    BY DEF SettledCurrent
  <2>1. row[i].self
    BY DEF Inv, Types, ContentOK
  <2>2. \A d : ~Triggered(d)
    BY EmptyIs DEF Quiet, Triggered
  <2>3. UpToDate(i, row[i].seen)
    BY DEF Inv, PlansOK
  <2> QED BY <2>1, <2>2, <2>3 DEF UpToDate
<1> QED BY <1>1, Invariance, PTL

=============================================================================
