-------------------------- MODULE NotificationsProofs --------------------------
(* Proofs about Notifications, for any number of clients, versions, queue     *)
(* places and connections.                                                    *)
EXTENDS Notifications, SequenceTheorems, TLAPS

(***************************************************************************)
(* Who is subscribed is seen from the stages.  A stream in its loop has    *)
(* seen no change, or something is still under way that will make its      *)
(* client fetch the row or its runner read it, or the last event it queued *)
(* shows the row.  Once a resource is deleted only the notification of the *)
(* deletion counts, so the invariant follows where that one is; before,    *)
(* there is none.                                                          *)
(***************************************************************************)

Stream == [at : Stages, raw : BOOLEAN, val : Nat, buf : Seq(Nat), out : Seq(Nat), seen : Nat,
           base : Nat, invalid : BOOLEAN, missed : BOOLEAN, connects : Nat]

Typed ==
    /\ row \in Nat
    /\ unsent \subseteq Nat
    /\ pg \in Seq(Nat)
    /\ listen \in {"off", "pending", "on"}
    /\ members \subseteq Subs
    /\ sub \in [Subs -> Stream]

Joined(r) == r.at \in {"listen", "loop", "wait", "hand"}

MembersAre == \A s \in Subs : s \in members <=> Joined(sub[s])

LastShown(r) == IF r.out = <<>> THEN r.seen ELSE r.out[Len(r.out)]

\* A change that r will still be told of, by itself or by what is left of it.
Coming(r) == unsent # {} \/ lost # {} \/ pg # <<>> \/ r.buf # <<>> \/ r.at = "hand"

Holds(q, v) == \E i \in 1..Len(q) : q[i] = v

\* The last version's notification is still to reach the runner of r.
Ending(r) ==
    \/ Last \in unsent \cup lost
    \/ Holds(pg, Last) \/ Holds(r.buf, Last)
    \/ r.at = "hand" /\ r.val = Last

FreshRaw(r) == Coming(r) \/ r.out # <<>> \/ r.invalid \/ r.seen = row

FreshResource(r) ==
    /\ row # Last => Coming(r) \/ LastShown(r) = row
    /\ row = Last => Ending(r) \/ r.missed \/ LastShown(r) = row

FreshStream(r) ==
    r.at \in {"loop", "wait", "hand"} =>
        row = r.base \/ (IF r.raw THEN FreshRaw(r) ELSE FreshResource(r))

\* Nothing speaks of the last version before it is committed.
EarlyBus == row # Last => Last \notin unsent /\ ~ Holds(pg, Last)

EarlyStream(r) ==
    row # Last => ~ Holds(r.buf, Last) /\ (r.at = "hand" => r.val # Last)

StreamsInv ==
    /\ Typed /\ MembersAre /\ ListenHeld /\ EarlyBus
    /\ \A s \in Views : FreshStream(sub[s]) /\ EarlyStream(sub[s])

USE DEF vars, Subs

LEMMA AppendHolds ==
    ASSUME NEW q \in Seq(Nat), NEW v \in Nat, NEW w
    PROVE Holds(Append(q, v), w) <=> Holds(q, w) \/ v = w
<1> DEFINE t == Append(q, v)
<1>1. /\ Len(t) = Len(q) + 1 /\ Len(q) \in Nat
      /\ \A i \in 1..Len(q) : t[i] = q[i]
      /\ t[Len(q) + 1] = v
  BY AppendProperties
<1> HIDE DEF t
<1>2. 1..Len(t) = (1..Len(q)) \cup {Len(q) + 1} BY <1>1
<1>3. Holds(t, w) <=> Holds(q, w) \/ v = w BY <1>1, <1>2 DEF Holds
<1> QED BY <1>3 DEF t

LEMMA TailHolds ==
    ASSUME NEW q \in Seq(Nat), q # <<>>, NEW w
    PROVE Holds(q, w) <=> Head(q) = w \/ Holds(Tail(q), w)
<1> DEFINE t == Tail(q)
<1>1. /\ Head(q) = q[1] /\ Len(t) = Len(q) - 1
      /\ \A i \in 1..Len(t) : t[i] = q[i + 1]
  BY HeadTailProperties
<1>2. Len(q) \in Nat \ {0} BY EmptySeq
<1> HIDE DEF t
<1>3. ASSUME Holds(q, w) PROVE q[1] = w \/ Holds(t, w)
  <2>1. PICK i \in 1..Len(q) : q[i] = w BY <1>3 DEF Holds
  <2>2. CASE i # 1
    <3>1. i - 1 \in 1..Len(t) /\ (i - 1) + 1 = i BY <1>1, <1>2, <2>1, <2>2
    <3> QED BY <1>1, <2>1, <3>1 DEF Holds
  <2> QED BY <2>1, <2>2
<1>4. ASSUME Holds(t, w) PROVE Holds(q, w)
  <2>1. PICK i \in 1..Len(t) : t[i] = w BY <1>4 DEF Holds
  <2>2. i + 1 \in 1..Len(q) BY <1>1, <1>2, <2>1
  <2> QED BY <1>1, <2>1, <2>2 DEF Holds
<1>5. q[1] = w => Holds(q, w) BY <1>2 DEF Holds
<1> QED BY <1>1, <1>3, <1>4, <1>5 DEF t

LEMMA EmptyHolds == ASSUME NEW w PROVE ~ Holds(<<>>, w)
BY DEF Holds

LEMMA IdleIs == Idle \in Stream /\ Idle.at = "idle" /\ Idle.buf = <<>>
<1>1. <<>> \in Seq(Nat) BY EmptySeq
<1> QED BY <1>1 DEF Idle, Stream, Stages

LEMMA EndedIs ==
    ASSUME NEW r \in Stream
    PROVE Ended(r) \in Stream /\ Ended(r).at = "idle" /\ Ended(r).buf = <<>>
<1>1. r.seen \in Nat /\ r.connects \in Nat /\ r.raw \in BOOLEAN BY DEF Stream
<1> QED BY <1>1, IdleIs DEF Ended, Stream

LEMMA InitStreams == Init => StreamsInv
<1> SUFFICES ASSUME Init PROVE StreamsInv OBVIOUS
<1>1. <<>> \in Seq(Nat) BY EmptySeq
<1>2. PICK raw \in SUBSET Views : sub = [s \in Subs |-> [Idle EXCEPT !.raw = s \in raw]]
  BY DEF Init
<1>3. ASSUME NEW s \in Subs
      PROVE sub[s] \in Stream /\ sub[s].at = "idle" /\ sub[s].buf = <<>>
  <2>1. (s \in raw) \in BOOLEAN OBVIOUS
  <2>2. sub[s] = [Idle EXCEPT !.raw = s \in raw] BY <1>2
  <2> QED BY <2>1, <2>2, IdleIs DEF Stream
<1>4. Typed BY <1>1, <1>2, <1>3 DEF Init, Typed
<1>5. MembersAre BY <1>3 DEF Init, MembersAre, Joined
<1>6. Waiting = {} BY <1>3 DEF Waiting
<1>7. ListenHeld BY <1>6 DEF Init, ListenHeld
<1>8. EarlyBus BY EmptyHolds DEF Init, EarlyBus
<1>9. \A s \in Views : FreshStream(sub[s]) /\ EarlyStream(sub[s])
  BY <1>3, EmptyHolds DEF FreshStream, EarlyStream
<1> QED BY <1>4, <1>5, <1>7, <1>8, <1>9 DEF StreamsInv

(***************************************************************************)
(* Steps that leave the subscriptions alone.                               *)
(***************************************************************************)

\* Nobody joins, leaves, or goes into or out of its wait for the LISTEN.
LEMMA SameMembers ==
    ASSUME Typed, MembersAre, ListenHeld, UNCHANGED <<members, listen>>,
           \A s \in Subs : /\ Joined(sub'[s]) <=> Joined(sub[s])
                           /\ sub'[s].at = "listen" <=> sub[s].at = "listen"
    PROVE MembersAre' /\ ListenHeld'
<1>1. MembersAre' BY DEF MembersAre
<1>2. Waiting' = Waiting BY DEF Waiting
<1>3. ListenHeld' BY <1>2 DEF ListenHeld, Typed
<1> QED BY <1>1, <1>3

\* A step that only changes the stream of s, which stays subscribed or stays out.
LEMMA OneStream ==
    ASSUME StreamsInv, NEW s \in Subs, NEW r \in Stream, sub' = [sub EXCEPT ![s] = r],
           UNCHANGED <<row, unsent, lost, pg, listen, members>>,
           Joined(r) <=> Joined(sub[s]), r.at # "listen", sub[s].at # "listen",
           s \in Views => FreshStream(r) /\ EarlyStream(r)
    PROVE StreamsInv'
<1>1. Typed' BY DEF StreamsInv, Typed
<1>2. sub'[s] = r /\ \A x \in Subs : x # s => sub'[x] = sub[x]
  BY DEF StreamsInv, Typed
<1>3. MembersAre' /\ ListenHeld' BY <1>2, SameMembers DEF StreamsInv
<1>4. EarlyBus' BY DEF StreamsInv, EarlyBus
<1>5. \A x \in Views : FreshStream(sub'[x]) /\ EarlyStream(sub'[x])
  BY <1>2 DEF StreamsInv
<1>6. \A x \in Views : (FreshStream(sub[x]) /\ EarlyStream(sub[x]))'
  BY <1>5 DEF FreshStream, FreshRaw, FreshResource, Coming, Ending, LastShown, EarlyStream
<1> QED BY <1>1, <1>3, <1>4, <1>6 DEF StreamsInv

\* The client of s shows something else, and no stream changes its stage.
LEMMA Redrawn ==
    ASSUME StreamsInv, NEW s \in Subs, NEW r \in Stream, sub' = [sub EXCEPT ![s] = r],
           UNCHANGED <<row, unsent, lost, pg, listen, members>>, r.at = sub[s].at,
           s \in Views => FreshStream(r) /\ EarlyStream(r)
    PROVE StreamsInv'
<1>1. Typed' BY DEF StreamsInv, Typed
<1>2. sub'[s] = r /\ \A x \in Subs : x # s => sub'[x] = sub[x]
  BY DEF StreamsInv, Typed
<1>3. MembersAre' /\ ListenHeld' BY <1>2, SameMembers DEF StreamsInv, Joined
<1>4. EarlyBus' BY DEF StreamsInv, EarlyBus
<1>5. \A x \in Views : FreshStream(sub'[x]) /\ EarlyStream(sub'[x])
  BY <1>2 DEF StreamsInv
<1>6. \A x \in Views : (FreshStream(sub[x]) /\ EarlyStream(sub[x]))'
  BY <1>5 DEF FreshStream, FreshRaw, FreshResource, Coming, Ending, LastShown, EarlyStream
<1> QED BY <1>1, <1>3, <1>4, <1>6 DEF StreamsInv

LEMMA CommitStep == ASSUME StreamsInv, Commit PROVE StreamsInv'
<1>1. Typed' BY DEF StreamsInv, Typed, Commit
<1>2. MembersAre' /\ ListenHeld' BY SameMembers DEF StreamsInv, Commit
<1>3. /\ row # Last /\ row' = row + 1 /\ unsent' = unsent \cup {row'}
      /\ UNCHANGED <<lost, pg, sub>> /\ row \in Nat
  BY NotificationsAssumption DEF Commit, StreamsInv, Typed
<1>4. EarlyBus' BY <1>3 DEF StreamsInv, EarlyBus
<1>5. ASSUME NEW x \in Views PROVE (FreshStream(sub[x]) /\ EarlyStream(sub[x]))'
  <2>1. Coming(sub[x])' BY <1>3 DEF Coming
  <2>2. row' = Last => Ending(sub[x])' BY <1>3 DEF Ending
  <2>3. EarlyStream(sub[x])' BY <1>3 DEF StreamsInv, EarlyStream
  <2> QED BY <2>1, <2>2, <2>3 DEF FreshStream, FreshRaw, FreshResource
<1> QED BY <1>1, <1>2, <1>4, <1>5 DEF StreamsInv

\* The notification reaches the process while anybody is in its loop.
LEMMA NotifyStep == ASSUME StreamsInv, NEW v \in 1..Last, Notify(v) PROVE StreamsInv'
<1>1. Typed' BY DEF StreamsInv, Typed, Notify
<1>2. MembersAre' /\ ListenHeld' BY SameMembers DEF StreamsInv, Notify
<1>3. /\ v \in unsent /\ unsent' = unsent \ {v} /\ UNCHANGED <<row, lost, sub>>
      /\ pg' = IF listen = "on" THEN Append(pg, v) ELSE pg
      /\ pg \in Seq(Nat) /\ v \in Nat
  BY DEF StreamsInv, Typed, Notify
<1>4. \A w : Holds(pg', w) <=> Holds(pg, w) \/ (listen = "on" /\ v = w)
  BY <1>3, AppendHolds
<1>5. EarlyBus' BY <1>3, <1>4 DEF StreamsInv, EarlyBus
<1>6. ASSUME NEW x \in Views PROVE (FreshStream(sub[x]) /\ EarlyStream(sub[x]))'
  <2>1. FreshStream(sub[x]) /\ EarlyStream(sub[x]) BY DEF StreamsInv
  <2>2. CASE sub[x].at \in {"loop", "wait", "hand"}
    <3>1. x \in members BY <2>2 DEF StreamsInv, MembersAre, Joined
    <3>2. listen = "on" BY <2>2, <3>1 DEF StreamsInv, ListenHeld
    <3>3. pg' # <<>> BY <1>3, <3>2, AppendProperties
    <3>4. Coming(sub[x])' BY <3>3 DEF Coming
    <3>5. Ending(sub[x]) => Ending(sub[x])' BY <1>3, <1>4, <3>2 DEF Ending
    <3> QED
      BY <1>3, <2>1, <3>4, <3>5
         DEF FreshStream, FreshRaw, FreshResource, LastShown, EarlyStream
  <2>3. CASE sub[x].at \notin {"loop", "wait", "hand"}
    BY <1>3, <2>1, <2>3 DEF FreshStream, EarlyStream
  <2> QED BY <2>2, <2>3
<1> QED BY <1>1, <1>2, <1>5, <1>6 DEF StreamsInv

LEMMA CrashStep == ASSUME StreamsInv, NEW v \in 1..Last, Crash(v) PROVE StreamsInv'
<1>1. Typed' BY DEF StreamsInv, Typed, Crash
<1>2. MembersAre' /\ ListenHeld' BY SameMembers DEF StreamsInv, Crash
<1>3. /\ unsent' = unsent \ {v} /\ lost' = lost \cup {v} /\ UNCHANGED <<row, pg, sub>>
  BY DEF Crash
<1>4. EarlyBus' BY <1>3 DEF StreamsInv, EarlyBus
<1>5. ASSUME NEW x \in Views PROVE (FreshStream(sub[x]) /\ EarlyStream(sub[x]))'
  <2>1. FreshStream(sub[x]) /\ EarlyStream(sub[x]) BY DEF StreamsInv
  <2>2. Coming(sub[x])' BY <1>3 DEF Coming
  <2>3. Ending(sub[x]) => Ending(sub[x])' BY <1>3 DEF Ending
  <2> QED
    BY <1>3, <2>1, <2>2, <2>3 DEF FreshStream, FreshRaw, FreshResource, LastShown, EarlyStream
<1> QED BY <1>1, <1>2, <1>4, <1>5 DEF StreamsInv

(***************************************************************************)
(* The bus.                                                                *)
(***************************************************************************)

LEMMA AppendIs ==
    ASSUME NEW q \in Seq(Nat), NEW v \in Nat
    PROVE Append(q, v) \in Seq(Nat) /\ Append(q, v) # <<>>
BY AppendProperties

LEMMA PushedIs ==
    ASSUME NEW buf \in Seq(Nat), NEW v \in Nat
    PROVE Pushed(buf, v) \in Seq(Nat) /\ Pushed(buf, v) # <<>>
<1>1. Append(buf, v) \in Seq(Nat) /\ Append(buf, v) # <<>> BY AppendIs
<1>2. CASE buf = <<>>
  <2>1. Len(buf) = 0 BY <1>2
  <2> QED BY <1>1, <2>1, NotificationsAssumption DEF Pushed
<1>3. CASE buf # <<>>
  <2>1. Tail(buf) \in Seq(Nat) BY <1>3, HeadTailProperties
  <2>2. Append(Tail(buf), v) \in Seq(Nat) /\ Append(Tail(buf), v) # <<>>
    BY <2>1, AppendIs, Zenon
  <2> QED BY <1>1, <2>2 DEF Pushed
<1> QED BY <1>2, <1>3

\* What a queue drops is its first notification.
LEMMA PushedHolds ==
    ASSUME NEW buf \in Seq(Nat), NEW v \in Nat, NEW w
    PROVE /\ Holds(Pushed(buf, v), w) => Holds(buf, w) \/ v = w
          /\ v = w => Holds(Pushed(buf, v), w)
          /\ Holds(buf, w) => \/ Holds(Pushed(buf, v), w)
                              \/ buf # <<>> /\ Len(buf) >= maxBuffered /\ Head(buf) = w
<1>1. CASE Len(buf) < maxBuffered BY <1>1, AppendHolds DEF Pushed
<1>2. CASE ~ (Len(buf) < maxBuffered)
  <2>1. buf # <<>> BY <1>2, EmptySeq, NotificationsAssumption
  <2>2. Tail(buf) \in Seq(Nat) BY <2>1, HeadTailProperties
  <2>3. Pushed(buf, v) = Append(Tail(buf), v) BY <1>2 DEF Pushed
  <2>4. Holds(Append(Tail(buf), v), w) <=> Holds(Tail(buf), w) \/ v = w
    BY <2>2, AppendHolds, Zenon
  <2>5. Holds(buf, w) <=> Head(buf) = w \/ Holds(Tail(buf), w) BY <2>1, TailHolds
  <2>6. Len(buf) >= maxBuffered BY <1>2, NotificationsAssumption
  <2> QED BY <2>1, <2>3, <2>4, <2>5, <2>6
<1> QED BY <1>1, <1>2

\* The notification goes into the hands or the queue of every subscriber.
LEMMA DispatchStep == ASSUME StreamsInv, Dispatch PROVE StreamsInv'
<1>1. /\ pg \in Seq(Nat) /\ pg # <<>> /\ sub \in [Subs -> Stream] /\ members \subseteq Subs
      /\ MembersAre /\ UNCHANGED <<row, unsent, lost, listen, members>>
      /\ pg' = Tail(pg)
  BY DEF StreamsInv, Typed, Dispatch
<1> DEFINE v == Head(pg)
<1>2. v \in Nat /\ pg' \in Seq(Nat) /\ \A w : Holds(pg, w) <=> v = w \/ Holds(pg', w)
  BY <1>1, HeadTailProperties, TailHolds
<1>3. \A s \in Subs :
        /\ s \notin members => sub'[s] = sub[s]
        /\ s \in members /\ sub[s].at = "wait" =>
             sub'[s] = [sub[s] EXCEPT !.at = "hand", !.val = v]
        /\ s \in members /\ sub[s].at # "wait" =>
             sub'[s] = [sub[s] EXCEPT !.buf = Pushed(sub[s].buf, v),
                                      !.missed = sub[s].missed \/ Drops(s)]
  BY DEF Dispatch
<1> HIDE DEF v
<1>4. ASSUME NEW s \in Subs
      PROVE /\ sub'[s] \in Stream
            /\ s \in members => sub'[s].at = "hand" \/ sub'[s].buf # <<>>
            /\ sub'[s].at = IF s \in members /\ sub[s].at = "wait" THEN "hand" ELSE sub[s].at
            /\ sub'[s].raw = sub[s].raw /\ sub'[s].base = sub[s].base
            /\ sub'[s].out = sub[s].out /\ sub'[s].seen = sub[s].seen
            /\ sub[s].missed => sub'[s].missed
            /\ s \in members /\ sub[s].at = "wait" => sub'[s].val = v /\ sub'[s].buf = sub[s].buf
            /\ s \in members /\ sub[s].at # "wait" =>
                 /\ sub'[s].val = sub[s].val /\ sub'[s].buf = Pushed(sub[s].buf, v)
                 /\ Drops(s) => sub'[s].missed
  <2>1. sub[s] \in Stream /\ sub[s].buf \in Seq(Nat) BY <1>1 DEF Stream
  <2>2. CASE s \notin members BY <1>3, <2>1, <2>2
  <2>3. CASE s \in members /\ sub[s].at = "wait"
    <3>1. sub'[s] = [sub[s] EXCEPT !.at = "hand", !.val = v] BY <1>3, <2>3
    <3>2. "hand" \in Stages BY DEF Stages
    <3> QED BY <1>2, <2>1, <2>3, <3>1, <3>2 DEF Stream
  <2>4. CASE s \in members /\ sub[s].at # "wait"
    <3> DEFINE buf == Pushed(sub[s].buf, v)
               missed == sub[s].missed \/ Drops(s)
    <3>1. buf \in Seq(Nat) /\ buf # <<>> BY <1>2, <2>1, PushedIs
    <3>2. missed \in BOOLEAN BY <2>1 DEF Stream, Drops
    <3>3. sub'[s] = [sub[s] EXCEPT !.buf = buf, !.missed = missed] BY <1>3, <2>4
    <3>4. (sub[s].missed => missed) /\ (Drops(s) => missed) OBVIOUS
    <3> HIDE DEF missed
    <3>5. sub'[s].missed = missed BY <2>1, <3>3 DEF Stream
    <3>6. sub'[s].buf = buf BY <2>1, <3>3 DEF Stream
    <3> HIDE DEF buf
    <3>7. /\ sub'[s] \in Stream /\ sub'[s].at = sub[s].at /\ sub'[s].val = sub[s].val
          /\ sub'[s].raw = sub[s].raw /\ sub'[s].base = sub[s].base
          /\ sub'[s].out = sub[s].out /\ sub'[s].seen = sub[s].seen
      BY <2>1, <3>1, <3>2, <3>3 DEF Stream
    <3> QED BY <2>4, <3>1, <3>4, <3>5, <3>6, <3>7 DEF buf
  <2> QED BY <2>2, <2>3, <2>4
<1>5. DOMAIN sub' = Subs /\ sub' = [s \in Subs |-> sub'[s]] BY DEF Dispatch
<1>6. Typed' BY <1>1, <1>2, <1>4, <1>5 DEF StreamsInv, Typed
<1>7. MembersAre' /\ ListenHeld'
  <2>1. \A s \in Subs : /\ Joined(sub'[s]) <=> Joined(sub[s])
                        /\ sub'[s].at = "listen" <=> sub[s].at = "listen"
    BY <1>4 DEF Joined
  <2> QED BY <1>1, <2>1, SameMembers DEF StreamsInv
<1>8. EarlyBus' BY <1>1, <1>2 DEF StreamsInv, EarlyBus
<1>9. ASSUME NEW s \in Views PROVE (FreshStream(sub[s]) /\ EarlyStream(sub[s]))'
  <2>1. FreshStream(sub[s]) /\ EarlyStream(sub[s]) BY DEF StreamsInv
  <2>2. sub'[s].at \in {"loop", "wait", "hand"} => s \in members
    BY <1>1, <1>4 DEF MembersAre, Joined
  <2>3. CASE s \notin members
    <3>1. sub'[s] = sub[s] BY <1>3, <2>3
    <3> QED BY <1>1, <2>1, <2>2, <2>3, <3>1 DEF FreshStream, EarlyStream
  <2>4. CASE s \in members /\ sub[s].at = "wait"
    <3>1. /\ sub'[s].at = "hand" /\ sub'[s].val = v /\ sub'[s].buf = sub[s].buf
          /\ sub[s].missed => sub'[s].missed
      BY <1>4, <2>4
    <3>2. EarlyStream(sub[s])'
      BY <1>1, <1>2, <2>1, <3>1 DEF StreamsInv, EarlyBus, EarlyStream
    <3>3. Ending(sub[s]) => Ending(sub[s])' BY <1>1, <1>2, <2>4, <3>1 DEF Ending
    <3>4. Coming(sub[s])' BY <3>1 DEF Coming
    <3> QED
      BY <1>1, <1>4, <2>1, <2>4, <3>1, <3>2, <3>3, <3>4
         DEF FreshStream, FreshRaw, FreshResource, LastShown
  <2>5. CASE s \in members /\ sub[s].at # "wait"
    <3>1. sub[s] \in Stream /\ sub[s].buf \in Seq(Nat) BY <1>1 DEF Stream
    <3>2. /\ sub'[s].at = sub[s].at /\ sub'[s].val = sub[s].val
          /\ sub'[s].buf = Pushed(sub[s].buf, v)
          /\ (sub[s].missed => sub'[s].missed) /\ (Drops(s) => sub'[s].missed)
      BY <1>4, <2>5
    <3>3. /\ Holds(sub'[s].buf, Last) => Holds(sub[s].buf, Last) \/ v = Last
          /\ v = Last => Holds(sub'[s].buf, Last)
          /\ Holds(sub[s].buf, Last) =>
               \/ Holds(sub'[s].buf, Last)
               \/ Len(sub[s].buf) >= maxBuffered /\ Head(sub[s].buf) = Last
      BY <1>2, <3>1, <3>2, PushedHolds
    <3>4. EarlyStream(sub[s])'
      BY <1>1, <1>2, <2>1, <3>2, <3>3 DEF StreamsInv, EarlyBus, EarlyStream
    <3>5. ~ sub[s].raw /\ Ending(sub[s]) => Ending(sub[s])' \/ sub'[s].missed
      BY <1>1, <1>2, <3>2, <3>3 DEF Ending, Drops
    <3>6. Coming(sub[s])' BY <1>4, <2>5 DEF Coming
    <3>7. sub[s].missed => sub'[s].missed BY <3>2
    <3> QED
      BY <1>1, <1>4, <2>1, <3>2, <3>4, <3>5, <3>6, <3>7
         DEF FreshStream, FreshRaw, FreshResource, LastShown
  <2> QED BY <2>3, <2>4, <2>5
<1> QED BY <1>6, <1>7, <1>8, <1>9 DEF StreamsInv

\* A stream the step leaves alone, while nothing is committed, sent or read.
LEMMA SameFresh ==
    ASSUME NEW s \in Views, FreshStream(sub[s]) /\ EarlyStream(sub[s]), sub'[s] = sub[s],
           UNCHANGED <<row, unsent, lost>>,
           sub[s].at \in {"loop", "wait", "hand"} => UNCHANGED pg
    PROVE (FreshStream(sub[s]) /\ EarlyStream(sub[s]))'
<1>1. CASE sub[s].at \in {"loop", "wait", "hand"}
  BY <1>1 DEF FreshStream, FreshRaw, FreshResource, Coming, Ending, LastShown, EarlyStream
<1>2. CASE sub[s].at \notin {"loop", "wait", "hand"} BY <1>2 DEF FreshStream, EarlyStream
<1> QED BY <1>1, <1>2

\* Whoever waited for the LISTEN begins with the row as it is now.
LEMMA ListenOkStep == ASSUME StreamsInv, ListenOk PROVE StreamsInv'
<1>1. /\ row \in Nat /\ sub \in [Subs -> Stream] /\ members \subseteq Subs
      /\ MembersAre /\ ListenHeld /\ UNCHANGED <<row, unsent, lost, pg, members>>
      /\ listen = "pending"
  BY DEF StreamsInv, Typed, ListenOk
<1>2. \A s \in Subs :
        /\ sub[s].at = "listen" => sub'[s] = [sub[s] EXCEPT !.at = "loop", !.base = row]
        /\ sub[s].at # "listen" => sub'[s] = sub[s]
  BY DEF ListenOk, Waiting
<1>3. ASSUME NEW s \in Subs
      PROVE /\ sub'[s] \in Stream
            /\ sub[s].at = "listen" => /\ sub'[s].at = "loop" /\ sub'[s].base = row
                                        /\ sub'[s].buf = sub[s].buf
  BY <1>1, <1>2 DEF Stream, Stages
<1>4. sub' = [s \in Subs |-> sub'[s]] BY DEF ListenOk
<1>5. Typed' BY <1>1, <1>3, <1>4 DEF StreamsInv, Typed, ListenOk
<1>6. MembersAre' BY <1>1, <1>2, <1>3 DEF MembersAre, Joined
<1>7. ListenHeld'
  <2>1. \A s \in Subs : sub'[s].at # "listen" BY <1>2, <1>3
  <2>2. Waiting' = {} BY <2>1 DEF Waiting
  <2> QED BY <1>1, <2>2 DEF ListenHeld, ListenOk
<1>8. EarlyBus' BY <1>1 DEF StreamsInv, EarlyBus
<1>9. ASSUME NEW s \in Views PROVE (FreshStream(sub[s]) /\ EarlyStream(sub[s]))'
  <2>1. FreshStream(sub[s]) /\ EarlyStream(sub[s]) BY DEF StreamsInv
  <2>2. CASE sub[s].at = "listen"
    BY <1>1, <1>3, <2>1, <2>2 DEF FreshStream, EarlyStream
  <2>3. CASE sub[s].at # "listen" BY <1>1, <1>2, <2>1, <2>3, SameFresh
  <2> QED BY <2>2, <2>3
<1> QED BY <1>5, <1>6, <1>7, <1>8, <1>9 DEF StreamsInv

\* Whoever is subscribed waited for it, so nobody is left.
LEMMA ListenFailsStep == ASSUME StreamsInv, ListenFails PROVE StreamsInv'
<1>1. /\ sub \in [Subs -> Stream] /\ members \subseteq Subs
      /\ MembersAre /\ ListenHeld /\ UNCHANGED <<row, unsent, lost, pg>>
      /\ listen = "pending" /\ listen' = "off" /\ members' = members \ Waiting
  BY DEF StreamsInv, Typed, ListenFails
<1>2. \A s \in Subs :
        /\ sub[s].at = "listen" => sub'[s] = Ended(sub[s])
        /\ sub[s].at # "listen" => sub'[s] = sub[s]
  BY DEF ListenFails, Waiting
<1>3. ASSUME NEW s \in Subs
      PROVE /\ sub'[s] \in Stream
            /\ sub[s].at = "listen" => sub'[s].at = "idle" /\ sub'[s].buf = <<>>
  BY <1>1, <1>2, EndedIs
<1>4. sub' = [s \in Subs |-> sub'[s]] BY DEF ListenFails
<1>5. Typed' BY <1>1, <1>3, <1>4 DEF StreamsInv, Typed
<1>6. members' = {} BY <1>1 DEF ListenHeld, Waiting
<1>7. \A s \in Subs : ~ Joined(sub'[s])
  BY <1>1, <1>2, <1>3 DEF MembersAre, Joined, ListenHeld
<1>8. MembersAre' BY <1>6, <1>7 DEF MembersAre
<1>9. ListenHeld' BY <1>1, <1>6, <1>7 DEF ListenHeld, Waiting, Joined
<1>10. EarlyBus' BY <1>1 DEF StreamsInv, EarlyBus
<1>11. ASSUME NEW s \in Views PROVE (FreshStream(sub[s]) /\ EarlyStream(sub[s]))'
  <2>1. FreshStream(sub[s])' BY <1>7 DEF FreshStream, Joined
  <2>2. EarlyStream(sub[s])
    BY DEF StreamsInv
  <2>3. EarlyStream(sub[s])' BY <1>1, <1>2, <1>3, <2>2, EmptyHolds DEF EarlyStream
  <2> QED BY <2>1, <2>3
<1> QED BY <1>5, <1>8, <1>9, <1>10, <1>11 DEF StreamsInv

\* Join: the new subscriber begins with the row as it is now.
LEMMA JoinStep ==
    ASSUME StreamsInv, NEW s \in Subs, sub[s].at = "open", Join(s),
           UNCHANGED <<row, unsent, lost, pg>>
    PROVE StreamsInv'
<1>1. /\ row \in Nat /\ sub \in [Subs -> Stream] /\ members \subseteq Subs
      /\ MembersAre /\ ListenHeld /\ sub[s] \in Stream
      /\ listen \in {"off", "pending", "on"}
  BY DEF StreamsInv, Typed
<1> DEFINE r == [sub[s] EXCEPT !.at = IF listen = "on" THEN "loop" ELSE "listen",
                               !.base = row, !.val = 0,
                               !.seen = IF s \in Watchers THEN sub[s].val ELSE @]
<1>2. sub' = [sub EXCEPT ![s] = r] BY <1>1 DEF Join
<1>3. /\ r \in Stream /\ r.base = row /\ r.buf = sub[s].buf
      /\ r.at = IF listen = "on" THEN "loop" ELSE "listen"
  BY <1>1 DEF Stream, Stages
<1> HIDE DEF r
<1>4. sub'[s] = r /\ \A x \in Subs : x # s => sub'[x] = sub[x] BY <1>1, <1>2
<1>5. members' = members \cup {s} /\ listen' = IF listen = "off" THEN "pending" ELSE listen
  BY DEF Join
<1>6. Typed' BY <1>1, <1>2, <1>3, <1>5 DEF StreamsInv, Typed
<1>7. Joined(r) BY <1>3 DEF Joined
<1>8. MembersAre' BY <1>1, <1>4, <1>5, <1>7 DEF MembersAre
<1>9. ListenHeld'
  <2>1. ASSUME NEW x \in members', sub'[x].at # "listen" PROVE listen' = "on"
    <3>1. CASE x = s BY <1>3, <1>4, <1>5, <2>1, <3>1
    <3>2. CASE x # s BY <1>1, <1>4, <1>5, <2>1, <3>2 DEF ListenHeld
    <3> QED BY <3>1, <3>2
  <2>2. ASSUME NEW x \in Subs, sub'[x].at = "listen" PROVE listen' = "pending"
    <3>1. CASE x = s BY <1>1, <1>3, <1>4, <1>5, <2>2, <3>1
    <3>2. CASE x # s BY <1>1, <1>4, <1>5, <2>2, <3>2 DEF ListenHeld, Waiting
    <3> QED BY <3>1, <3>2
  <2> QED BY <1>5, <2>1, <2>2 DEF ListenHeld, Waiting
<1>10. ASSUME NEW x \in Views PROVE (FreshStream(sub[x]) /\ EarlyStream(sub[x]))'
  <2>1. FreshStream(sub[x]) /\ EarlyStream(sub[x]) BY DEF StreamsInv
  <2>2. CASE x = s BY <1>3, <1>4, <2>1, <2>2 DEF FreshStream, EarlyStream
  <2>3. CASE x # s BY <1>4, <2>1, <2>3, SameFresh
  <2> QED BY <2>2, <2>3
<1>11. EarlyBus' BY DEF StreamsInv, EarlyBus
<1> QED BY <1>6, <1>8, <1>9, <1>10, <1>11 DEF StreamsInv

\* Leave: the LISTEN goes only when nobody else is subscribed.
LEMMA LeaveStep ==
    ASSUME StreamsInv, NEW s \in Subs, NEW r \in Stream, ~ Joined(r), r.buf = <<>>, Leave({s}),
           sub' = [sub EXCEPT ![s] = r], UNCHANGED <<row, unsent, lost>>
    PROVE StreamsInv'
<1>1. /\ sub \in [Subs -> Stream] /\ members \subseteq Subs /\ pg \in Seq(Nat)
      /\ MembersAre /\ ListenHeld
      /\ listen \in {"off", "pending", "on"}
  BY DEF StreamsInv, Typed
<1>2. sub'[s] = r /\ \A x \in Subs : x # s => sub'[x] = sub[x] BY <1>1
<1>3. /\ members' = members \ {s}
      /\ listen' = IF members' = {} /\ listen = "on" THEN "off" ELSE listen
      /\ members' # {} => pg' = pg
      /\ pg' \in {pg, <<>>}
  BY DEF Leave
<1>4. Typed'
  <2>1. pg' \in Seq(Nat) BY <1>1, <1>3, EmptySeq
  <2>2. listen' \in {"off", "pending", "on"} BY <1>1, <1>3
  <2> QED BY <1>1, <1>3, <2>1, <2>2 DEF StreamsInv, Typed
<1>5. MembersAre' BY <1>1, <1>2, <1>3 DEF MembersAre
<1>6. ListenHeld'
  <2>1. ASSUME NEW x \in members', sub'[x].at # "listen" PROVE listen' = "on"
    BY <1>1, <1>2, <1>3, <2>1 DEF ListenHeld
  <2>2. ASSUME NEW x \in Subs, sub'[x].at = "listen" PROVE listen' = "pending"
    <3>1. x # s BY <1>2, <2>2 DEF Joined
    <3>2. listen = "pending" BY <1>1, <1>2, <2>2, <3>1 DEF ListenHeld, Waiting
    <3> QED BY <1>3, <3>2
  <2> QED BY <1>3, <2>1, <2>2 DEF ListenHeld, Waiting
<1>7. ASSUME NEW x \in Views PROVE (FreshStream(sub[x]) /\ EarlyStream(sub[x]))'
  <2>1. FreshStream(sub[x]) /\ EarlyStream(sub[x]) BY DEF StreamsInv
  <2>2. CASE x = s BY <1>2, <2>2, EmptyHolds DEF FreshStream, EarlyStream, Joined
  <2>3. CASE x # s
    <3>1. sub[x].at \in {"loop", "wait", "hand"} => x \in members'
      BY <1>1, <1>3, <2>3 DEF MembersAre, Joined
    <3>2. sub[x].at \in {"loop", "wait", "hand"} => UNCHANGED pg BY <1>3, <3>1
    <3> QED BY <1>2, <2>1, <2>3, <3>2, SameFresh
  <2> QED BY <2>2, <2>3
<1>8. EarlyBus' BY <1>3, EmptyHolds DEF StreamsInv, EarlyBus
<1> QED BY <1>4, <1>5, <1>6, <1>7, <1>8 DEF StreamsInv

(***************************************************************************)
(* The streams.                                                            *)
(***************************************************************************)

LEMMA TakeStep == ASSUME StreamsInv, NEW s \in Subs, Take(s) PROVE StreamsInv'
<1>1. sub \in [Subs -> Stream] /\ sub[s] \in Stream /\ sub[s].at = "loop"
  BY DEF StreamsInv, Typed, Take
<1>2. UNCHANGED <<row, unsent, lost, pg, listen, members>> BY DEF Take
<1>3. s \in Views => FreshStream(sub[s]) /\ EarlyStream(sub[s]) BY DEF StreamsInv
<1>4. CASE sub[s].buf # <<>>
  <2> DEFINE r == [sub[s] EXCEPT !.at = "hand", !.val = Head(sub[s].buf), !.buf = Tail(@)]
  <2>1. sub' = [sub EXCEPT ![s] = r] BY <1>1, <1>4 DEF Take
  <2>2. sub[s].buf \in Seq(Nat) BY <1>1 DEF Stream
  <2>3. Head(sub[s].buf) \in Nat /\ Tail(sub[s].buf) \in Seq(Nat)
    BY <1>4, <2>2, HeadTailProperties
  <2>4. /\ r \in Stream /\ r.at = "hand" /\ r.val = Head(sub[s].buf)
        /\ r.buf = Tail(sub[s].buf) /\ r.raw = sub[s].raw /\ r.base = sub[s].base
        /\ r.out = sub[s].out /\ r.seen = sub[s].seen /\ r.missed = sub[s].missed
    BY <1>1, <2>3 DEF Stream, Stages
  <2> HIDE DEF r
  <2>5. Holds(sub[s].buf, Last) <=> r.val = Last \/ Holds(r.buf, Last)
    BY <1>4, <2>2, <2>4, TailHolds
  <2>6. Joined(r) /\ Joined(sub[s]) /\ Coming(r) BY <1>1, <2>4 DEF Joined, Coming
  <2>7. Ending(sub[s]) => Ending(r) BY <1>1, <2>4, <2>5 DEF Ending
  <2>8. s \in Views => FreshStream(r) /\ EarlyStream(r)
    BY <1>1, <1>3, <2>4, <2>5, <2>6, <2>7
       DEF FreshStream, FreshRaw, FreshResource, LastShown, EarlyStream
  <2> QED BY <1>1, <1>2, <2>1, <2>4, <2>6, <2>8, OneStream
<1>5. CASE sub[s].buf = <<>>
  <2> DEFINE r == [sub[s] EXCEPT !.at = "wait"]
  <2>1. sub' = [sub EXCEPT ![s] = r] BY <1>1, <1>5 DEF Take
  <2>2. /\ r \in Stream /\ r.at = "wait" /\ r.base = sub[s].base /\ r.buf = sub[s].buf
        /\ r.out = sub[s].out /\ r.seen = sub[s].seen /\ r.raw = sub[s].raw
        /\ r.missed = sub[s].missed /\ r.invalid = sub[s].invalid
    BY <1>1 DEF Stream, Stages
  <2> HIDE DEF r
  <2>3. Joined(r) /\ Joined(sub[s]) BY <1>1, <2>2 DEF Joined
  <2>4. s \in Views => FreshStream(r) /\ EarlyStream(r)
    BY <1>1, <1>3, <2>2
       DEF FreshStream, FreshRaw, FreshResource, Coming, Ending, LastShown, EarlyStream
  <2> QED BY <1>1, <1>2, <2>1, <2>2, <2>3, <2>4, OneStream
<1> QED BY <1>4, <1>5

LEMMA OpenStep == ASSUME StreamsInv, NEW s \in Subs, Open(s) PROVE StreamsInv'
<1>1. sub \in [Subs -> Stream] /\ sub[s] \in Stream /\ sub[s].at = "idle" /\ row \in Nat
  BY DEF StreamsInv, Typed, Open
<1> DEFINE r == [sub[s] EXCEPT !.at = "open", !.connects = @ + 1,
                               !.val = IF s \in Watchers THEN row ELSE 0]
<1>2. sub' = [sub EXCEPT ![s] = r] /\ UNCHANGED <<row, unsent, lost, pg, listen, members>>
  BY <1>1 DEF Open
<1>2a. r.connects = sub[s].connects + 1 /\ sub[s].connects + 1 \in Nat
      /\ r.val \in Nat
  BY <1>1 DEF Stream
<1>3. r \in Stream /\ r.at = "open" /\ r.buf = sub[s].buf BY <1>1, <1>2a DEF Stream, Stages
<1> HIDE DEF r
<1>4. ~ Joined(r) /\ ~ Joined(sub[s]) /\ FreshStream(r) BY <1>1, <1>3 DEF Joined, FreshStream
<1>5. s \in Views => EarlyStream(r) BY <1>3 DEF StreamsInv, EarlyStream
<1> QED BY <1>1, <1>2, <1>3, <1>4, <1>5, OneStream

LEMMA SubscribeStep == ASSUME StreamsInv, NEW s \in Subs, Subscribe(s) PROVE StreamsInv'
<1>1. sub \in [Subs -> Stream] /\ sub[s] \in Stream /\ sub[s].at = "open"
  BY DEF StreamsInv, Typed, Subscribe
<1>2. UNCHANGED <<row, unsent, lost, pg>> BY DEF Subscribe
<1>3. CASE Join(s) BY <1>1, <1>2, <1>3, JoinStep
<1>4. CASE ~ Join(s)
  <2> DEFINE r == [sub[s] EXCEPT !.at = "done", !.seen = Last]
  <2>1. sub' = [sub EXCEPT ![s] = r] /\ UNCHANGED <<listen, members>>
    BY <1>1, <1>4 DEF Subscribe
  <2>2. r \in Stream /\ r.at = "done" /\ r.buf = sub[s].buf
    BY <1>1, NotificationsAssumption DEF Stream, Stages
  <2> HIDE DEF r
  <2>3. /\ ~ Joined(r) /\ ~ Joined(sub[s])
        /\ s \in Views => FreshStream(r) /\ EarlyStream(r)
    BY <1>1, <2>2 DEF StreamsInv, Joined, FreshStream, EarlyStream
  <2> QED BY <1>1, <1>2, <2>1, <2>2, <2>3, OneStream
<1> QED BY <1>3, <1>4

LEMMA RelayStep == ASSUME StreamsInv, NEW s \in Subs, Relay(s) PROVE StreamsInv'
<1>1. /\ sub \in [Subs -> Stream] /\ sub[s] \in Stream /\ sub[s].at = "hand"
      /\ s \in Watchers /\ s \notin Views /\ UNCHANGED <<row, unsent, lost>>
  BY NotificationsAssumption DEF StreamsInv, Typed, Relay
<1>2. CASE sub[s].val = Last
  <2> DEFINE r == [Ended(sub[s]) EXCEPT !.at = "done", !.seen = Last]
  <2>1. sub' = [sub EXCEPT ![s] = r] /\ Leave({s}) BY <1>1, <1>2 DEF Relay
  <2>2. Ended(sub[s]) \in Stream /\ Ended(sub[s]).buf = <<>> BY <1>1, EndedIs
  <2>3. r \in Stream /\ r.at = "done" /\ r.buf = <<>>
    BY <2>2, NotificationsAssumption DEF Stream, Stages
  <2> HIDE DEF r
  <2>4. ~ Joined(r) BY <2>3 DEF Joined
  <2> QED BY <1>1, <2>1, <2>3, <2>4, LeaveStep
<1>3. CASE sub[s].val # Last
  <2> DEFINE r == [sub[s] EXCEPT !.at = "loop", !.val = 0, !.seen = sub[s].val]
  <2>1. sub' = [sub EXCEPT ![s] = r] /\ UNCHANGED <<pg, listen, members>>
    BY <1>1, <1>3 DEF Relay
  <2>2. r \in Stream /\ r.at = "loop" BY <1>1 DEF Stream, Stages
  <2> HIDE DEF r
  <2>3. Joined(r) /\ Joined(sub[s]) BY <1>1, <2>2 DEF Joined
  <2> QED BY <1>1, <2>1, <2>2, <2>3, OneStream
<1> QED BY <1>2, <1>3

\* The event that is queued makes the client fetch, or shows the row as it is;
\* there is none for a row that the deletion's event is still to show.
LEMMA ProjectStep == ASSUME StreamsInv, NEW s \in Subs, Project(s) PROVE StreamsInv'
<1>1. /\ sub \in [Subs -> Stream] /\ sub[s] \in Stream /\ sub[s].at = "hand" /\ row \in Nat
      /\ sub[s].out \in Seq(Nat) /\ sub[s].val \in Nat /\ sub[s].raw \in BOOLEAN
      /\ s \in Views /\ FreshStream(sub[s]) /\ EarlyStream(sub[s])
  BY DEF StreamsInv, Typed, Project, Stream
<1> DEFINE out == IF sub[s].raw \/ sub[s].val = Last THEN Append(sub[s].out, sub[s].val)
                  ELSE IF row = Last THEN sub[s].out ELSE Append(sub[s].out, row)
           r == [sub[s] EXCEPT !.at = "loop", !.val = 0, !.out = out]
<1>2. sub' = [sub EXCEPT ![s] = r] /\ UNCHANGED <<row, unsent, lost, pg, listen, members>>
  BY <1>1 DEF Project
<1>3. \A v \in Nat : /\ Append(sub[s].out, v) \in Seq(Nat) /\ Append(sub[s].out, v) # <<>>
                     /\ Append(sub[s].out, v)[Len(Append(sub[s].out, v))] = v
  BY <1>1, AppendProperties
<1>4. out \in Seq(Nat) BY <1>1, <1>3
<1>5. /\ r \in Stream /\ r.at = "loop" /\ r.out = out /\ r.raw = sub[s].raw
      /\ r.base = sub[s].base /\ r.buf = sub[s].buf /\ r.missed = sub[s].missed
      /\ r.seen = sub[s].seen
  BY <1>1, <1>4 DEF Stream, Stages
<1> HIDE DEF r
<1>6. Joined(r) /\ Joined(sub[s]) /\ EarlyStream(r) BY <1>1, <1>5 DEF Joined, EarlyStream
<1>7. CASE sub[s].raw
  <2>1. out # <<>> BY <1>1, <1>3, <1>7
  <2> HIDE DEF out
  <2>2. FreshStream(r) BY <1>5, <1>7, <2>1 DEF FreshStream, FreshRaw
  <2> QED BY <1>1, <1>2, <1>5, <1>6, <2>2, OneStream
<1>8. CASE ~ sub[s].raw /\ sub[s].val = Last
  <2>1. out # <<>> /\ out[Len(out)] = Last BY <1>1, <1>3, <1>8
  <2>2. row = Last BY <1>1, <1>8 DEF EarlyStream
  <2> HIDE DEF out
  <2>3. FreshStream(r) BY <1>5, <1>8, <2>1, <2>2 DEF FreshStream, FreshResource, LastShown
  <2> QED BY <1>1, <1>2, <1>5, <1>6, <2>3, OneStream
<1>9. CASE ~ sub[s].raw /\ sub[s].val # Last /\ row = Last
  <2>1. out = sub[s].out BY <1>9
  <2> HIDE DEF out
  <2>2. Ending(sub[s]) => Ending(r) BY <1>5, <1>9 DEF Ending
  <2>3. FreshStream(r)
    BY <1>1, <1>5, <1>9, <2>1, <2>2 DEF FreshStream, FreshResource, LastShown
  <2> QED BY <1>1, <1>2, <1>5, <1>6, <2>3, OneStream
<1>10. CASE ~ sub[s].raw /\ sub[s].val # Last /\ row # Last
  <2>1. out # <<>> /\ out[Len(out)] = row BY <1>1, <1>3, <1>10
  <2> HIDE DEF out
  <2>2. FreshStream(r) BY <1>5, <1>10, <2>1 DEF FreshStream, FreshResource, LastShown
  <2> QED BY <1>1, <1>2, <1>5, <1>6, <2>2, OneStream
<1> QED BY <1>1, <1>7, <1>8, <1>9, <1>10

LEMMA ProjectFailsStep == ASSUME StreamsInv, NEW s \in Subs, ProjectFails(s) PROVE StreamsInv'
<1>1. sub \in [Subs -> Stream] /\ sub[s] \in Stream BY DEF StreamsInv, Typed
<1> DEFINE r == [sub[s] EXCEPT !.at = "dead", !.val = 0, !.buf = <<>>]
<1>2. sub' = [sub EXCEPT ![s] = r] /\ Leave({s}) /\ UNCHANGED <<row, unsent, lost>>
  BY <1>1 DEF ProjectFails
<1>2a. <<>> \in Seq(Nat) BY EmptySeq
<1>3. r \in Stream /\ r.at = "dead" /\ r.buf = <<>> BY <1>1, <1>2a DEF Stream, Stages
<1> HIDE DEF r
<1>4. ~ Joined(r) BY <1>3 DEF Joined
<1> QED BY <1>2, <1>3, <1>4, LeaveStep

LEMMA TailKeepsLast ==
    ASSUME NEW q \in Seq(Nat), q # <<>>
    PROVE /\ Head(q) \in Nat /\ Tail(q) \in Seq(Nat)
          /\ Tail(q) = <<>> => Head(q) = q[Len(q)]
          /\ Tail(q) # <<>> => Tail(q)[Len(Tail(q))] = q[Len(q)]
<1> DEFINE t == Tail(q)
<1>1. Head(q) \in Nat /\ t \in Seq(Nat) /\ Head(q) = q[1] BY HeadTailProperties
<1>2. Len(t) = Len(q) - 1 /\ \A i \in 1..Len(t) : t[i] = q[i + 1] BY HeadTailProperties
<1>3. Len(q) \in Nat \ {0} BY EmptySeq
<1> HIDE DEF t
<1>4. t = <<>> => Len(t) = 0 BY EmptySeq
<1>5. t # <<>> => Len(t) \in Nat \ {0} BY <1>1, EmptySeq
<1>6. t = <<>> => Len(q) = 1 BY <1>2, <1>3, <1>4
<1>7. t # <<>> => t[Len(t)] = q[Len(q)]
  <2> SUFFICES ASSUME t # <<>> PROVE t[Len(t)] = q[Len(q)] OBVIOUS
  <2>1. Len(t) \in 1..Len(t) /\ Len(t) + 1 = Len(q) BY <1>2, <1>3, <1>5
  <2> QED BY <1>2, <2>1
<1> QED BY <1>1, <1>6, <1>7 DEF t

\* Sending the queue's last event shows what it showed.
LEMMA SendKeeps ==
    ASSUME NEW r \in Stream, r.out # <<>>
    PROVE LET w == [r EXCEPT !.out = Tail(@), !.seen = IF r.raw THEN @ ELSE Head(r.out),
                             !.invalid = r.raw]
          IN /\ w \in Stream
             /\ ~ r.raw => LastShown(w) = LastShown(r)
             /\ w.at = r.at /\ w.raw = r.raw /\ w.base = r.base /\ w.buf = r.buf
             /\ w.val = r.val /\ w.missed = r.missed /\ w.invalid = r.raw
<1> DEFINE seen == IF r.raw THEN r.seen ELSE Head(r.out)
           w == [r EXCEPT !.out = Tail(@), !.seen = IF r.raw THEN @ ELSE Head(r.out),
                          !.invalid = r.raw]
<1>1. r.out \in Seq(Nat) /\ r.seen \in Nat /\ r.raw \in BOOLEAN BY DEF Stream
<1>2. /\ Head(r.out) \in Nat /\ Tail(r.out) \in Seq(Nat)
      /\ Tail(r.out) = <<>> => Head(r.out) = r.out[Len(r.out)]
      /\ Tail(r.out) # <<>> => Tail(r.out)[Len(Tail(r.out))] = r.out[Len(r.out)]
  BY <1>1, TailKeepsLast
<1>3. seen \in Nat /\ (~ r.raw => seen = Head(r.out)) BY <1>1, <1>2
<1>4. w = [r EXCEPT !.out = Tail(@), !.seen = seen, !.invalid = r.raw] BY DEF Stream
<1> HIDE DEF seen, w
<1>5. /\ w \in Stream /\ w.seen = seen /\ w.out = Tail(r.out)
      /\ w.at = r.at /\ w.raw = r.raw /\ w.base = r.base /\ w.buf = r.buf
      /\ w.val = r.val /\ w.missed = r.missed /\ w.invalid = r.raw
  BY <1>1, <1>2, <1>3, <1>4 DEF Stream
<1>6. ~ r.raw => LastShown(w) = LastShown(r) BY <1>2, <1>3, <1>5 DEF LastShown
<1> QED BY <1>5, <1>6 DEF w

LEMMA SendStep == ASSUME StreamsInv, NEW s \in Subs, Send(s) PROVE StreamsInv'
<1>1. /\ Typed /\ MembersAre /\ ListenHeld /\ s \in Views
      /\ sub \in [Subs -> Stream] /\ sub[s] \in Stream /\ sub[s].out # <<>>
      /\ UNCHANGED <<row, unsent, lost, pg, listen, members>>
      /\ FreshStream(sub[s]) /\ EarlyStream(sub[s])
  BY DEF StreamsInv, Typed, Send
<1> DEFINE r == [sub[s] EXCEPT !.out = Tail(@),
                               !.seen = IF sub[s].raw THEN @ ELSE Head(sub[s].out),
                               !.invalid = sub[s].raw]
<1>2. sub' = [sub EXCEPT ![s] = r] BY <1>1 DEF Send
<1>3. /\ r \in Stream
      /\ ~ sub[s].raw => LastShown(r) = LastShown(sub[s])
      /\ r.at = sub[s].at /\ r.raw = sub[s].raw /\ r.base = sub[s].base
      /\ r.buf = sub[s].buf /\ r.val = sub[s].val /\ r.missed = sub[s].missed
      /\ r.invalid = sub[s].raw
  BY <1>1, SendKeeps
<1> HIDE DEF r
<1>4. Coming(sub[s]) => Coming(r) BY <1>3 DEF Coming
<1>5. Ending(sub[s]) => Ending(r) BY <1>3 DEF Ending
<1>6. ASSUME sub[s].raw PROVE FreshStream(r) /\ EarlyStream(r)
  <2>1. r.invalid /\ r.raw BY <1>3, <1>6
  <2> QED BY <1>1, <1>3, <2>1 DEF FreshStream, FreshRaw, EarlyStream
<1>7. ASSUME ~ sub[s].raw PROVE FreshStream(r) /\ EarlyStream(r)
  <2>1. ~ r.raw BY <1>3, <1>7
  <2>2. FreshResource(sub[s]) => FreshResource(r)
    BY <1>3, <1>4, <1>5, <1>7 DEF FreshResource
  <2> QED BY <1>1, <1>3, <1>7, <2>1, <2>2 DEF FreshStream, EarlyStream
<1>8. FreshStream(r) /\ EarlyStream(r) BY <1>6, <1>7
<1> QED BY <1>1, <1>2, <1>3, <1>8, Redrawn

LEMMA RefetchStep == ASSUME StreamsInv, NEW s \in Subs, Refetch(s) PROVE StreamsInv'
<1>1. /\ sub \in [Subs -> Stream] /\ sub[s] \in Stream /\ row \in Nat
      /\ UNCHANGED <<row, unsent, lost, pg, listen, members>>
  BY DEF StreamsInv, Typed, Refetch
<1> DEFINE r == [sub[s] EXCEPT !.invalid = FALSE, !.seen = row]
<1>2. sub' = [sub EXCEPT ![s] = r] BY <1>1 DEF Refetch
<1>3. /\ r \in Stream /\ r.seen = row /\ r.at = sub[s].at /\ r.raw = sub[s].raw
      /\ r.base = sub[s].base /\ r.buf = sub[s].buf /\ r.val = sub[s].val
      /\ r.out = sub[s].out /\ r.missed = sub[s].missed
  BY <1>1 DEF Stream
<1> HIDE DEF r
<1>4. s \in Views => FreshStream(r) /\ EarlyStream(r)
  BY <1>3 DEF StreamsInv, FreshStream, FreshRaw, FreshResource, Coming, Ending, LastShown,
              EarlyStream
<1> QED BY <1>1, <1>2, <1>3, <1>4, Redrawn

LEMMA AbortStep == ASSUME StreamsInv, NEW s \in Subs, Abort(s) PROVE StreamsInv'
<1>1. sub \in [Subs -> Stream] /\ sub[s] \in Stream BY DEF StreamsInv, Typed
<1>2. Ended(sub[s]) \in Stream /\ Ended(sub[s]).at = "idle" /\ Ended(sub[s]).buf = <<>>
  BY <1>1, EndedIs
<1>3. sub' = [sub EXCEPT ![s] = Ended(sub[s])] /\ Leave({s}) /\ UNCHANGED <<row, unsent, lost>>
  BY <1>1 DEF Abort
<1>4. ~ Joined(Ended(sub[s])) BY <1>2 DEF Joined
<1> QED BY <1>2, <1>3, <1>4, LeaveStep

LEMMA StreamsInductive == StreamsInv /\ [Next]_vars => StreamsInv'
<1> SUFFICES ASSUME StreamsInv, [Next]_vars PROVE StreamsInv' OBVIOUS
<1>1. CASE UNCHANGED vars
  BY <1>1 DEF StreamsInv, Typed, MembersAre, ListenHeld, Waiting, FreshStream, FreshRaw,
              FreshResource, Coming, Ending, LastShown, EarlyBus, EarlyStream
<1>2. CASE Commit BY <1>2, CommitStep
<1>3. ASSUME NEW v \in 1..Last, Notify(v) \/ Crash(v) PROVE StreamsInv'
  BY <1>3, NotifyStep, CrashStep
<1>4. CASE ListenOk \/ ListenFails \/ Dispatch
  BY <1>4, ListenOkStep, ListenFailsStep, DispatchStep
<1>5. ASSUME NEW s \in Subs, Open(s) \/ StreamStep(s) \/ Refetch(s) \/ Abort(s)
      PROVE StreamsInv'
  BY <1>5, OpenStep, RefetchStep, AbortStep, TakeStep, SubscribeStep, RelayStep, ProjectStep,
     ProjectFailsStep, SendStep
     DEF StreamStep
<1> QED BY <1>1, <1>2, <1>3, <1>4, <1>5 DEF Next

LEMMA StreamsSafety == Spec => []StreamsInv
BY InitStreams, StreamsInductive, PTL DEF Spec

(***************************************************************************)
(* Theorems.                                                               *)
(***************************************************************************)

\* The process listens exactly while somebody needs it, for any number of
\* streams that come and go while the LISTEN is set up or given up
\* (ensureListening, maybeStopListening, cleanup).
THEOREM ListenSafety == Spec => []ListenHeld
BY StreamsSafety, PTL DEF StreamsInv

\* A client of a project stream with nothing left to pass on or to fetch shows
\* the row as it is, whatever the order of the notifications and however many of
\* them its queue had to drop: an operation's and a changeset's because the last
\* event makes it fetch, a resource's because the last update's event carries
\* what was read after it, and the deletion's comes, unless the queue dropped
\* that (projectEvents, dispatch, handleEvent).
THEOREM ViewSafety == Spec => []ViewFresh
<1>1. ASSUME StreamsInv, NEW s \in Views, sub[s].at \in {"loop", "wait"},
             sub[s].buf = <<>> /\ pg = <<>> /\ unsent = {} /\ lost = {},
             sub[s].out = <<>> /\ ~ sub[s].invalid
      PROVE \/ row = sub[s].base \/ sub[s].seen = row
            \/ ~ sub[s].raw /\ row = Last /\ sub[s].missed
  <2>1. FreshStream(sub[s]) BY <1>1 DEF StreamsInv
  <2>2. ~ Coming(sub[s]) /\ LastShown(sub[s]) = sub[s].seen BY <1>1 DEF Coming, LastShown
  <2>3. ~ Ending(sub[s]) BY <1>1, EmptyHolds DEF Ending
  <2> QED BY <1>1, <2>1, <2>2, <2>3 DEF FreshStream, FreshRaw, FreshResource
<1>2. StreamsInv => ViewFresh BY <1>1 DEF ViewFresh
<1> QED BY <1>2, StreamsSafety, PTL
================================================================================
