---------------------------- MODULE Notifications ----------------------------
(***************************************************************************)
(* Live updates: a writer commits a change of a row and afterwards sends   *)
(* pg_notify (operations/operations.ts); one notification bus per process  *)
(* holds a LISTEN while it has subscribers and gives each a bounded queue  *)
(* (lib/notify.ts); two kinds of event streams read the queues             *)
(* (operations/sse.ts, events/projectEvents.ts, lib/sse.ts), and their     *)
(* clients connect again when a stream ends (fetch-sse.ts).                *)
(*                                                                         *)
(* One row and one channel stand for all: a version of the row is what a   *)
(* notification or an event carries, and the last version is the closed    *)
(* one, of a resource the deleted one.  An operation stream passes the     *)
(* notification's own payload on.  So does a project stream on its         *)
(* operation and changeset channels, whose client takes it for a sign to   *)
(* fetch the row again; on its resource channel it reads the row and its   *)
(* client shows what the event carries.                                    *)
(***************************************************************************)
EXTENDS Naturals, Sequences, FiniteSets

CONSTANTS
    Watchers,      \* clients of operation streams
    Views,         \* clients of project streams, one per channel
    Last,          \* the version that closes the row
    maxBuffered,   \* MAX_BUFFERED_NOTIFICATIONS
    MaxConnects    \* bound: connections of one client

Subs == Watchers \cup Views

ASSUME NotificationsAssumption ==
    /\ Watchers \cap Views = {}
    /\ Last \in Nat /\ maxBuffered \in Nat \ {0} /\ MaxConnects \in Nat

VARIABLES
    row,       \* the committed version
    unsent,    \* versions committed whose notification is still to be sent
    lost,      \* versions whose writer died in between
    pg,        \* notifications on their way from the database to the process
    listen,    \* ChannelState: off, pending (listenPromise) or on (unlisten)
    members,   \* ChannelState.subscribers; refCount is their number
    sub        \* the streams and their clients

vars == <<row, unsent, lost, pg, listen, members, sub>>

Idle == [at |-> "idle", raw |-> FALSE, val |-> 0, buf |-> <<>>, out |-> <<>>, seen |-> 0,
         base |-> 0, invalid |-> FALSE, missed |-> FALSE, connects |-> 0]

Stages == {"idle", "open", "listen", "loop", "wait", "hand", "dead", "done"}

TypeOK ==
    /\ row \in 0..Last
    /\ unsent \subseteq 1..Last /\ lost \subseteq 1..Last
    /\ pg \in Seq(1..Last)
    /\ listen \in {"off", "pending", "on"}
    /\ members \subseteq Subs
    /\ \A s \in Subs : /\ sub[s].at \in Stages
                       /\ Len(sub[s].buf) <= maxBuffered
                       /\ sub[s].raw \in BOOLEAN /\ sub[s].invalid \in BOOLEAN
                       /\ sub[s].connects \in 0..MaxConnects

\* raw says that a project stream is followed on its operation or changeset
\* channel, not on the one of resources; seen is what a client shows, and
\* invalid that it has still to fetch the query it has invalidated.  missed,
\* which only a property reads, says that the queue has dropped the
\* notification of the resource's deletion.
Init ==
    /\ row = 0
    /\ unsent = {} /\ lost = {}
    /\ pg = <<>>
    /\ listen = "off"
    /\ members = {}
    /\ \E raw \in SUBSET Views : sub = [s \in Subs |-> [Idle EXCEPT !.raw = s \in raw]]

-----------------------------------------------------------------------------
(* Writers *)

\* A writer's transaction.
Commit ==
    /\ row < Last
    /\ row' = row + 1
    /\ unsent' = unsent \cup {row + 1}
    /\ UNCHANGED <<lost, pg, listen, members, sub>>

\* notifyOperation, notifyResource: after the commit, and in any order with
\* those of other writers.
Notify(v) ==
    /\ v \in unsent
    /\ unsent' = unsent \ {v}
    /\ pg' = IF listen = "on" THEN Append(pg, v) ELSE pg
    /\ UNCHANGED <<row, lost, listen, members, sub>>

\* The writer dies before it notifies.
Crash(v) ==
    /\ v \in unsent
    /\ unsent' = unsent \ {v}
    /\ lost' = lost \cup {v}
    /\ UNCHANGED <<row, pg, listen, members, sub>>

-----------------------------------------------------------------------------
(* The bus *)

\* cleanup of the subscribers gone, then maybeStopListening.
Leave(gone) ==
    LET left == members \ gone
        stop == left = {} /\ listen = "on"
    IN /\ members' = left
       /\ listen' = IF stop THEN "off" ELSE listen
       /\ pg' = IF stop THEN <<>> ELSE pg

\* subscribeJson up to its loop: ensureListening starts the LISTEN, joins the
\* one that is pending, or goes on.
Join(s) ==
    /\ members' = members \cup {s}
    /\ listen' = IF listen = "off" THEN "pending" ELSE listen
    /\ sub' = [sub EXCEPT ![s].at = IF listen = "on" THEN "loop" ELSE "listen",
                          ![s].base = row, ![s].val = 0,
                          ![s].seen = IF s \in Watchers THEN sub[s].val ELSE @]

Waiting == {s \in Subs : sub[s].at = "listen"}

\* Mutated form: nobody looks whether the subscribers have gone meanwhile.
ListenOk_NoRecheck ==
    /\ listen = "pending"
    /\ listen' = "on"
    /\ sub' = [s \in Subs |-> IF s \in Waiting
                              THEN [sub[s] EXCEPT !.at = "loop", !.base = row]
                              ELSE sub[s]]
    /\ UNCHANGED <<row, unsent, lost, pg, members>>

\* The LISTEN is in place.  If everyone left meanwhile it is given up.
ListenOk ==
    /\ listen = "pending"
    /\ listen' = IF members = {} THEN "off" ELSE "on"
    /\ sub' = [s \in Subs |-> IF s \in Waiting
                              THEN [sub[s] EXCEPT !.at = "loop", !.base = row]
                              ELSE sub[s]]
    /\ UNCHANGED <<row, unsent, lost, pg, members>>

\* The stream ends; its client may connect again.
Ended(r) == [Idle EXCEPT !.raw = r.raw, !.seen = r.seen, !.connects = r.connects]

\* The LISTEN fails for everyone who waits for it.
ListenFails ==
    /\ listen = "pending"
    /\ listen' = "off"
    /\ members' = members \ Waiting
    /\ sub' = [s \in Subs |-> IF s \in Waiting THEN Ended(sub[s]) ELSE sub[s]]
    /\ UNCHANGED <<row, unsent, lost, pg>>

\* Mutated form: a full queue refuses the new notification.
Pushed_KeepOldest(buf, v) == IF Len(buf) < maxBuffered THEN Append(buf, v) ELSE buf

\* A full queue drops its oldest notification.
Pushed(buf, v) ==
    IF Len(buf) < maxBuffered THEN Append(buf, v) ELSE Append(Tail(buf), v)

\* The queue of a project stream is full and drops the notification of the
\* resource's deletion.
Drops(s) ==
    /\ s \in Views /\ ~sub[s].raw
    /\ Len(sub[s].buf) >= maxBuffered /\ Head(sub[s].buf) = Last

\* handlePayload and dispatch: a waiting reader gets the notification, the
\* others find it in their queue.
Dispatch ==
    /\ pg # <<>>
    /\ pg' = Tail(pg)
    /\ sub' = [s \in Subs |->
                 IF s \notin members THEN sub[s]
                 ELSE IF sub[s].at = "wait"
                 THEN [sub[s] EXCEPT !.at = "hand", !.val = Head(pg)]
                 ELSE [sub[s] EXCEPT !.buf = Pushed(@, Head(pg)),
                                     !.missed = @ \/ Drops(s)]]
    /\ UNCHANGED <<row, unsent, lost, listen, members>>

\* The loop of subscribeJson.
Take(s) ==
    /\ sub[s].at = "loop"
    /\ sub' = [sub EXCEPT ![s] =
                 IF sub[s].buf # <<>>
                 THEN [sub[s] EXCEPT !.at = "hand", !.val = Head(sub[s].buf), !.buf = Tail(@)]
                 ELSE [sub[s] EXCEPT !.at = "wait"]]
    /\ UNCHANGED <<row, unsent, lost, pg, listen, members>>

-----------------------------------------------------------------------------
(* Streams and clients *)

\* The route: the operation is loaded before the stream begins.
Open(s) ==
    /\ sub[s].at = "idle" /\ sub[s].connects < MaxConnects
    /\ sub' = [sub EXCEPT ![s].at = "open", ![s].connects = @ + 1,
                          ![s].val = IF s \in Watchers THEN row ELSE 0]
    /\ UNCHANGED <<row, unsent, lost, pg, listen, members>>

\* operationEvents yields what was loaded, and ends if it is closed.
Subscribe(s) ==
    /\ sub[s].at = "open"
    /\ IF s \in Watchers /\ sub[s].val = Last
       THEN /\ sub' = [sub EXCEPT ![s].at = "done", ![s].seen = Last]
            /\ UNCHANGED <<listen, members>>
       ELSE Join(s)
    /\ UNCHANGED <<row, unsent, lost, pg>>

\* operationEvents: the notification goes to the client, and the closed one
\* ends the stream and the watch.
Relay(s) ==
    /\ s \in Watchers /\ sub[s].at = "hand"
    /\ IF sub[s].val = Last
       THEN /\ Leave({s})
            /\ sub' = [sub EXCEPT ![s] = [Ended(@) EXCEPT !.at = "done", !.seen = Last]]
       ELSE /\ sub' = [sub EXCEPT ![s].at = "loop", ![s].val = 0,
                                  ![s].seen = sub[s].val]
            /\ UNCHANGED <<pg, listen, members>>
    /\ UNCHANGED <<row, unsent, lost>>

\* Mutated form: an update's event shows the version it was notified of.
Project_Payload(s) ==
    /\ s \in Views /\ sub[s].at = "hand"
    /\ sub' = [sub EXCEPT ![s].at = "loop", ![s].val = 0,
                          ![s].out = Append(@, sub[s].val)]
    /\ UNCHANGED <<row, unsent, lost, pg, listen, members>>

\* runChannel of projectEvents.  The payload of an operation, a changeset or a
\* deleted resource is queued as it is; for another change of a resource the
\* row is read again, and there is no event if it has been deleted.
Project(s) ==
    /\ s \in Views /\ sub[s].at = "hand"
    /\ sub' = [sub EXCEPT ![s].at = "loop", ![s].val = 0,
                          ![s].out = IF sub[s].raw \/ sub[s].val = Last
                                     THEN Append(@, sub[s].val)
                                     ELSE IF row = Last THEN @ ELSE Append(@, row)]
    /\ UNCHANGED <<row, unsent, lost, pg, listen, members>>

\* The read throws: the channel's runner ends and its subscription with it,
\* while the stream stays open.
ProjectFails(s) ==
    /\ s \in Views /\ sub[s].at = "hand"
    /\ Leave({s})
    /\ sub' = [sub EXCEPT ![s].at = "dead", ![s].val = 0, ![s].buf = <<>>]
    /\ UNCHANGED <<row, unsent, lost>>

\* The loop of projectEvents writes an event.  The client invalidates its query,
\* or it patches or removes the resource (handleEvent).
Send(s) ==
    /\ s \in Views /\ sub[s].out # <<>>
    /\ sub' = [sub EXCEPT ![s].out = Tail(@),
                          ![s].seen = IF sub[s].raw THEN @ ELSE Head(sub[s].out),
                          ![s].invalid = sub[s].raw]
    /\ UNCHANGED <<row, unsent, lost, pg, listen, members>>

\* The query is fetched again; an event that comes before the answer starts it
\* anew.  A fetch that fails leaves it invalidated.
Refetch(s) ==
    /\ sub[s].invalid
    /\ sub' = [sub EXCEPT ![s].invalid = FALSE, ![s].seen = row]
    /\ UNCHANGED <<row, unsent, lost, pg, listen, members>>

\* The connection breaks or the client goes away: close of streamJsonSse.
Abort(s) ==
    /\ sub[s].at \notin {"idle", "done"}
    /\ Leave({s})
    /\ sub' = [sub EXCEPT ![s] = Ended(@)]
    /\ UNCHANGED <<row, unsent, lost>>

-----------------------------------------------------------------------------
(* Specification *)

StreamStep(s) ==
    Take(s) \/ Subscribe(s) \/ Relay(s) \/ Project(s) \/ ProjectFails(s) \/ Send(s)

Next ==
    \/ Commit
    \/ \E v \in 1..Last : Notify(v) \/ Crash(v)
    \/ ListenOk \/ ListenFails
    \/ Dispatch
    \/ \E s \in Subs : Open(s) \/ StreamStep(s) \/ Refetch(s) \/ Abort(s)

\* The process runs, a writer notifies or dies, the database answers, and
\* clients connect again.
Fairness ==
    /\ \A v \in 1..Last : WF_vars(Notify(v) \/ Crash(v))
    /\ WF_vars(ListenOk \/ ListenFails)
    /\ WF_vars(Dispatch)
    /\ \A s \in Subs : WF_vars(StreamStep(s)) /\ WF_vars(Open(s))

Spec == Init /\ [][Next]_vars /\ Fairness

-----------------------------------------------------------------------------
(* Properties *)

\* The process listens exactly while somebody needs it: a stream in its loop
\* is never without the LISTEN, also when others came and went while it was
\* being set up or given up, and the last to leave takes it along
\* (ensureListening, maybeStopListening, cleanup).
ListenHeld ==
    /\ \A s \in members : sub[s].at # "listen" => listen = "on"
    /\ members = {} => listen # "on"
    /\ Waiting # {} => listen = "pending"

\* A client of a project stream with nothing left to pass on or to fetch shows
\* the row as it is, or has seen no change since it began, although
\* notifications come out of order and a full queue drops some: an update's
\* event carries what was read for it, and the others make the client fetch
\* (projectEvents, dispatch, handleEvent).  What leaves it behind: a
\* notification that was never sent, a fetch that failed, and, of a resource
\* only, a full queue that drops the notification of its deletion.
ViewFresh ==
    \A s \in Views :
        /\ sub[s].at \in {"loop", "wait"}
        /\ sub[s].buf = <<>> /\ pg = <<>> /\ unsent = {} /\ lost = {}
        /\ sub[s].out = <<>> /\ ~sub[s].invalid
        => \/ row = sub[s].base \/ sub[s].seen = row
           \/ ~sub[s].raw /\ row = Last /\ sub[s].missed

\* A watcher whose stream was listening before the row was closed sees it
\* closed, whatever its queue has to drop: the close is the newest notification
\* once the earlier writers have sent theirs, and the queue drops the oldest
\* (dispatch, operationEvents).  A connection that breaks or a writer that dies
\* before it notifies ends the promise.
CloseReaches ==
    \A s \in Watchers :
        (/\ sub[s].at \in {"loop", "wait", "hand"} /\ sub[s].base < Last
         /\ row = Last /\ unsent = {Last})
            ~> (sub[s].at \in {"idle", "done"} \/ Last \in lost)

=============================================================================
