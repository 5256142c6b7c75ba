---------------------------- MODULE EventStream ----------------------------
(***************************************************************************)
(* How a client learns that something changed: the Hub of the JMAP library *)
(* (jmapserver/server.rs), the event stream of GET /jmap/eventsource/      *)
(* (jmapsmtp/server.rs) and the threads that change stores and announce it.*)
(*                                                                         *)
(* A stream has a slot for one wake-up in the hub and a task that turns    *)
(* wake-ups into frames.  A frame says only that something changed; the    *)
(* client, which is not of this repository, answers one by fetching.       *)
(***************************************************************************)
EXTENDS Integers, FiniteSets, RelayProcess

CONSTANTS
    Threads,                 \* threads that change a store
    Streams,                 \* connections to the event source, each used once
    MaxChanges,              \* bound on the changes
    Buffer                   \* frames on their way to a client before a write waits

ASSUME StreamAssumption == MaxChanges \in Nat /\ Buffer \in Nat \ {0}

VARIABLES
    version,      \* changes the stores hold
    work,         \* work[t]: where thread t is between a change and its end
    conn,         \* conn[s]: the connection, as both ends have it
    hub,          \* streams with a sender in the hub
    slot,         \* slot[s]: a wake-up is waiting
    task,         \* task[s]: what the stream's task is about to do
    frames,       \* frames[s]: frames written and not yet read
    fetching,     \* fetching[s]: the client has read a frame and not fetched yet
    seen,         \* seen[s]: the version the client of s has
    announced     \* ghost: the latest version a notification covered

streamVars == <<conn, slot, task, frames, fetching, seen>>
hubVars    == <<up, version, work, conn, hub, slot, task, frames, fetching, seen, announced, crashes>>

NoWork == [pc |-> "idle", version |-> 0]

HubInit ==
    /\ up = TRUE /\ version = 0 /\ work = [t \in Threads |-> NoWork]
    /\ conn = [s \in Streams |-> "unused"]
    /\ hub = {} /\ slot = [s \in Streams |-> FALSE]
    /\ task = [s \in Streams |-> "none"]
    /\ frames = [s \in Streams |-> 0] /\ fetching = [s \in Streams |-> FALSE]
    /\ seen = [s \in Streams |-> 0]
    /\ announced = 0 /\ crashes = 0

-----------------------------------------------------------------------------
(* The threads.  A delivery, the notice of a failed send, a submission and *)
(* a purge announce what they stored; Email/set, Mailbox/set, copy and     *)
(* import do not.                                                          *)

Store(t) ==
    /\ up /\ work[t].pc = "idle" /\ version < MaxChanges
    /\ version' = version + 1
    /\ work' = [work EXCEPT ![t] = [pc |-> "notify", version |-> version']]
    /\ UNCHANGED <<up, streamVars, hub, announced, crashes>>

StoreSilently ==
    /\ up /\ version < MaxChanges
    /\ version' = version + 1
    /\ UNCHANGED <<up, work, streamVars, hub, announced, crashes>>

\* The receiver of a stream that has ended is closed.
Closed(s) == conn[s] = "ended"

\* Mutant: only a task that waits for a wake-up gets it.
NotifyWaiting(t) ==
    /\ up /\ work[t].pc = "notify"
    /\ hub' = {s \in hub : ~Closed(s)}
    /\ slot' = [s \in Streams |-> slot[s] \/ (s \in hub' /\ task[s] = "wait")]
    /\ announced' = IF work[t].version > announced THEN work[t].version ELSE announced
    /\ work' = [work EXCEPT ![t].pc = "push"]
    /\ UNCHANGED <<up, version, conn, task, frames, fetching, seen, crashes>>

\* Hub::notify, in one step of its lock: closed streams are forgotten and a full slot is
\* left as it is.
Notify(t) ==
    /\ up /\ work[t].pc = "notify"
    /\ hub' = {s \in hub : ~Closed(s)}
    /\ slot' = [s \in Streams |-> slot[s] \/ s \in hub']
    /\ announced' = IF work[t].version > announced THEN work[t].version ELSE announced
    /\ work' = [work EXCEPT ![t].pc = "push"]
    /\ UNCHANGED <<up, version, conn, task, frames, fetching, seen, crashes>>

\* A thread whose change concerns nobody's push subscriptions is done.
Done(t) ==
    /\ up /\ work[t].pc = "push"
    /\ work' = [work EXCEPT ![t] = NoWork]
    /\ UNCHANGED <<up, version, streamVars, hub, announced, crashes>>

-----------------------------------------------------------------------------
(* The streams.                                                            *)

\* The stream is in the hub before its first frame is on its way.
Subscribe(s) ==
    /\ up /\ conn[s] = "unused"
    /\ conn' = [conn EXCEPT ![s] = "open"]
    /\ hub' = hub \cup {s}
    /\ task' = [task EXCEPT ![s] = "frame"]
    /\ UNCHANGED <<up, version, work, slot, frames, fetching, seen, announced, crashes>>

Receive(s) ==
    /\ up /\ task[s] = "wait" /\ slot[s]
    /\ slot' = [slot EXCEPT ![s] = FALSE]
    /\ task' = [task EXCEPT ![s] = "frame"]
    /\ UNCHANGED <<up, version, work, conn, hub, frames, fetching, seen, announced, crashes>>

\* A frame is written when there is room for it.
WriteFrame(s) ==
    /\ up /\ task[s] = "frame" /\ conn[s] = "open" /\ frames[s] < Buffer
    /\ frames' = [frames EXCEPT ![s] = @ + 1]
    /\ task' = [task EXCEPT ![s] = "written"]
    /\ UNCHANGED <<up, version, work, conn, hub, slot, fetching, seen, announced, crashes>>

\* The body is polled again and the loop comes back to its select.
Poll(s) ==
    /\ up /\ task[s] = "written"
    /\ task' = [task EXCEPT ![s] = "wait"]
    /\ UNCHANGED <<up, version, work, conn, hub, slot, frames, fetching, seen, announced, crashes>>

\* A frame or a ping to a client that has gone ends the stream; its receiver is dropped.
WriteFails(s) ==
    /\ up /\ task[s] \in {"frame", "wait"} /\ conn[s] = "lost"
    /\ conn' = [conn EXCEPT ![s] = "ended"]
    /\ task' = [task EXCEPT ![s] = "none"]
    /\ slot' = [slot EXCEPT ![s] = FALSE]
    /\ UNCHANGED <<up, version, work, hub, frames, fetching, seen, announced, crashes>>

\* The client reads a frame and fetches.
Read(s) ==
    /\ conn[s] = "open" /\ frames[s] > 0
    /\ frames' = [frames EXCEPT ![s] = @ - 1]
    /\ fetching' = [fetching EXCEPT ![s] = TRUE]
    /\ UNCHANGED <<up, version, work, conn, hub, slot, task, seen, announced, crashes>>

Fetch(s) ==
    /\ up /\ fetching[s]
    /\ seen' = [seen EXCEPT ![s] = version]
    /\ fetching' = [fetching EXCEPT ![s] = FALSE]
    /\ UNCHANGED <<up, version, work, conn, hub, slot, task, frames, announced, crashes>>

\* The client goes; the relay does not know yet.
Lose(s) ==
    /\ conn[s] = "open"
    /\ conn' = [conn EXCEPT ![s] = "lost"]
    /\ frames' = [frames EXCEPT ![s] = 0]
    /\ fetching' = [fetching EXCEPT ![s] = FALSE]
    /\ UNCHANGED <<up, version, work, hub, slot, task, seen, announced, crashes>>

\* The process ends: the stores are on disk, the hub and the streams are not.
HubCrash ==
    /\ ProcessEnds
    /\ work' = [t \in Threads |-> NoWork]
    /\ conn' = [s \in Streams |-> IF conn[s] = "unused" THEN "unused" ELSE "ended"]
    /\ hub' = {} /\ slot' = [s \in Streams |-> FALSE] /\ task' = [s \in Streams |-> "none"]
    /\ frames' = [s \in Streams |-> 0] /\ fetching' = [s \in Streams |-> FALSE]
    /\ UNCHANGED <<version, seen, announced>>

HubStart ==
    /\ ProcessStarts
    /\ UNCHANGED <<version, work, streamVars, hub, announced, crashes>>

HubNext ==
    \/ StoreSilently
    \/ \E t \in Threads : Store(t) \/ Notify(t)
    \/ \E s \in Streams : \/ Subscribe(s) \/ Receive(s) \/ WriteFrame(s) \/ Poll(s)
                          \/ WriteFails(s) \/ Read(s) \/ Fetch(s) \/ Lose(s)

\* The runtime polls a stream whose slot or connection is ready, and the client does its part.
StreamFairness ==
    \A s \in Streams :
        /\ WF_hubVars(Receive(s)) /\ WF_hubVars(WriteFrame(s))
        /\ WF_hubVars(Poll(s)) /\ WF_hubVars(Read(s)) /\ WF_hubVars(Fetch(s))

-----------------------------------------------------------------------------
(* A change that was announced reaches every client whose stream stays      *)
(* open, however notifications, frames and fetches interleave: a wake-up is  *)
(* never lost to a full slot or to a task that is busy writing.              *)
ChangeIsSeen ==
    \A s \in Streams, v \in 1..MaxChanges :
        (announced >= v /\ conn[s] = "open") ~> (seen[s] >= v \/ conn[s] # "open")

=============================================================================
