--------------------------------- MODULE Realtime ---------------------------------
(***************************************************************************)
(* Events from the servers to the browsers: publish and subscribe of        *)
(* lib/realtime.ts and the stream of app/api/events/stream/route.ts.        *)
(*                                                                         *)
(* Redis keeps no event: who is not subscribed when it is published never   *)
(* sees it.  A stream sends "connected" before its subscription is made,    *)
(* and its browser may be gone by then.  Publishers call Publish.           *)
(*                                                                         *)
(* Bounds: each stream is opened once; MaxFaults, shared with the           *)
(* publishers.                                                             *)
(***************************************************************************)
EXTENDS Integers

CONSTANTS Streams, Events, MaxFaults

ASSUME FaultsAreCounted == MaxFaults \in Nat

VARIABLES
    stream,       \* a stream of the server, as its browser sees it
    subscribed,   \* the streams with a subscription in Redis
    inbox,        \* inbox[s]: events sent down the stream and not yet read
    releasing,    \* closed streams whose UNSUBSCRIBE has not been answered
    faults,
    \* Closed streams that nothing will release any more.
    hasty,        \* closed while their subscription was being made
    abandoned     \* whose UNSUBSCRIBE was given up while their connection was down

connections == <<stream, subscribed, releasing, hasty, abandoned>>
streams == <<connections, inbox>>

RealtimeTypeOK ==
    /\ stream \in [Streams -> {"unused", "connecting", "open", "closed"}]
    /\ subscribed \in SUBSET Streams
    /\ inbox \in [Streams -> SUBSET Events]
    /\ faults \in 0..MaxFaults
    /\ releasing \in SUBSET Streams /\ hasty \in SUBSET Streams /\ abandoned \in SUBSET Streams

RealtimeInit ==
    /\ stream = [s \in Streams |-> "unused"]
    /\ subscribed = {}
    /\ inbox = [s \in Streams |-> {}]
    /\ faults = 0
    /\ releasing = {} /\ hasty = {} /\ abandoned = {}

Fault ==
    /\ faults < MaxFaults
    /\ faults' = faults + 1

\* The GET of a stream.
Open(s) ==
    /\ stream[s] = "unused"
    /\ stream' = [stream EXCEPT ![s] = "connecting"]
    /\ UNCHANGED <<subscribed, releasing, inbox, hasty, abandoned>>

\* Redis executes SUBSCRIBE, and the listener that would end it is registered, for a browser that
\* may be gone.
Subscribe(s) ==
    /\ stream[s] \in {"connecting", "closed"} /\ s \notin subscribed
    /\ stream[s] = "closed" => s \in hasty
    /\ subscribed' = subscribed \cup {s}
    /\ stream' = [stream EXCEPT ![s] = IF @ = "connecting" THEN "open" ELSE @]
    /\ UNCHANGED <<releasing, inbox, hasty, abandoned>>

\* The browser or the network closes the stream, and unsubscribe is called.  Before the
\* subscription is made it is still null, and nothing will call it.
CloseWithoutRelease(s) ==
    /\ stream[s] \in {"connecting", "open"}
    /\ stream' = [stream EXCEPT ![s] = "closed"]
    /\ inbox' = [inbox EXCEPT ![s] = {}]
    /\ hasty' = IF stream[s] = "connecting" THEN hasty \cup {s} ELSE hasty
    /\ UNCHANGED <<subscribed, releasing, abandoned>>
Close(s) ==
    /\ stream[s] \in {"connecting", "open"}
    /\ stream' = [stream EXCEPT ![s] = "closed"]
    /\ inbox' = [inbox EXCEPT ![s] = {}]
    /\ hasty' = IF stream[s] = "connecting" THEN hasty \cup {s} ELSE hasty
    /\ releasing' = IF stream[s] = "open" THEN releasing \cup {s} ELSE releasing
    /\ UNCHANGED <<subscribed, abandoned>>

\* UNSUBSCRIBE is executed and answered, and the client disconnects.
Release(s) ==
    /\ s \in releasing \cap subscribed
    /\ subscribed' = subscribed \ {s}
    /\ releasing' = releasing \ {s}
    /\ UNCHANGED <<stream, inbox, hasty, abandoned>>

\* While the connection is down the command is retried, and in the end rejected: nobody catches
\* that, the client is not disconnected, and still means to subscribe.
ReleaseFails(s) ==
    /\ s \in releasing \ subscribed
    /\ releasing' = releasing \ {s}
    /\ abandoned' = abandoned \cup {s}
    /\ UNCHANGED <<stream, subscribed, inbox, hasty>>

\* The subscriber's connection breaks.  The Redis client subscribes again when it is back, until
\* it is disconnected.
Lapse(s) ==
    /\ s \in subscribed
    /\ Fault
    /\ subscribed' = subscribed \ {s}
    /\ UNCHANGED <<stream, releasing, inbox, hasty, abandoned>>
Resubscribe(s) ==
    /\ s \notin subscribed
    /\ stream[s] = "open" \/ s \in releasing \cup abandoned
    /\ subscribed' = subscribed \cup {s}
    /\ UNCHANGED <<stream, releasing, inbox, hasty, abandoned>>

\* Every subscriber is sent the event; the controller of a closed stream refuses it.
Publish(e) ==
    inbox' = [s \in Streams |->
        IF s \in subscribed /\ stream[s] = "open" THEN inbox[s] \cup {e} ELSE inbox[s]]

\* publish catches the error: the event is lost, or its reply was.
PublishFails(e) ==
    /\ Fault
    /\ Publish(e) \/ UNCHANGED inbox

\* What the network does to streams by itself.
StreamStep(s) ==
    \/ Subscribe(s) /\ UNCHANGED faults
    \/ Lapse(s)
    \/ Resubscribe(s) /\ UNCHANGED faults
    \/ Release(s) /\ UNCHANGED faults
    \/ ReleaseFails(s) /\ UNCHANGED faults

-----------------------------------------------------------------------------

\* Who still has a subscription after the end of a stream: one whose release is under way, and
\* the two kinds that are never released, closed before the subscription was made or while
\* UNSUBSCRIBE could not be sent.  However a connection breaks, comes back and subscribes again
\* around the end of its stream, no other subscription stays.
SubscriptionsReleased ==
    \A s \in subscribed : stream[s] = "closed" => s \in releasing \cup hasty \cup abandoned

=============================================================================
