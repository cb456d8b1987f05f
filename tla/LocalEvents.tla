------------------------------ MODULE LocalEvents ------------------------------
(***************************************************************************)
(* The private sockets over which the daemons of plugins send messages to  *)
(* the agent (channel_events.py: RuntimeStampedChannelProvenance).  Each   *)
(* plugin has a socket and a token of its own, on the lane of channels or  *)
(* of triggers; the runtime, not the sender, says where a message is from. *)
(*                                                                         *)
(* A post comes in chunks.  Of its JSON there is what the stamp looks at:  *)
(* where a source is named, and what kind of source it asks to be.         *)
(***************************************************************************)
EXTENDS FiniteSets, Naturals

CONSTANTS
    Lane,           \* the plugins with a socket
    Caller,         \* the requests that may be under way at a time
    MaxBytes,       \* max_request_bytes, in chunks
    MaxChunks       \* bound on the chunks of a post

ASSUME LocalEventsAssumption == MaxBytes \in Nat /\ MaxChunks \in Nat

Kinds == {"channel", "trigger"}     \* _LANE_KINDS
Paths == {"message", "liveness", "other"}

\* A body is no JSON, JSON of another shape, or names sources: one in the
\* metadata of the message, one beside it, and the type of that one.
Payloads == [form : {"broken", "ill", "well"}, inner : {"none", "bare", "source"},
             says : {"none"} \cup Lane, asks : {"none", "self-scheduler", "else"}]

VARIABLES
    lanes,          \* the kind of each plugin's lane
    post,           \* the post of each sender
    arrived,        \* the chunks of it that have arrived
    stands,         \* where it stands
    answer,         \* the status it was answered with here, 0 for none
    reached         \* what the app gets: where the message says it is from

events == <<lanes, post, arrived, stands, answer, reached>>

SocketPosts == [path : Paths, lane : Lane, token : Lane \cup {"none"}, chunks : 1..MaxChunks,
                payload : Payloads]
NoPost == [path |-> "none"]

\* Where a message says it is from: in its metadata, and beside it.
Stamps == [source : {"none"} \cup Lane, inner : {"none", "bare", "source"},
           type : {"none", "self-scheduler", "else"}]
NoMessage == [source |-> "none", inner |-> "none", type |-> "none"]

EventsTypeOK ==
    /\ lanes \in [Lane -> Kinds]
    /\ post \in [Caller -> {NoPost} \cup SocketPosts]
    /\ arrived \in [Caller -> 0..MaxChunks]
    /\ stands \in [Caller -> {"idle", "reading", "read", "delivered", "passed", "over"}]
    /\ answer \in [Caller -> {0, 200, 400, 401, 413}]
    /\ reached \in [Caller -> Stamps]

EventsInit ==
    /\ lanes \in [Lane -> Kinds]
    /\ post = [s \in Caller |-> NoPost]
    /\ arrived = [s \in Caller |-> 0]
    /\ stands = [s \in Caller |-> "idle"]
    /\ answer = [s \in Caller |-> 0]
    /\ reached = [s \in Caller |-> NoMessage]

ReplyWith(s, status) ==
    /\ answer' = [answer EXCEPT ![s] = status] /\ stands' = [stands EXCEPT ![s] = "over"]

\* Two distinct tokens in the headers are none.
Capable(r) == r.token = r.lane

\* The lane of a trigger tells whether the turn is alive; a post that is not
\* for the agent goes to the app as it is.
PostArrives(s) ==
    /\ stands[s] = "idle"
    /\ \E p \in Paths, l \in Lane, t \in Lane \cup {"none"}, n \in 1..MaxChunks, b \in Payloads :
          LET r == [path |-> p, lane |-> l, token |-> t, chunks |-> n, payload |-> b]
          IN  /\ p # "message" => n = 1
              /\ post' = [post EXCEPT ![s] = r]
              /\ IF p = "other" \/ (p = "liveness" /\ lanes[l] = "channel")
                 THEN stands' = [stands EXCEPT ![s] = "passed"] /\ UNCHANGED answer
                 ELSE IF ~Capable(r) THEN ReplyWith(s, 401)
                 ELSE IF p = "liveness" THEN ReplyWith(s, 200)
                 ELSE stands' = [stands EXCEPT ![s] = "reading"] /\ UNCHANGED answer
    /\ UNCHANGED <<lanes, arrived, reached>>

\* A chunk arrives: too much is refused before the rest is there.
ReadsChunk(s) ==
    /\ stands[s] = "reading"
    /\ arrived' = [arrived EXCEPT ![s] = @ + 1]
    /\ IF arrived'[s] > MaxBytes THEN ReplyWith(s, 413)
       ELSE /\ stands' = [stands EXCEPT ![s] =
                             IF arrived'[s] = post[s].chunks THEN "read" ELSE @]
            /\ UNCHANGED answer
    /\ UNCHANGED <<lanes, post, reached>>

\* Who is gone before the post is whole gets no answer.
Disconnects(s) ==
    /\ stands[s] = "reading"
    /\ stands' = [stands EXCEPT ![s] = "over"]
    /\ UNCHANGED <<lanes, post, arrived, answer, reached>>

(***************************************************************************)
(* The stamps.  The source is the plugin of the lane, whatever the post    *)
(* says.                                                                   *)
(***************************************************************************)
\* _stamp_source: a message must not name a source of its own.  A type that the
\* sender gave it stays.
ChannelRefuses(b) == b.form = "ill" \/ b.inner = "source"
ChannelStamp(l, b) == [source |-> l, inner |-> b.inner, type |-> b.asks]

\* _stamp_trigger_source: the source in the message is dropped, and a trigger
\* is only what triggers may be.
TriggerRefuses(b) == b.form = "ill" \/ b.asks = "else"
TriggerStamp(l, b) == [source |-> l, inner |-> IF b.inner = "source" THEN "bare" ELSE b.inner,
                       type |-> "self-scheduler"]

Refused(l, b) == IF lanes[l] = "channel" THEN ChannelRefuses(b) ELSE TriggerRefuses(b)
Stamped(l, b) == IF lanes[l] = "channel" THEN ChannelStamp(l, b) ELSE TriggerStamp(l, b)

\* The post goes on with a body of its own, without the token.
Delivers(s) ==
    /\ stands[s] = "read"
    /\ LET r == post[s]
       IN  IF r.payload.form = "broken" \/ Refused(r.lane, r.payload)
           THEN ReplyWith(s, 400) /\ UNCHANGED reached
           ELSE /\ reached' = [reached EXCEPT ![s] = Stamped(r.lane, r.payload)]
                /\ stands' = [stands EXCEPT ![s] = "delivered"] /\ UNCHANGED answer
    /\ UNCHANGED <<lanes, post, arrived>>

EventsNext == \E s \in Caller : PostArrives(s) \/ ReadsChunk(s) \/ Disconnects(s) \/ Delivers(s)

(***************************************************************************)
(* Properties.                                                             *)
(***************************************************************************)
\* A message that reaches the agent over a socket came whole and with the
\* socket's token, and says that it is from the socket's plugin and nowhere
\* else; over a trigger's socket, that it is what triggers may be.
MessageIsOfItsLane ==
    \A s \in Caller : stands[s] = "delivered" =>
        /\ Capable(post[s]) /\ arrived[s] = post[s].chunks /\ arrived[s] <= MaxBytes
        /\ reached[s].source = post[s].lane /\ reached[s].inner # "source"
        /\ lanes[post[s].lane] = "trigger" => reached[s].type = "self-scheduler"
=============================================================================
