-------------------------------- MODULE Fanout --------------------------------
(***************************************************************************)
(* One WebSocket client of a live run: the ingester publishes snapshots to *)
(* a Redis channel, the gateway's forwarder goroutine (SubscribeRun) moves *)
(* them into a buffered Go channel, the handler (streamRun) writes them to *)
(* the client, pings it, and a reader goroutine watches the connection.    *)
(* Every client has a subscription, a channel and goroutines of its own,   *)
(* so one of them is the whole story.                                      *)
(*                                                                         *)
(* Messages are numbered as they are published.  A client is "prompt",     *)
(* "slow" (it still holds the connection but does not keep up) or "gone".  *)
(***************************************************************************)
EXTENDS Naturals, Sequences, SequencesExt

CONSTANTS
  ChanCap,      \* capacity of ch, 256 in the code
  Finals,       \* which messages are final snapshots
  MaxMessages   \* bound on the messages published

ASSUME BoundsAssumption == ChanCap \in Nat \ {0} /\ MaxMessages \in Nat

VARIABLES
  published,   \* number of messages published so far
  ps,          \* the Redis subscription: "none", "asked", "on", "closed"
  psq,         \* its messages, delivered by Redis and not forwarded yet
  forwarder,   \* "none", "ranging", "ended"
  ch,          \* the buffered channel
  handler,     \* where streamRun is, see Handler below
  writing,     \* the message handed to conn.Write, or 0
  reader,      \* "none", "reading", "ended"
  ctx,         \* "live" or "done"
  client,      \* "prompt", "slow", "gone"
  received,    \* what the client got
  got, dropped \* history: what Redis delivered, what the full channel dropped

vars == <<published, ps, psq, forwarder, ch, handler, writing, reader, ctx,
          client, received, got, dropped>>

\* accept: before the upgrade; subscribe; select, write, ping: the loop;
\* unsub, cancel, close: the deferred calls, last deferred first; ended.
Handler == {"accept", "subscribe", "select", "write", "ping",
            "unsub", "cancel", "close", "ended"}
Serving == {"select", "write", "ping"}

Init ==
  /\ published = 0
  /\ ps = "none" /\ psq = <<>>
  /\ forwarder = "none"
  /\ ch = <<>>
  /\ handler = "accept" /\ writing = 0
  /\ reader = "none"
  /\ ctx = "live"
  /\ client = "prompt"
  /\ received = <<>>
  /\ got = <<>> /\ dropped = {}

-----------------------------------------------------------------------------
(* Telemetry ingester and Redis *)

\* publishLive or finalizeRun publishes; Redis hands the message to those who
\* are subscribed at that moment and forgets it.
Publish ==
  /\ published < MaxMessages
  /\ published' = published + 1
  /\ IF ps = "on"
     THEN psq' = Append(psq, published + 1) /\ got' = Append(got, published + 1)
     ELSE UNCHANGED <<psq, got>>
  /\ UNCHANGED <<ps, forwarder, ch, handler, writing, reader, ctx, client, received, dropped>>

\* Redis executes the SUBSCRIBE that go-redis sent.
Subscribed ==
  /\ ps = "asked" /\ ps' = "on"
  /\ UNCHANGED <<published, psq, forwarder, ch, handler, writing, reader, ctx, client,
                 received, got, dropped>>

-----------------------------------------------------------------------------
(* SubscribeRun's goroutine *)

\* Fault: the forwarder waits for room in ch.
WaitsForRoom == Len(ch) < ChanCap

\* select with a default: the forwarder never waits.
Ready == TRUE

\* Fault: a full channel loses its oldest message instead.
MakeRoom(m) ==
  IF Len(ch) < ChanCap
  THEN ch' = Append(ch, m) /\ UNCHANGED dropped
  ELSE ch' = Append(Tail(ch), m) /\ dropped' = dropped \cup {m}

\* case ch <- msg, default: drop.
SendOrDrop(m) ==
  IF Len(ch) < ChanCap
  THEN ch' = Append(ch, m) /\ UNCHANGED dropped
  ELSE dropped' = dropped \cup {m} /\ UNCHANGED ch

Forward ==
  /\ forwarder = "ranging" /\ psq # <<>>
  /\ Ready
  /\ SendOrDrop(Head(psq))
  /\ psq' = Tail(psq)
  /\ UNCHANGED <<published, ps, forwarder, handler, writing, reader, ctx, client, received, got>>

\* ps.Close() closed ps.Channel(): what it still holds is ranged over first.
ForwarderEnds ==
  /\ forwarder = "ranging" /\ ps = "closed" /\ psq = <<>>
  /\ forwarder' = "ended"
  /\ UNCHANGED <<published, ps, psq, ch, handler, writing, reader, ctx, client, received, got,
                 dropped>>

-----------------------------------------------------------------------------
(* streamRun *)

Goes(pc) == handler' = pc

Accept ==
  /\ handler = "accept"
  /\ Goes(IF client = "gone" THEN "ended" ELSE "subscribe")
  /\ UNCHANGED <<published, ps, psq, forwarder, ch, writing, reader, ctx, client, received,
                 got, dropped>>

\* Fault: no goroutine reads the connection.
NoReader == reader' = "none"

\* go func() { for { conn.Read } }()
StartReader == reader' = "reading"

\* Fault: nobody ranges over the subscription.
NoForwarder == forwarder' = "none"

\* go func() { for msg := range ps.Channel() }()
StartForwarder == forwarder' = "ranging"

\* The SUBSCRIBE is sent, not confirmed, when SubscribeRun returns.
Subscribe ==
  /\ handler = "subscribe"
  /\ ps' = "asked"
  /\ StartForwarder
  /\ StartReader
  /\ Goes("select")
  /\ UNCHANGED <<published, psq, ch, writing, ctx, client, received, got, dropped>>

\* case msg := <-ch.  The channel is only closed after unsub, so the handler
\* never sees it closed.
TakeMessage ==
  /\ handler = "select" /\ ch # <<>>
  /\ writing' = Head(ch) /\ ch' = Tail(ch)
  /\ Goes("write")
  /\ UNCHANGED <<published, ps, psq, forwarder, reader, ctx, client, received, got, dropped>>

Written ==
  /\ handler = "write" /\ client # "gone" /\ ctx = "live"
  /\ received' = Append(received, writing) /\ writing' = 0
  /\ Goes("select")
  /\ UNCHANGED <<published, ps, psq, forwarder, ch, reader, ctx, client, got, dropped>>

\* case <-pingTicker.C
PingDue ==
  /\ handler = "select" /\ Goes("ping")
  /\ UNCHANGED <<published, ps, psq, forwarder, ch, writing, reader, ctx, client, received,
                 got, dropped>>

\* The pong comes in through the reader goroutine.
Pong ==
  /\ handler = "ping" /\ client # "gone" /\ ctx = "live" /\ reader = "reading"
  /\ Goes("select")
  /\ UNCHANGED <<published, ps, psq, forwarder, ch, writing, reader, ctx, client, received,
                 got, dropped>>

\* Five seconds, a broken connection or the end of ctx.
Broken == client # "prompt" \/ ctx = "done"
WriteOrPingFails ==
  /\ \/ handler = "write" /\ Broken
     \/ handler = "ping" /\ (Broken \/ reader # "reading")
  /\ writing' = 0
  /\ Goes("unsub")
  /\ UNCHANGED <<published, ps, psq, forwarder, ch, reader, ctx, client, received, got, dropped>>

\* case <-ctx.Done()
ContextDone ==
  /\ handler = "select" /\ ctx = "done"
  /\ Goes("unsub")
  /\ UNCHANGED <<published, ps, psq, forwarder, ch, writing, reader, ctx, client, received,
                 got, dropped>>

\* Fault: the subscription is left open.
KeepSubscription == UNCHANGED ps

\* ps.Close()
CloseSubscription == ps' = "closed"

\* defer unsub()
Unsub ==
  /\ handler = "unsub"
  /\ CloseSubscription
  /\ Goes("cancel")
  /\ UNCHANGED <<published, psq, forwarder, ch, writing, reader, ctx, client, received, got,
                 dropped>>

\* defer cancel()
CancelContext ==
  /\ handler = "cancel"
  /\ ctx' = "done"
  /\ Goes("close")
  /\ UNCHANGED <<published, ps, psq, forwarder, ch, writing, reader, client, received, got,
                 dropped>>

\* defer conn.Close(...)
CloseConn ==
  /\ handler = "close"
  /\ client' = "gone"
  /\ Goes("ended")
  /\ UNCHANGED <<published, ps, psq, forwarder, ch, writing, reader, ctx, received, got,
                 dropped>>

-----------------------------------------------------------------------------
(* The reader goroutine and the client *)

\* conn.Read fails: the connection is gone or ctx is done.
ReadFails ==
  /\ reader = "reading" /\ (client = "gone" \/ ctx = "done")
  /\ reader' = "ended" /\ ctx' = "done"
  /\ UNCHANGED <<published, ps, psq, forwarder, ch, handler, writing, client, received, got,
                 dropped>>

ClientChanges ==
  /\ \/ client = "prompt" /\ client' \in {"slow", "gone"}
     \/ client = "slow" /\ client' = "gone"
  /\ UNCHANGED <<published, ps, psq, forwarder, ch, handler, writing, reader, ctx, received,
                 got, dropped>>

Loop == TakeMessage \/ Written \/ PingDue \/ Pong \/ WriteOrPingFails \/ ContextDone
Deferred == Unsub \/ CancelContext \/ CloseConn
Gateway == Accept \/ Subscribe \/ Loop \/ Deferred

Next == Publish \/ Subscribed \/ Forward \/ ForwarderEnds \/ Gateway \/ ReadFails \/ ClientChanges

Spec == Init /\ [][Next]_vars

\* Goroutines are scheduled and timeouts fire.  The handler's select picks at
\* random among ready cases, so a message in the channel or a finished context
\* is not passed over for ever in favour of pings.
FairSpec ==
  /\ Spec
  /\ WF_vars(Subscribed) /\ WF_vars(Forward) /\ WF_vars(ForwarderEnds) /\ WF_vars(ReadFails)
  /\ WF_vars(Accept) /\ WF_vars(Subscribe) /\ WF_vars(Deferred)
  /\ SF_vars(TakeMessage) /\ SF_vars(ContextDone)
  /\ WF_vars(Written \/ Pong \/ WriteOrPingFails)

-----------------------------------------------------------------------------
(* Properties *)

TypeOK ==
  /\ handler \in Handler
  /\ Len(ch) <= ChanCap
  /\ \A k \in DOMAIN psq : psq[k] \in 1 .. published
  /\ writing \in 0 .. published
  /\ dropped \subseteq 1 .. published

\* What the client has and what is on its way to it, first to last.
Stream == received \o (IF writing = 0 THEN <<>> ELSE <<writing>>) \o ch \o psq

Ordered(q) == \A i, j \in DOMAIN q : i < j => q[i] < q[j]

\* While the handler serves, the client has seen, in the order of publication
\* and each once, everything Redis delivered except what the full channel
\* dropped; the rest is on its way.  Stated with the types of the variables.
StreamIsWhole ==
  /\ TypeOK
  /\ handler \in Serving => Ordered(Stream) /\ ToSet(Stream) = ToSet(got) \ dropped

\* A client that keeps up is not thrown out: neither a ping nor a write fails
\* on it ("Without this, conn.Ping() will block and time out after 5s, killing
\* the connection").
PromptClientKept == handler \in Handler \ (Serving \cup {"accept", "subscribe"}) => client # "prompt"

\* The invariants that carry the proofs of the two.
StreamInv ==
  /\ published \in Nat
  /\ \A q \in {psq, ch, received, got} : q \in Seq(Nat) /\ ToSet(q) \subseteq 1 .. published
  /\ Len(ch) <= ChanCap
  /\ dropped \subseteq 1 .. published
  /\ handler \in Handler /\ writing \in 0 .. published
  /\ handler \in {"select", "ping"} => writing = 0
  /\ handler = "write" => writing # 0
  /\ handler \in {"accept", "subscribe"} =>
       /\ ps = "none" /\ forwarder = "none" /\ writing = 0 /\ dropped = {}
       /\ \A q \in {psq, ch, received, got} : q = <<>>
  /\ handler \in Serving => Ordered(Stream) /\ ToSet(Stream) = ToSet(got) \ dropped

PromptInv ==
  client = "prompt" =>
    /\ ctx = "live"
    /\ handler \in Serving \cup {"accept", "subscribe"}
    /\ handler \in Serving => reader = "reading"

\* Redis is never kept waiting: whatever the client does, its subscription is
\* drained ("drop the message rather than blocking the broker").
BrokerNeverBlocked == psq # <<>> ~> psq = <<>>

\* Nothing is left behind for a client that went away: handler, reader and
\* forwarder all end.
GoroutinesEnd ==
  client = "gone" ~>
    handler = "ended" /\ reader \in {"none", "ended"} /\ forwarder \in {"none", "ended"}

\* A final snapshot that Redis delivered reaches a client that stays and keeps
\* up, unless the channel was full.
FinalArrives ==
  \A m \in Finals :
    m \in ToSet(got) ~> m \in ToSet(received) \cup dropped \/ client # "prompt"
=============================================================================
