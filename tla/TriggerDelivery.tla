--------------------------- MODULE TriggerDelivery ---------------------------
(***************************************************************************)
(* How a voice trigger travels from the audio daemon to the browser: the   *)
(* IpcHub of the daemon (one asyncio loop: a step runs from one await to   *)
(* the next), the WebSocket connections, the DaemonIpcClient of every tab, *)
(* and the election of the tab that shows the trigger.                     *)
(*                                                                         *)
(* FOCUS_WINDOW, heartbeats and status frames are left out, except that    *)
(* sending FOCUS_WINDOW suspends the emitter, and that the heartbeat finds *)
(* connections whose browser side is gone.  send never fails visibly: the  *)
(* hub ignores its result.                                                 *)
(*                                                                         *)
(* Definitions headed "Fault" are deliberate mistakes, used to show that a *)
(* property would notice them; they are no part of the specification.      *)
(***************************************************************************)
EXTENDS Integers, Sequences, FiniteSets

CONSTANTS
    Trigger,     \* triggers that occur, each with an id of its own
    MaxTab,      \* bound: tabs; a tab is the rank of its random election id
    MaxSocket    \* bound: WebSocket connections over the whole run

ASSUME DeliveryAssumption == MaxTab \in Nat \ {0} /\ MaxSocket \in Nat

Tab == 1 .. MaxTab
Socket == 1 .. MaxSocket

VARIABLES
    clients,     \* IpcHub._clients: the connections whose handler runs
    flushing,    \* the triggers each handler has still to redeliver
    pending,     \* IpcHub._pending
    emit,        \* how far emit_trigger is with each trigger
    todo,        \* the clients its broadcast has still to send to
    sockets,     \* how many connections there were
    down,        \* frames from the hub on each connection
    up,          \* ACKs from the tab on each connection
    open,        \* the tabs that are open
    ws,          \* the connection of each tab, 0 while it has none
    peers,       \* the tabs each tab believes to be alive
    got,         \* history: the triggers some tab received
    shown        \* history: how often each trigger was shown

hub == <<clients, flushing, pending, emit, todo>>
wire == <<sockets, down, up>>
tabs == <<open, ws, peers>>
seen == <<got, shown>>
deliveryVars == <<hub, wire, tabs, seen>>

Alive(s) == \E tab \in Tab : ws[tab] = s

\* A frame sent on a connection whose other side is gone goes nowhere.
Deliver(s, t) == down' = IF Alive(s) THEN [down EXCEPT ![s] = Append(@, t)] ELSE down

\* electPrimary: the smallest id alive.
IsPrimary(tab) == \A p \in peers[tab] : tab <= p

DeliveryInit ==
    /\ clients = {}
    /\ flushing = [s \in Socket |-> {}]
    /\ pending = {}
    /\ emit = [t \in Trigger |-> "none"]
    /\ todo = [t \in Trigger |-> {}]
    /\ sockets = 0
    /\ down = [s \in Socket |-> <<>>]
    /\ up = [s \in Socket |-> {}]
    /\ open = {}
    /\ ws = [tab \in Tab |-> 0]
    /\ peers = [tab \in Tab |-> {tab}]
    /\ got = {}
    /\ shown = [t \in Trigger |-> 0]

-----------------------------------------------------------------------------
\* The hub.

\* emit_trigger up to its first await, with a client to tell.
EmitToClients(t) ==
    /\ emit[t] = "none"
    /\ clients # {}
    /\ pending' = pending \union {t}
    /\ emit' = [emit EXCEPT ![t] = "focus"]
    /\ UNCHANGED <<clients, flushing, todo, wire, tabs, seen>>

\* _resurrect asks the browser for the app: it may open a tab, or not.
EmitToNobody(t) ==
    /\ emit[t] = "none"
    /\ clients = {}
    /\ pending' = pending \union {t}
    /\ emit' = [emit EXCEPT ![t] = "waiting"]
    /\ UNCHANGED <<clients, flushing, todo, wire, tabs, seen>>

\* FOCUS_WINDOW is out; _broadcast lists the clients again for the trigger.
StartBroadcast(t) ==
    /\ emit[t] = "focus"
    /\ emit' = [emit EXCEPT ![t] = "sending"]
    /\ todo' = [todo EXCEPT ![t] = clients]
    /\ UNCHANGED <<clients, flushing, pending, wire, tabs, seen>>

SendTrigger(t, s) ==
    /\ s \in todo[t]
    /\ Deliver(s, t)
    /\ todo' = [todo EXCEPT ![t] = @ \ {s}]
    /\ UNCHANGED <<clients, flushing, pending, emit, sockets, up, tabs, seen>>

EndBroadcast(t) ==
    /\ emit[t] = "sending"
    /\ todo[t] = {}
    /\ emit' = [emit EXCEPT ![t] = "waiting"]
    /\ UNCHANGED <<clients, flushing, pending, todo, wire, tabs, seen>>

\* Fault: the emitter that gives up tidies the trigger away.
AnswerAndForget(t) ==
    /\ emit[t] = "waiting"
    /\ emit' = [emit EXCEPT ![t] = "answered"]
    /\ pending' = pending \ {t}
    /\ UNCHANGED <<clients, flushing, todo, wire, tabs, seen>>

\* _await_ack: acknowledged or timed out, the trigger stays what it is.
Answer(t) ==
    /\ emit[t] = "waiting"
    /\ emit' = [emit EXCEPT ![t] = "answered"]
    /\ UNCHANGED <<clients, flushing, pending, todo, wire, tabs, seen>>

\* _flush_pending sends what was pending when the client was registered, one
\* frame per await.
Redeliver(s, t) ==
    /\ t \in flushing[s]
    /\ Deliver(s, t)
    /\ flushing' = [flushing EXCEPT ![s] = @ \ {t}]
    /\ UNCHANGED <<clients, pending, emit, todo, sockets, up, tabs, seen>>

\* TRIGGER_ACK, read by the handler of the connection once it has flushed.
ReceiveAck(s, t) ==
    /\ s \in clients
    /\ flushing[s] = {}
    /\ t \in up[s]
    /\ up' = [up EXCEPT ![s] = @ \ {t}]
    /\ pending' = pending \ {t}
    /\ UNCHANGED <<clients, flushing, emit, todo, sockets, down, tabs, seen>>

\* The read loop fails, or the heartbeat has waited too long: the client is
\* unregistered.  What it had sent before it went is lost or read before.
DropClient(s) ==
    /\ s \in clients
    /\ flushing[s] = {}
    /\ ~Alive(s)
    /\ clients' = clients \ {s}
    /\ up' = [up EXCEPT ![s] = {}]
    /\ UNCHANGED <<flushing, pending, emit, todo, sockets, down, tabs, seen>>

-----------------------------------------------------------------------------
\* The tabs.

\* The user, or the browser asked by _resurrect, opens the app.
OpenTab(tab) ==
    /\ tab \notin open
    /\ open' = open \union {tab}
    /\ peers' = [peers EXCEPT ![tab] = {tab}]
    /\ UNCHANGED <<hub, wire, ws, seen>>

\* Fault: a client that connects is not given what is pending.
ConnectUnflushed(tab) ==
    /\ tab \in open
    /\ ws[tab] = 0
    /\ sockets < MaxSocket
    /\ sockets' = sockets + 1
    /\ ws' = [ws EXCEPT ![tab] = sockets']
    /\ clients' = clients \union {sockets'}
    /\ UNCHANGED <<flushing, pending, emit, todo, down, up, open, peers, seen>>

\* _open, at the first connect or when the backoff is over: the handler of the
\* hub registers the client and lists the pending triggers without an await
\* in between.
Connect(tab) ==
    /\ tab \in open
    /\ ws[tab] = 0
    /\ sockets < MaxSocket
    /\ sockets' = sockets + 1
    /\ ws' = [ws EXCEPT ![tab] = sockets']
    /\ clients' = clients \union {sockets'}
    /\ flushing' = [flushing EXCEPT ![sockets'] = pending]
    /\ UNCHANGED <<pending, emit, todo, down, up, open, peers, seen>>

\* The connection breaks; frames on their way to the tab are lost, and so may
\* be its ACKs.  The tab will connect again, the hub does not know yet.
Break(tab) ==
    /\ ws[tab] # 0
    /\ ws' = [ws EXCEPT ![tab] = 0]
    /\ down' = [down EXCEPT ![ws[tab]] = <<>>]
    /\ \E lost \in SUBSET up[ws[tab]] : up' = [up EXCEPT ![ws[tab]] = @ \ lost]
    /\ UNCHANGED <<hub, sockets, open, peers, seen>>

CloseTab(tab) ==
    /\ tab \in open
    /\ ws[tab] = 0
    /\ open' = open \ {tab}
    /\ UNCHANGED <<hub, wire, ws, peers, seen>>

\* Fault: only the tab that shows the trigger acknowledges it.
ReceivePrimary(tab) ==
    /\ ws[tab] # 0
    /\ down[ws[tab]] # <<>>
    /\ LET s == ws[tab]
           t == Head(down[s])
       IN  /\ down' = [down EXCEPT ![s] = Tail(@)]
           /\ up' = IF IsPrimary(tab) THEN [up EXCEPT ![s] = @ \union {t}] ELSE up
           /\ got' = got \union {t}
           /\ shown' = IF IsPrimary(tab) THEN [shown EXCEPT ![t] = @ + 1] ELSE shown
    /\ UNCHANGED <<hub, sockets, tabs>>

\* _receive: every tab acknowledges, the primary tab shows.
Receive(tab) ==
    /\ ws[tab] # 0
    /\ down[ws[tab]] # <<>>
    /\ LET s == ws[tab]
           t == Head(down[s])
       IN  /\ down' = [down EXCEPT ![s] = Tail(@)]
           /\ up' = [up EXCEPT ![s] = @ \union {t}]
           /\ got' = got \union {t}
           /\ shown' = IF IsPrimary(tab) THEN [shown EXCEPT ![t] = @ + 1] ELSE shown
    /\ UNCHANGED <<hub, sockets, tabs>>

\* A beat of tab p reaches the tab.
HearBeat(tab, p) ==
    /\ {tab, p} \subseteq open
    /\ p \notin peers[tab]
    /\ peers' = [peers EXCEPT ![tab] = @ \union {p}]
    /\ UNCHANGED <<hub, wire, open, ws, seen>>

\* No beat of p for 1500 ms: it is gone, or its timers are throttled.
ExpirePeer(tab, p) ==
    /\ tab \in open
    /\ p \in peers[tab] \ {tab}
    /\ peers' = [peers EXCEPT ![tab] = @ \ {p}]
    /\ UNCHANGED <<hub, wire, open, ws, seen>>

-----------------------------------------------------------------------------
Emitter(t) ==
    \/ StartBroadcast(t)
    \/ \E s \in Socket : SendTrigger(t, s)
    \/ EndBroadcast(t)
    \/ Answer(t)

Handler(s) ==
    \/ \E t \in Trigger : Redeliver(s, t) \/ ReceiveAck(s, t)
    \/ DropClient(s)

DeliveryNext ==
    \/ \E t \in Trigger : EmitToClients(t) \/ EmitToNobody(t) \/ Emitter(t)
    \/ \E s \in Socket : Handler(s)
    \/ \E tab \in Tab :
          \/ OpenTab(tab)
          \/ Connect(tab)
          \/ Break(tab)
          \/ CloseTab(tab)
          \/ Receive(tab)
          \/ \E p \in Tab : HearBeat(tab, p) \/ ExpirePeer(tab, p)

\* The event loop of the daemon runs every task that is ready; a tab handles
\* the frames that reach it.
DeliveryFairness ==
    /\ \A t \in Trigger : WF_deliveryVars(Emitter(t))
    /\ \A s \in Socket : WF_deliveryVars(Handler(s))
    /\ \A tab \in Tab : WF_deliveryVars(Receive(tab))

DeliverySpec == DeliveryInit /\ [][DeliveryNext]_deliveryVars /\ DeliveryFairness

-----------------------------------------------------------------------------

\* No loss: a trigger stays queued until a tab has received it, however often
\* connections break and emitters time out.
PendingUntilReceived == \A t \in Trigger : emit[t] # "none" => t \in pending \union got

\* A client that connects while a trigger is being emitted gets it all the same:
\* once its handler has flushed and the emitter has sent, every pending trigger
\* is on the way to it or has reached it.
PendingIsOnItsWay ==
    \A t \in pending, s \in clients :
        Alive(s) => \/ t \in flushing[s]
                    \/ emit[t] = "focus"
                    \/ s \in todo[t]
                    \/ \E i \in DOMAIN down[s] : down[s][i] = t
                    \/ t \in up[s]

\* While some tab stays connected, a pending trigger is acknowledged.
AckedWhileConnected ==
    \A t \in Trigger :
        t \in pending ~> (t \notin pending \/ \A tab \in Tab : ws[tab] = 0)

\* useDaemonIpc.js: a trigger broadcast to every open tab is shown once, by the
\* primary tab.
ShownOnce ==
    \A t \in Trigger :
        /\ emit[t] = "answered"
        /\ t \notin pending
        /\ \A s \in Socket : \A i \in DOMAIN down[s] : down[s][i] # t
        => shown[t] = 1

=============================================================================
