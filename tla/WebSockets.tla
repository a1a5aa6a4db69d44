----------------------------- MODULE WebSockets -----------------------------
(***************************************************************************)
(* The subscribers of one run's events: ConnectionManager of               *)
(* src/vsrs/api/websocket.py under the endpoint of src/vsrs/api/app.py.    *)
(* Coroutines of one event loop, which lose control at an await only: the  *)
(* manager's lock is never held across one, so what it guards is a step,   *)
(* and so is whatever runs between two sends.                              *)
(***************************************************************************)
EXTENDS Naturals, Sequences, FiniteSets

CONSTANTS
    Sockets,        \* clients, each of which connects once
    Events,         \* bound: events 1..Events are published, in this order
    Clears          \* bound: how often the history is cleared

ASSUME SocketAssumption == Events \in Nat /\ Clears \in Nat

VARIABLES
    lists,          \* the history lists ever made; a replay may hold an old one
    current,        \* which of them _event_history holds, 0 if none
    subscribers,    \* _connections of the run
    link,           \* where the endpoint's coroutine is: "new", "replay", "open", "ended"
    replay,         \* the list a coroutine iterates over and how far it is
    gone,           \* clients that have closed their socket
    published,      \* how many events were published
    sending,        \* what each broadcast has still to send and found closed
    inbox,          \* the events each client received, in order
    before          \* history: the events published before the client subscribed

socketVars == <<lists, current, subscribers, link, replay, gone, published, sending,
                inbox, before>>

SocketInit ==
    /\ lists = <<>> /\ current = 0
    /\ subscribers = {} /\ gone = {}
    /\ link = [s \in Sockets |-> "new"]
    /\ replay = [s \in Sockets |-> [list |-> 0, next |-> 1]]
    /\ published = 0
    /\ sending = <<>>
    /\ inbox = [s \in Sockets |-> <<>>]
    /\ before = [s \in Sockets |-> 0]

\* What a list holds; get(run_id, []) answers a new empty one when there is none.
Listed(l) == IF l = 0 THEN <<>> ELSE lists[l]

\* send_text raises on a socket the client has closed.
Receive(s, e) == inbox' = [inbox EXCEPT ![s] = Append(@, e)]

-----------------------------------------------------------------------------
\* connect(), from the accepted socket to the look at the history: subscribed
\* first, so that an event published from now on is broadcast to the client.
Connect(s) ==
    /\ link[s] = "new" /\ s \notin gone
    /\ subscribers' = subscribers \union {s}
    /\ replay' = [replay EXCEPT ![s].list = current]
    /\ link' = [link EXCEPT ![s] = "replay"]
    /\ before' = [before EXCEPT ![s] = published]
    /\ UNCHANGED <<lists, current, gone, published, sending, inbox>>

\* The next event of the list it iterates over, which may have grown meanwhile.
ReplaySend(s) ==
    /\ link[s] = "replay" /\ s \notin gone
    /\ replay[s].next <= Len(Listed(replay[s].list))
    /\ Receive(s, Listed(replay[s].list)[replay[s].next])
    /\ replay' = [replay EXCEPT ![s].next = @ + 1]
    /\ UNCHANGED <<lists, current, subscribers, link, gone, published, sending, before>>

\* A send that fails in connect() ends the endpoint outside its try: the socket
\* stays subscribed.
ReplayRaises(s) ==
    /\ link[s] = "replay" /\ s \in gone
    /\ replay[s].next <= Len(Listed(replay[s].list))
    /\ link' = [link EXCEPT ![s] = "ended"]
    /\ UNCHANGED <<lists, current, subscribers, replay, gone, published, sending, inbox, before>>

\* The end of the list: on to the endpoint's loop.
ReplayDone(s) ==
    /\ link[s] = "replay"
    /\ replay[s].next > Len(Listed(replay[s].list))
    /\ link' = [link EXCEPT ![s] = "open"]
    /\ UNCHANGED <<lists, current, subscribers, replay, gone, published, sending, inbox, before>>

\* The client goes away; nobody knows until something is sent or received.
GoAway(s) ==
    /\ s \notin gone
    /\ gone' = gone \union {s}
    /\ UNCHANGED <<lists, current, subscribers, link, replay, published, sending, inbox, before>>

\* disconnect(), from the endpoint's loop.
Disconnect(s) ==
    /\ link[s] = "open" /\ s \in gone
    /\ subscribers' = subscribers \ {s}
    /\ link' = [link EXCEPT ![s] = "ended"]
    /\ UNCHANGED <<lists, current, replay, gone, published, sending, inbox, before>>

-----------------------------------------------------------------------------
\* Broadcasting to the clients whose replay is over, as if the history held the event
\* for the others.
FaultyPublish ==
    /\ published < Events
    /\ published' = published + 1
    /\ IF current = 0 THEN /\ lists' = Append(lists, <<published + 1>>)
                           /\ current' = Len(lists) + 1
                      ELSE /\ lists' = [lists EXCEPT ![current] = Append(@, published + 1)]
                           /\ UNCHANGED current
    /\ sending' = Append(sending, [todo |-> {s \in subscribers : link[s] = "open"}, closed |-> {}])
    /\ UNCHANGED <<subscribers, link, replay, gone, inbox, before>>

\* broadcast(): the event joins the history, and the subscribers of the moment
\* are those it will be sent to, in any order.
Publish ==
    /\ published < Events
    /\ published' = published + 1
    /\ IF current = 0 THEN /\ lists' = Append(lists, <<published + 1>>)
                           /\ current' = Len(lists) + 1
                      ELSE /\ lists' = [lists EXCEPT ![current] = Append(@, published + 1)]
                           /\ UNCHANGED current
    /\ sending' = Append(sending, [todo |-> subscribers, closed |-> {}])
    /\ UNCHANGED <<subscribers, link, replay, gone, inbox, before>>

\* One send of a broadcast; a failure is remembered.
Send(e, s) ==
    /\ s \in sending[e].todo
    /\ IF s \in gone
       THEN /\ sending' = [sending EXCEPT ![e].todo = @ \ {s}, ![e].closed = @ \union {s}]
            /\ UNCHANGED inbox
       ELSE /\ sending' = [sending EXCEPT ![e].todo = @ \ {s}]
            /\ Receive(s, e)
    /\ UNCHANGED <<lists, current, subscribers, link, replay, gone, published, before>>

\* After its sends a broadcast disconnects the sockets that failed.
DropClosed(e) ==
    /\ sending[e].todo = {} /\ sending[e].closed # {}
    /\ subscribers' = subscribers \ sending[e].closed
    /\ sending' = [sending EXCEPT ![e].closed = {}]
    /\ UNCHANGED <<lists, current, link, replay, gone, published, inbox, before>>

\* clear_history: replays under way keep the list they have.
ClearHistory ==
    /\ current # 0 /\ Len(lists) <= Clears
    /\ current' = 0
    /\ UNCHANGED <<lists, subscribers, link, replay, gone, published, sending, inbox, before>>

SocketNext ==
    \/ Publish \/ ClearHistory
    \/ \E e \in DOMAIN sending : DropClosed(e) \/ \E s \in Sockets : Send(e, s)
    \/ \E s \in Sockets : \/ Connect(s) \/ ReplaySend(s) \/ ReplayRaises(s) \/ ReplayDone(s)
                          \/ GoAway(s) \/ Disconnect(s)

SocketSpec == SocketInit /\ [][SocketNext]_socketVars

-----------------------------------------------------------------------------
Times(s, e) == Cardinality({i \in DOMAIN inbox[s] : inbox[s][i] = e})

\* No event falls between the replay and the broadcasts: a client whose replay is
\* over has, or is about to be sent, every event of the history.  One published
\* before it subscribed comes once; a later one comes twice at most, and only the
\* overlap of its broadcast with the replay doubles it.
NoEventMissed ==
    \A s \in Sockets \ gone :
        /\ link[s] = "open" =>
               \A i \in DOMAIN Listed(current) :
                   LET e == Listed(current)[i] IN
                   Times(s, e) >= 1 \/ s \in sending[e].todo
        /\ \A e \in 1..published :
               /\ Times(s, e) <= IF e <= before[s] THEN 1 ELSE 2
               /\ Times(s, e) = 2 => \E i \in 1..(replay[s].next - 1) : Listed(replay[s].list)[i] = e
=============================================================================
