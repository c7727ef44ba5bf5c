------------------------------- MODULE Gateway -------------------------------
(***************************************************************************)
(* The WebSocket gateway and the browser's end of it:                      *)
(* apps/trade/src/server/ws/server.ts, the presence counts of              *)
(* server/engine/hub.ts, and lib/ws/client.ts with its two users,          *)
(* components/providers.tsx and hooks/useForexSocket.ts.                   *)
(*                                                                         *)
(* A tab keeps one socket, reconnects whenever it is lost, and repeats its *)
(* subscriptions on each new one.  The server finds out who connects while *)
(* frames already come in, registers the connection, counts its user as    *)
(* present, and drops it when the socket closes or the heartbeat gives it  *)
(* up.  Frames travel in order; a link may be cut without either end being *)
(* told.  Of the data sent to a tab, the model keeps whether the user has  *)
(* a position open.  Quotes, candles and the account figures, and the      *)
(* positions in a market snapshot (read and sent in one step), are left    *)
(* out, and so are the intervals.                                          *)
(***************************************************************************)
EXTENDS Integers, FiniteSets, SequencesExt

CONSTANTS
  Tab, User,
  UserOf,       \* [Tab -> User]
  Symbol,
  Conns,        \* number of connections that can exist at a time
  EarlyFrames,  \* frames kept while the user is being looked up
  MaxSubs,      \* MAX_SUBSCRIPTIONS
  MaxBreaks,    \* bound on the links that are cut, closed or refused
  MaxToggles,   \* bound on the changes of what a tab subscribes to
  MaxTrades     \* bound on the openings and closings of a position

ASSUME OwnerAssumption == UserOf \in [Tab -> User]
ASSUME FiniteAssumption == IsFiniteSet(Symbol)
ASSUME BoundAssumption ==
  /\ Conns \in Nat /\ EarlyFrames \in Nat /\ MaxSubs \in Nat
  /\ MaxBreaks \in Nat /\ MaxToggles \in Nat /\ MaxTrades \in Nat

Conn == 1..Conns
None == 0         \* no connection, tab or symbol

VARIABLES
  \* the browser
  socket,       \* [Tab -> its connection, or None]
  desired,      \* [Tab -> symbols it subscribes to]
  shown,        \* [Tab -> what its store shows of the position]
  \* the connections
  conn,         \* [Conn -> both ends of the link, see Connection]
  \* the server
  registered,   \* clients
  bySymbol,     \* clientsBySymbol
  disconnected, \* connections whose onGone has run
  online,       \* [User -> onlineCounts]
  \* the engine
  book,         \* [User -> whether the position is open]
  opening,      \* users whose position was opened and not broadcast yet
  \* what happened
  leaked,       \* registered after their close event
  truncated,    \* had more early frames than are kept
  overtaken,    \* sent a snapshot older than an update sent before it
  untold,       \* its user's position was closed without an update
  breaks, toggles, trades

browser == <<socket, desired, shown>>
server == <<registered, bySymbol, disconnected, online>>
engine == <<book, opening>>
ghosts == <<leaked, truncated, overtaken, untold>>
counts == <<breaks, toggles, trades>>
vars == <<browser, conn, server, engine, ghosts, counts>>

Position == {"open", "flat"}
Frame == [type: {"subscribe", "unsubscribe"}, symbol: Symbol]
           \cup [type: {"account_subscribe"}, symbol: {None}]
Connection ==
  [tab: Tab \cup {None},
   link: {"unused", "up", "cut", "ended", "gone"},
   stage: {"unused", "auth", "served", "refused"},
   inbox: Seq(Frame),              \* on their way to the server
   outbox: Seq(Position),          \* on their way to the tab
   early: Seq(Frame),
   subs: SUBSET Symbol, account: BOOLEAN,
   read: Position \cup {"none"}]   \* the account snapshot being computed
Unused ==
  [tab |-> None, link |-> "unused", stage |-> "unused", inbox |-> <<>>,
   outbox |-> <<>>, early |-> <<>>, subs |-> {}, account |-> FALSE,
   read |-> "none"]

Init ==
  /\ socket = [t \in Tab |-> None]
  /\ desired = [t \in Tab |-> {}]
  /\ shown = [t \in Tab |-> "flat"]
  /\ conn = [c \in Conn |-> Unused]
  /\ registered = {} /\ disconnected = {}
  /\ bySymbol = [s \in Symbol |-> {}]
  /\ online = [u \in User |-> 0]
  /\ book \in [User -> Position] /\ opening = {}
  /\ leaked = {} /\ truncated = {} /\ overtaken = {} /\ untold = {}
  /\ breaks = 0 /\ toggles = 0 /\ trades = 0

Link(c) == conn[c].link
Stage(c) == conn[c].stage
UserAt(c) == UserOf[conn[c].tab]
Breaks == breaks < MaxBreaks /\ breaks' = breaks + 1

\* Slots are used again once nothing remembers the connection they held.
Free(c) ==
  /\ Link(c) \in {"unused", "gone"} /\ Stage(c) # "auth"
  /\ c \notin registered /\ conn[c].read = "none"
  /\ \A t \in Tab : socket[t] # c

\* The presence counts of the engine: an entry of 1 is removed.
ClientConnected(u) == online' = [online EXCEPT ![u] = @ + 1]
ClientDisconnected(u) ==
  online' = [online EXCEPT ![u] = IF @ <= 1 THEN 0 ELSE @ - 1]

-----------------------------------------------------------------------------
(* The browser.                                                            *)

AccountFrame == [type |-> "account_subscribe", symbol |-> None]
Subscribing(s) == [type |-> "subscribe", symbol |-> s]
Unsubscribing(s) == [type |-> "unsubscribe", symbol |-> s]

\* What onopen sends.
Hello(t) == <<AccountFrame>> \o SetToSeq({Subscribing(s) : s \in desired[t]})

Connect(t, c) ==
  /\ socket[t] = None
  /\ Free(c) /\ \A d \in Conn : Free(d) => c <= d
  /\ socket' = [socket EXCEPT ![t] = c]
  /\ conn' = [conn EXCEPT ![c] = [Unused EXCEPT
       !.tab = t, !.link = "up", !.stage = "auth", !.inbox = Hello(t)]]
  /\ disconnected' = disconnected \ {c}
  /\ leaked' = leaked \ {c} /\ truncated' = truncated \ {c}
  /\ overtaken' = overtaken \ {c} /\ untold' = untold \ {c}
  /\ UNCHANGED <<desired, shown, registered, bySymbol, online, engine, counts>>

\* subscribe and unsubscribe: a frame is sent only on an open socket.
Toggle(t, s) ==
  LET c == socket[t]
      adds == s \notin desired[t]
  IN /\ toggles < MaxToggles
     /\ toggles' = toggles + 1
     /\ desired' = [desired EXCEPT ![t] = IF adds THEN @ \cup {s} ELSE @ \ {s}]
     /\ IF c # None /\ Link(c) = "up"
        THEN conn' = [conn EXCEPT ![c].inbox =
               Append(@, IF adds THEN Subscribing(s) ELSE Unsubscribing(s))]
        ELSE UNCHANGED conn
     /\ UNCHANGED <<socket, shown, server, engine, ghosts, breaks, trades>>

FromCurrent(c) == socket[conn[c].tab] = c

\* onmessage
Apply(c) ==
  /\ Link(c) \in {"up", "ended"} /\ conn[c].outbox # <<>>
  /\ conn' = [conn EXCEPT ![c].outbox = Tail(@)]
  /\ shown' = IF FromCurrent(c)
              THEN [shown EXCEPT ![conn[c].tab] = Head(conn[c].outbox)]
              ELSE shown
  /\ UNCHANGED <<socket, desired, server, engine, ghosts, counts>>

\* onclose, or the heartbeat: no message for 45 s.
LosesSocket(t) ==
  /\ socket[t] # None
  /\ Link(socket[t]) \in {"cut", "ended", "gone"}
  /\ socket' = [socket EXCEPT ![t] = None]
  /\ UNCHANGED <<desired, shown, conn, server, engine, ghosts, counts>>

-----------------------------------------------------------------------------
(* Links.                                                                  *)

\* The network drops silently what is on its way and all that follows.
Cut(c) ==
  /\ Link(c) = "up" /\ Breaks
  /\ conn' = [conn EXCEPT ![c].link = "cut", ![c].inbox = <<>>,
                          ![c].outbox = <<>>]
  /\ UNCHANGED <<browser, server, engine, ghosts, toggles, trades>>

\* One end closes: the tab is left, the client is slow, too loud or invalid.
Closes(c) ==
  /\ Link(c) = "up" /\ Breaks
  /\ conn' = [conn EXCEPT ![c].link = "ended"]
  /\ UNCHANGED <<browser, server, engine, ghosts, toggles, trades>>

-----------------------------------------------------------------------------
(* Commands: handleMessage.                                                *)

\* The connection and the index after frame f.  A frame beyond the limit of
\* subscriptions closes the socket, but what follows is still handled.
Handle(at, c, f) ==
  CASE f.type = "account_subscribe" ->
         [at EXCEPT !.k.account = TRUE, !.k.read = book[UserAt(c)]]
    [] f.type = "unsubscribe" ->
         [at EXCEPT !.k.subs = @ \ {f.symbol}, !.index[f.symbol] = @ \ {c}]
    [] f.type = "subscribe" ->
         IF f.symbol \notin at.k.subs /\ Cardinality(at.k.subs) >= MaxSubs
         THEN [at EXCEPT !.k.link = IF @ = "gone" THEN @ ELSE "ended"]
         ELSE [at EXCEPT !.k.subs = @ \cup {f.symbol},
                         !.index[f.symbol] = @ \cup {c}]

Receive(c) ==
  LET f == Head(conn[c].inbox)
      rest == [conn[c] EXCEPT !.inbox = Tail(@)]
  IN /\ Link(c) \in {"up", "ended"} /\ conn[c].inbox # <<>>
     /\ CASE Stage(c) = "auth" /\ Len(conn[c].early) < EarlyFrames ->
               /\ conn' = [conn EXCEPT ![c] =
                    [rest EXCEPT !.early = Append(@, f)]]
               /\ UNCHANGED <<bySymbol, truncated>>
          [] Stage(c) = "auth" /\ Len(conn[c].early) >= EarlyFrames ->
               /\ conn' = [conn EXCEPT ![c] = rest]
               /\ truncated' = truncated \cup {c}
               /\ UNCHANGED bySymbol
          [] Stage(c) = "served" ->
               LET after == Handle([k |-> rest, index |-> bySymbol], c, f)
               IN /\ conn' = [conn EXCEPT ![c] = after.k]
                  /\ bySymbol' = after.index
                  /\ UNCHANGED truncated
          [] OTHER ->
               /\ conn' = [conn EXCEPT ![c] = rest]
               /\ UNCHANGED <<bySymbol, truncated>>
     /\ UNCHANGED <<browser, registered, disconnected, online, engine, leaked,
                    overtaken, untold, counts>>

\* Defect: the buffered frames are not replayed.
ReplayNone(c) == <<>>

Replay(c) == conn[c].early

\* The connection and the index after the frames that came meanwhile.
Replayed(c) ==
  LET fresh == [conn[c] EXCEPT !.stage = "served", !.early = <<>>]
      frames == Replay(c)
      after[i \in 0..Len(frames)] ==
        IF i = 0 THEN [k |-> fresh, index |-> bySymbol]
                 ELSE Handle(after[i - 1], c, frames[i])
  IN after[Len(frames)]

\* The user is known: register, count, and replay.  The close event may have
\* passed by: nothing listened to it.
Authenticated(c) ==
  LET after == Replayed(c)
  IN /\ Stage(c) = "auth"
     /\ conn' = [conn EXCEPT ![c] = after.k]
     /\ bySymbol' = after.index
     /\ registered' = registered \cup {c}
     /\ ClientConnected(UserAt(c))
     /\ leaked' = IF Link(c) = "gone" THEN leaked \cup {c} ELSE leaked
     /\ UNCHANGED <<browser, disconnected, engine, truncated, overtaken, untold,
                    counts>>

\* No session: close with 4401.
Refuse(c) ==
  /\ Stage(c) = "auth" /\ Breaks
  /\ conn' = [conn EXCEPT
       ![c].stage = "refused", ![c].early = <<>>,
       ![c].link = IF @ = "gone" THEN "gone" ELSE "ended"]
  /\ UNCHANGED <<browser, server, engine, ghosts, toggles, trades>>

-----------------------------------------------------------------------------
(* Updates.                                                                *)

\* Defect: the sender passes on the snapshot buffer, not the update.
SentBuffer(k, p) ==
  IF k.link = "up" THEN [k EXCEPT !.outbox = Append(@, k.read)] ELSE k

Sent(k, p) == IF k.link = "up" THEN [k EXCEPT !.outbox = Append(@, p)] ELSE k

\* The positions were read before the account figures were awaited.
SendSnapshot(c) ==
  /\ conn[c].read # "none"
  /\ conn' = [conn EXCEPT ![c] =
       [Sent(@, conn[c].read) EXCEPT !.read = "none"]]
  /\ \/ /\ conn[c].read = book[UserAt(c)]
        /\ untold' = untold \ {c} /\ UNCHANGED overtaken
     \/ /\ conn[c].read # book[UserAt(c)] /\ UNCHANGED untold
        /\ overtaken' =
             IF UserAt(c) \in opening THEN overtaken ELSE overtaken \cup {c}
  /\ UNCHANGED <<browser, server, engine, leaked, truncated, counts>>

Listens(c) == conn[c].account \/ conn[c].subs # {}

\* To the connections of its user.  The next position is another one: its
\* updates do not take back what a tab was told, or not told, of this one.
Broadcast(u, p) ==
  conn' = [c \in Conn |->
             IF c \in registered /\ UserAt(c) = u /\ Listens(c)
             THEN Sent(conn[c], p) ELSE conn[c]]

Trades == trades < MaxTrades /\ trades' = trades + 1

\* The position is in memory; the figures are awaited before it is broadcast.
Opens(u) ==
  /\ book[u] = "flat" /\ Trades
  /\ book' = [book EXCEPT ![u] = "open"] /\ opening' = opening \cup {u}
  /\ UNCHANGED <<browser, conn, server, ghosts, breaks, toggles>>

\* By the order, or if its figures failed by the next mark.
Announces(u) ==
  /\ u \in opening /\ opening' = opening \ {u}
  /\ Broadcast(u, "open")
  /\ UNCHANGED <<browser, server, book, ghosts, counts>>

ClosesPosition(u) ==
  /\ book[u] = "open" /\ Trades
  /\ book' = [book EXCEPT ![u] = "flat"] /\ opening' = opening \ {u}
  /\ Broadcast(u, "flat")
  /\ UNCHANGED <<browser, server, ghosts, breaks, toggles>>

\* A close finds the row closed already, by a transaction whose answer was
\* lost: the position leaves the memory, and nobody is told.
DropsPosition(u) ==
  /\ book[u] = "open" /\ Trades
  /\ book' = [book EXCEPT ![u] = "flat"] /\ opening' = opening \ {u}
  /\ untold' = untold \cup
       {c \in Conn : Stage(c) # "unused" /\ UserAt(c) = u}
  /\ UNCHANGED <<browser, conn, server, leaked, truncated, overtaken, breaks,
                 toggles>>

-----------------------------------------------------------------------------
(* The end of a connection.                                                *)

Unindexed(c) ==
  [s \in Symbol |-> IF s \in conn[c].subs THEN bySymbol[s] \ {c}
                                          ELSE bySymbol[s]]

\* Defect: runs for the error and again for the close.
GoneTwice(c) ==
  /\ registered' = registered \ {c}
  /\ bySymbol' = Unindexed(c)
  /\ ClientDisconnected(UserAt(c))
  /\ UNCHANGED disconnected

OnGone(c) ==
  IF c \in disconnected THEN UNCHANGED server
  ELSE /\ disconnected' = disconnected \cup {c}
       /\ registered' = registered \ {c}
       /\ bySymbol' = Unindexed(c)
       /\ ClientDisconnected(UserAt(c))

\* The error event of a socket; its close event follows.  An error before the
\* user is known, which nothing listens for, is left out.
Errs(c) ==
  /\ Link(c) = "up" /\ Stage(c) = "served" /\ Breaks
  /\ conn' = [conn EXCEPT ![c].link = "ended", ![c].inbox = <<>>]
  /\ OnGone(c)
  /\ UNCHANGED <<browser, engine, ghosts, toggles, trades>>

\* The close event of a socket; before registration nobody listens to it.
CloseEvent(c) ==
  /\ Link(c) = "ended"
  /\ IF Stage(c) = "auth"
     THEN /\ conn' = [conn EXCEPT ![c].link = "gone", ![c].inbox = <<>>]
          /\ UNCHANGED <<server, ghosts>>
     ELSE /\ conn' = [conn EXCEPT ![c] =
                 [Unused EXCEPT !.tab = conn[c].tab, !.link = "gone",
                                !.stage = Stage(c), !.read = conn[c].read]]
          /\ IF Stage(c) = "served" THEN OnGone(c) ELSE UNCHANGED server
          /\ truncated' = truncated \ {c} /\ overtaken' = overtaken \ {c}
          /\ untold' = untold \ {c}
          /\ UNCHANGED leaked
  /\ UNCHANGED <<browser, engine, counts>>

\* Defect: clients that do not answer are pinged again and again.
TerminateNone(c) == FALSE /\ UNCHANGED vars

\* The heartbeat: the client answered neither the last ping nor this one, as
\* the link is cut or the client is slow.  On a closed socket, terminate does
\* nothing more.
Terminate(c) ==
  /\ c \in registered
  /\ \/ Link(c) = "cut" /\ UNCHANGED breaks
     \/ Link(c) = "up" /\ Breaks
  /\ conn' = [conn EXCEPT ![c].link = "ended"]
  /\ UNCHANGED <<browser, server, engine, ghosts, toggles, trades>>

-----------------------------------------------------------------------------

Progress(c) ==
  \/ Apply(c) \/ Receive(c) \/ Authenticated(c) \/ SendSnapshot(c)
  \/ CloseEvent(c)

Next ==
  \/ \E t \in Tab : \/ \E c \in Conn : Connect(t, c)
                    \/ \E s \in Symbol : Toggle(t, s)
                    \/ LosesSocket(t)
  \/ \E c \in Conn : \/ Progress(c) \/ Terminate(c)
                     \/ Cut(c) \/ Closes(c) \/ Refuse(c) \/ Errs(c)
  \/ \E u \in User : \/ Opens(u) \/ Announces(u)
                     \/ ClosesPosition(u) \/ DropsPosition(u)

Spec == Init /\ [][Next]_vars

\* Frames arrive and calls return, closed sockets get their event, the timers
\* of both ends keep running, and a tab without a socket reconnects.
FairSpec ==
  /\ Spec
  /\ \A c \in Conn :
       /\ WF_vars(Apply(c)) /\ WF_vars(Receive(c))
       /\ WF_vars(Authenticated(c)) /\ WF_vars(SendSnapshot(c))
       /\ WF_vars(CloseEvent(c))
       /\ WF_vars(Link(c) = "cut" /\ Terminate(c))
  /\ \A t \in Tab :
       WF_vars(LosesSocket(t)) /\ WF_vars(\E c \in Conn : Connect(t, c))

-----------------------------------------------------------------------------

TypeOK ==
  /\ socket \in [Tab -> Conn \cup {None}]
  /\ desired \in [Tab -> SUBSET Symbol] /\ shown \in [Tab -> Position]
  /\ conn \in [Conn -> Connection]
  /\ registered \subseteq Conn /\ disconnected \subseteq Conn
  /\ bySymbol \in [Symbol -> SUBSET Conn]
  /\ online \in [User -> Nat]
  /\ book \in [User -> Position]
  /\ opening \subseteq {u \in User : book[u] = "open"}
  /\ leaked \subseteq registered
  /\ truncated \subseteq Conn /\ overtaken \subseteq Conn
  /\ untold \subseteq Conn
  /\ breaks \in 0..MaxBreaks /\ toggles \in 0..MaxToggles
  /\ trades \in 0..MaxTrades

(***************************************************************************)
(* Presence and routing are exact through errors, closes, heartbeats and   *)
(* reconnects: a user counts once for each connection that was accepted    *)
(* and has not ended, the index by symbol routes to exactly the registered *)
(* connections that subscribed, and a connection stays registered after    *)
(* its close event only if that event came before its user was known.      *)
(***************************************************************************)
PresenceExact ==
  /\ \A u \in User :
       online[u] = Cardinality({c \in registered : UserAt(c) = u})
  /\ \A s \in Symbol :
       bySymbol[s] = {c \in registered : s \in conn[c].subs}
  /\ \A c \in registered : Link(c) = "gone" => c \in leaked
  /\ \A c \in Conn :
       Stage(c) = "served" /\ Link(c) \in {"up", "cut"} => c \in registered

Quiet(c) ==
  /\ c # None
  /\ Link(c) = "up" /\ Stage(c) = "served"
  /\ conn[c].inbox = <<>> /\ conn[c].outbox = <<>> /\ conn[c].read = "none"

\* The tab may show a position that is closed, or lack one that is open.
Misled == overtaken \cup untold

(***************************************************************************)
(* When nothing is on its way, both ends agree: the server serves just the *)
(* subscriptions the tab wants, and the tab shows the position as it is,   *)
(* unless that was just opened and is still to be broadcast, however the   *)
(* socket was replaced and whenever frames came.  Three cases escape:      *)
(* frames dropped beyond the early buffer, an account snapshot sent after  *)
(* an update that it does not contain, and a position dropped from the     *)
(* memory without an update, until the next snapshot is sent.              *)
(***************************************************************************)
QuietMeansAgreed ==
  \A t \in Tab :
    LET c == socket[t]
    IN Quiet(c) /\ c \notin truncated =>
         /\ conn[c].subs = desired[t] /\ conn[c].account
         /\ c \notin Misled /\ UserOf[t] \notin opening =>
              shown[t] = book[UserOf[t]]

\* The connections still held for peers that are gone.
Haunting(c) == c \in registered \ leaked /\ Link(c) # "up"

(***************************************************************************)
(* Whatever is lost on the way, each tab that keeps to the limit of        *)
(* subscriptions has a live, registered connection in the end, and the     *)
(* connections whose peer is gone are given up.                            *)
(***************************************************************************)
TabsRecover ==
  /\ \A t \in Tab :
       <>[](Cardinality(desired[t]) <= MaxSubs)
         => <>[](socket[t] # None /\ socket[t] \in registered)
  /\ \A c \in Conn : Haunting(c) ~> ~ Haunting(c)
=============================================================================
