----------------------------- MODULE LiveEvents -----------------------------
(***************************************************************************)
(* The stream of a user's call events: realtimeStore of the mobile client, *)
(* its socket to the realtime service, and the screen that shows a call    *)
(* while it runs.  The handlers of every socket share one variable for the *)
(* current one, and one for the timer.  An event is handled when it is     *)
(* sent.                                                                   *)
(***************************************************************************)
EXTENDS Naturals, FiniteSets, Sequences

CONSTANTS Socks,      \* bound: sockets at a time
          LiveCalls,  \* calls that run while the app is looked at
          MaxTurns,   \* bound on the turns of a call
          MaxMounts   \* bound on the times that the user signs in

ASSUME MountsAssumption == MaxMounts \in Nat /\ MaxTurns \in Nat

VARIABLES home,     \* AuthenticatedHome is mounted
          mounts,   \* how often it was
          token,    \* the stored access token: "none", "fresh", or "old", which is expired
          up,       \* the network and the services are there
          sock,     \* the client's sockets and the token each was opened with
          srv,      \* the server's side of each: "none", "auth", "in" userSockets
          current,  \* ws: the current socket, as a sequence of at most one
          calling,  \* connect() calls that wait for the token; two stand for more
          timers,   \* reconnect timers that run; two stand for more
          shows,    \* connected, activeCallId and liveTranscript of the store
          said,     \* turns of each call so far
          twice     \* history: there were two sockets at a time

liveVars == <<home, mounts, token, up, sock, srv, current, calling, timers, shows, said, twice>>

NoSock == [st |-> "none", tok |-> "none"]
NoLive == [c |-> "none", turns |-> <<>>, ended |-> FALSE]
NotShown == [connected |-> FALSE, active |-> "none", live |-> NoLive]

LiveInit ==
  /\ home = FALSE /\ mounts = 0 /\ token = "none" /\ up = TRUE
  /\ sock = [s \in Socks |-> NoSock] /\ srv = [s \in Socks |-> "none"]
  /\ current = <<>> /\ calling = 0 /\ timers = 0
  /\ shows = NotShown /\ said = [c \in LiveCalls |-> 0] /\ twice = FALSE

Capped(n) == IF n > 2 THEN 2 ELSE n
Used(f) == {s \in Socks : f[s].st # "none"}

----------------------------------------------------------------------------
(* The client. *)

\* Each call of connect() looks for a socket before it waits for the token.
Calling(cur, n) == IF cur = <<>> THEN Capped(n + 1) ELSE n

\* The handlers of any socket that closes: whichever is current is forgotten, and a timer
\* starts even after disconnect().
ClosedForGood(s) ==
  /\ sock' = [sock EXCEPT ![s] = NoSock]
  /\ srv' = [srv EXCEPT ![s] = "none"]
  /\ current' = <<>> /\ shows' = [shows EXCEPT !.connected = FALSE]
  /\ timers' = timers
Closed(s) ==
  /\ sock' = [sock EXCEPT ![s] = NoSock]
  /\ srv' = [srv EXCEPT ![s] = "none"]
  /\ current' = <<>> /\ shows' = [shows EXCEPT !.connected = FALSE]
  /\ timers' = Capped(timers + 1)

\* The current socket is closed by the client; its close event follows.
Closing == [s \in Socks |-> IF current = <<s>> THEN [sock[s] EXCEPT !.st = "closing"] ELSE sock[s]]

\* The socket that was opened last is the current one.
TokenRead ==
  /\ calling > 0 /\ calling' = calling - 1
  /\ IF token = "none" THEN UNCHANGED <<sock, current, twice>>
     ELSE LET s == CHOOSE s \in Socks \ Used(sock) : TRUE IN
          /\ sock' = [sock EXCEPT ![s] = [st |-> "opening", tok |-> token]]
          /\ current' = <<s>>
          /\ twice' = (twice \/ Used(sock) # {})
  /\ UNCHANGED <<home, mounts, token, up, srv, timers, shows, said>>

TimerFires ==
  /\ timers > 0 /\ timers' = timers - 1
  /\ calling' = Calling(current, calling)
  /\ UNCHANGED <<home, mounts, token, up, sock, srv, current, shows, said, twice>>

SignIn ==
  /\ ~home /\ mounts < MaxMounts
  /\ home' = TRUE /\ mounts' = mounts + 1 /\ token' = "fresh"
  /\ calling' = Calling(current, calling)
  /\ UNCHANGED <<up, sock, srv, current, timers, shows, said, twice>>

\* disconnect() stops the timer it knows of and leaves a connect() that waits alone.
SignOut ==
  /\ home /\ home' = FALSE /\ token' = "none"
  /\ timers' = IF timers > 0 THEN timers - 1 ELSE 0
  /\ sock' = Closing
  /\ current' = <<>> /\ shows' = NotShown
  /\ UNCHANGED <<mounts, up, srv, calling, said, twice>>

\* Any request of the app renews the token.
Token ==
  /\ \/ token = "fresh" /\ token' = "old"
     \/ token = "old" /\ token' = "fresh"
  /\ UNCHANGED <<home, mounts, up, sock, srv, current, calling, timers, shows, said, twice>>

\* The handshake is done before the server looks at the token.
Opens(s) ==
  /\ sock[s].st = "opening" /\ up
  /\ sock' = [sock EXCEPT ![s].st = "open"]
  /\ srv' = [srv EXCEPT ![s] = "auth"]
  /\ shows' = [shows EXCEPT !.connected = TRUE]
  /\ UNCHANGED <<home, mounts, token, up, current, calling, timers, said, twice>>

CloseEvent(s) ==
  /\ sock[s].st = "closing"
  /\ Closed(s)
  /\ UNCHANGED <<home, mounts, token, up, calling, said, twice>>

\* The handler of an error closes the current socket, which may be another one.
Fails(s) ==
  /\ sock[s].st \in {"opening", "open"} /\ ~up
  /\ sock' = [Closing EXCEPT ![s] = NoSock]
  /\ srv' = [srv EXCEPT ![s] = "none"]
  /\ current' = <<>> /\ shows' = [shows EXCEPT !.connected = FALSE]
  /\ timers' = Capped(timers + 1)
  /\ UNCHANGED <<home, mounts, token, up, calling, said, twice>>

----------------------------------------------------------------------------
(* The service. *)

Network ==
  /\ up' = ~up
  /\ UNCHANGED <<home, mounts, token, sock, srv, current, calling, timers, shows, said, twice>>

\* The backend is asked who the user is; a token that expired closes the socket.
Authenticated(s) ==
  /\ srv[s] = "auth"
  /\ IF up /\ sock[s].tok = "fresh"
     THEN srv' = [srv EXCEPT ![s] = "in"] /\ UNCHANGED sock
     ELSE /\ srv' = [srv EXCEPT ![s] = "none"]
          /\ sock' = [sock EXCEPT ![s].st = "closing"]
  /\ UNCHANGED <<home, mounts, token, up, current, calling, timers, shows, said, twice>>

Listeners == {s \in Socks : srv[s] = "in" /\ sock[s].st = "open"}

\* Mutant: the turn of another call is added to the transcript that is shown.
WithTurnOfAny(v, c, n) ==
  IF v.live.c # "none" THEN [v EXCEPT !.live.turns = Append(@, <<c, n>>)]
  ELSE [v EXCEPT !.live = [c |-> c, turns |-> <<<<c, n>>>>, ended |-> FALSE]]

WithTurn(v, c, n) ==
  IF v.live.c = c THEN [v EXCEPT !.live.turns = Append(@, <<c, n>>)]
  ELSE [v EXCEPT !.live = [c |-> c, turns |-> <<<<c, n>>>>, ended |-> FALSE]]

Started(v, c) == [v EXCEPT !.active = c]

\* Whichever call it was that ended.
HungUp(v) ==
  [v EXCEPT !.active = "none", !.live.ended = (v.live.c # "none")]

Unsaid == UNCHANGED <<home, mounts, token, up, sock, srv, current, calling, timers, twice>>

CallStarts(c) ==
  /\ said[c] = 0
  /\ shows' = IF Listeners = {} THEN shows ELSE Started(shows, c)
  /\ UNCHANGED said /\ Unsaid

\* Every socket of the user gets the turn.
Turn(c) ==
  /\ said[c] < MaxTurns
  /\ said' = [said EXCEPT ![c] = @ + 1]
  /\ shows' = CASE Cardinality(Listeners) = 0 -> shows
                [] Cardinality(Listeners) = 1 -> WithTurn(shows, c, said'[c])
                [] OTHER -> WithTurn(WithTurn(shows, c, said'[c]), c, said'[c])
  /\ Unsaid

CallEnds(c) ==
  /\ said[c] > 0
  /\ shows' = IF Listeners = {} THEN shows ELSE HungUp(shows)
  /\ UNCHANGED said /\ Unsaid

\* What the screen of a running call shows.
LiveTurns(c) == IF shows.live.c = c THEN shows.live.turns ELSE <<>>

----------------------------------------------------------------------------
LiveNext ==
  \/ TokenRead \/ TimerFires \/ SignIn \/ SignOut \/ Token \/ Network
  \/ \E s \in Socks : Opens(s) \/ CloseEvent(s) \/ Fails(s) \/ Authenticated(s)
  \/ \E c \in LiveCalls : CallStarts(c) \/ Turn(c) \/ CallEnds(c)

\* Timers run out, a storage read ends, sockets open or fail and closing ends, the
\* backend answers or the server's timeout does.
LiveFairness ==
  /\ WF_liveVars(TokenRead) /\ WF_liveVars(TimerFires)
  /\ \A s \in Socks : /\ WF_liveVars(Opens(s) \/ Fails(s)) /\ WF_liveVars(CloseEvent(s))
                      /\ WF_liveVars(Authenticated(s))

LiveSpec == LiveInit /\ [][LiveNext]_liveVars /\ LiveFairness

----------------------------------------------------------------------------
(* Properties. *)

\* The screen of a call shows turns of that call alone, each once and in order, however
\* often the stream was lost in between, unless the app had two sockets.
TurnsOnce ==
  ~twice => \A c \in LiveCalls : LET t == LiveTurns(c) IN
              /\ \A i \in 1 .. Len(t) : t[i][1] = c
              /\ \A i \in 1 .. Len(t) - 1 : t[i][2] < t[i + 1][2]

\* A user who stays signed in, with services that are there and a token that is renewed,
\* gets the stream back for good, whatever sockets, timers and sign-outs came before: each
\* way to lose the socket leaves a timer or a socket behind.
Favourable == home /\ up /\ token = "fresh"
ComesBack == <>[]Favourable => <>[](shows.connected)
=============================================================================
