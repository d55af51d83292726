------------------------------- MODULE Screen -------------------------------
(***************************************************************************)
(* What the screen of the handheld shows of the daemon. The handlers of    *)
(* internal/stream/server.go keep metrics of their client and report them, *)
(* each from its own goroutine and from a ticker of its own; the           *)
(* controller and the status ticker report the state; one connection       *)
(* carries both to the UI, whose reader keeps what it last heard           *)
(* (internal/ui/app.go) while the menu draws it (split_layout.go). A       *)
(* report is read in one step and delivered in a later one.                *)
(*                                                                         *)
(* Left to other modules: the encoders (StreamServer; here a request comes *)
(* when nobody is starting, and an evicted encoder has ended when the next *)
(* handler goes on), commands that overlap (Controller), and the           *)
(* connection, which delivers in order what is written to it (Ipc). The    *)
(* report of the first byte is taken for one of the ticker's, which may    *)
(* come at any time.                                                       *)
(***************************************************************************)
EXTENDS Naturals, Sequences

CONSTANTS
    Requests,  \* how many requests reach handler(), numbered as they come
    Fonts      \* whether the UI can load the fonts of its own menu

ASSUME ScreenAssumption == Requests \in Nat /\ Fonts \in BOOLEAN

VARIABLES
    state,    \* c.state
    up,       \* the stream server takes requests
    ctl,      \* where the handling of a command is
    active,   \* whose encoder is s.activeEncoder, or 0
    metrics,  \* s.connected, and whose address is s.lastClientAddr
    pc,       \* where each handler is
    say,      \* the s.connected a handler has read and not yet sent, if any
    ticking,  \* the handlers whose ticker goroutine runs
    late,     \* the s.connected that goroutine has read and not yet sent
    word,     \* the state the status ticker has read and not yet sent, if any
    inbox,    \* the command on its way to the daemon
    upc,      \* where the UI is
    ms,       \* latestState
    items,    \* what the first item of the menu on the screen does
    before    \* history: who had still to clean up when a served one connected

daemon == <<state, up, ctl>>
tickers == <<ticking, late>>
server == <<active, metrics, pc, say, tickers, before>>
ui     == <<upc, ms, items>>
vars   == <<daemon, server, word, inbox, ui>>

Handlers == 1..Requests
NoClient == [connected |-> FALSE, client |-> 0]
NoMenuState == [state |-> "", connected |-> FALSE, recent |-> FALSE]

Init ==
    /\ state = "idle" /\ up = FALSE /\ ctl = "ready"
    /\ active = 0 /\ metrics = NoClient
    /\ pc = [h \in Handlers |-> "new"]
    /\ say = [h \in Handlers |-> {}]
    /\ ticking = {} /\ late = [h \in Handlers |-> {}]
    /\ word = {} /\ inbox = <<>>
    /\ upc = "off" /\ ms = NoMenuState /\ items = "none"
    /\ before = [h \in Handlers |-> {}]

Goto(h, l) == pc' = [pc EXCEPT ![h] = l]

-----------------------------------------------------------------------------
(* The events, as the UI takes them *)

Listening == upc \in {"waiting", "menu"}

(* Mutant: a new state keeps what was heard of the client. *)
TellState_Keep(s) == ms' = IF Listening THEN [ms EXCEPT !.state = s] ELSE ms

(* A state event replaces everything. *)
TellState(s) ==
    ms' = IF Listening THEN [NoMenuState EXCEPT !.state = s] ELSE ms

(* A client that goes within 2 s of its last report is taken for a stall.   *)
TellBitrate(c) ==
    ms' = IF Listening THEN [ms EXCEPT !.connected = c \/ (@ /\ ms.recent),
                                       !.recent    = c \/ @]
                       ELSE ms

-----------------------------------------------------------------------------
(* handler *)

AtWork(h) == pc[h] \notin {"new", "gone"}

(* The next request comes once the last is served or over, and takes its    *)
(* encoder's place.                                                         *)
Arrive(h) ==
    /\ up /\ pc[h] = "new"
    /\ \A g \in 1..(h - 1) : pc[g] \notin {"new", "connect", "first", "start", "second"}
    /\ active' = h
    /\ Goto(h, "connect")
    /\ UNCHANGED <<daemon, metrics, say, tickers, before, word, inbox, ui>>

Connect(h) ==
    /\ pc[h] = "connect"
    /\ metrics' = [connected |-> TRUE, client |-> h]
    /\ before' = [before EXCEPT ![h] = {g \in Handlers : pc[g] \in {"serve", "ended"}}]
    /\ Goto(h, "first")
    /\ UNCHANGED <<daemon, active, say, tickers, word, inbox, ui>>

(* emitMetrics: read under metricsMu, then call OnMetrics without it *)
ReadStats(h) ==
    /\ pc[h] \in {"first", "second", "last"} /\ say[h] = {}
    /\ say' = [say EXCEPT ![h] = {metrics.connected}]
    /\ UNCHANGED <<daemon, active, metrics, pc, tickers, before, word, inbox, ui>>

(* After the first report the ticker starts, after the last it is stopped. *)
SendStats(h) ==
    /\ \E c \in say[h] : TellBitrate(c)
    /\ say' = [say EXCEPT ![h] = {}]
    /\ Goto(h, [first |-> "start", second |-> "serve", last |-> "gone"][pc[h]])
    /\ ticking' = IF pc[h] = "first" THEN ticking \cup {h} ELSE ticking
    /\ UNCHANGED <<daemon, active, metrics, late, before, word, inbox, upc, items>>

Started(h) ==
    /\ pc[h] = "start"
    /\ Goto(h, "second")
    /\ UNCHANGED <<daemon, active, metrics, say, tickers, before, word, inbox, ui>>

(* Start fails, the client leaves, the encoder ends or is stopped: the      *)
(* deferred cleanup releases activeEncoder, also in an evicted handler,     *)
End(h) ==
    /\ pc[h] \in {"start", "serve"}
    /\ active' = IF active = h THEN 0 ELSE active
    /\ before' = [before EXCEPT ![h] = {}]
    /\ Goto(h, "ended")
    /\ UNCHANGED <<daemon, metrics, say, tickers, word, inbox, ui>>

(* Mutant: the address of the last client goes with the client. *)
Unshow_Address(h) ==
    /\ pc[h] = "ended"
    /\ metrics' = NoClient
    /\ Goto(h, "last")
    /\ UNCHANGED <<daemon, active, say, tickers, before, word, inbox, ui>>

(* and then, under another mutex, s.connected = false, whoever is connected *)
(* by now.                                                                  *)
Unshow(h) ==
    /\ pc[h] = "ended"
    /\ metrics' = [metrics EXCEPT !.connected = FALSE]
    /\ Goto(h, "last")
    /\ UNCHANGED <<daemon, active, say, tickers, before, word, inbox, ui>>

(* The ticker goroutine of a handler *)
TickReads(h) ==
    /\ h \in ticking /\ pc[h] # "gone" /\ late[h] = {}
    /\ late' = [late EXCEPT ![h] = {metrics.connected}]
    /\ UNCHANGED <<daemon, active, metrics, pc, say, ticking, before, word, inbox, ui>>

(* Mutant: a report is sent once and not repeated. *)
TickSends_Once(h) ==
    /\ \E c \in late[h] : TellBitrate(c)
    /\ late' = [late EXCEPT ![h] = {}]
    /\ ticking' = ticking \ {h}
    /\ UNCHANGED <<daemon, active, metrics, pc, say, before, word, inbox, upc, items>>

TickSends(h) ==
    /\ \E c \in late[h] : TellBitrate(c)
    /\ late' = [late EXCEPT ![h] = {}]
    /\ UNCHANGED <<daemon, active, metrics, pc, say, ticking, before, word, inbox, upc, items>>

TickStops(h) ==
    /\ h \in ticking /\ pc[h] = "gone" /\ late[h] = {}
    /\ ticking' = ticking \ {h}
    /\ UNCHANGED <<daemon, active, metrics, pc, say, late, before, word, inbox, ui>>

-----------------------------------------------------------------------------
(* The controller: one command at a time, and the status ticker *)

(* start and stop first stop the server, which ends its handlers. *)
TakeCommand ==
    /\ ctl = "ready" /\ inbox # <<>>
    /\ inbox' = <<>>
    /\ \/ Head(inbox) = "get-status" /\ ctl' = "report" /\ UNCHANGED up
       \/ Head(inbox) # "get-status" /\ ctl' = Head(inbox) /\ up' = FALSE
    /\ UNCHANGED <<state, server, word, ui>>

(* stopServer returns when the handlers have; setState(idle) *)
Stopped ==
    /\ ctl \in {"start", "stop"}
    /\ \A h \in Handlers : ~AtWork(h)
    /\ state' = "idle"
    /\ ctl' = IF ctl = "start" THEN "report, run" ELSE "report"
    /\ UNCHANGED <<up, server, word, inbox, ui>>

(* runServer: a new StreamServer, which takes requests, *)
RunServer ==
    /\ ctl = "run"
    /\ up' = TRUE /\ metrics' = NoClient
    /\ ctl' = "running"
    /\ UNCHANGED <<state, active, pc, say, tickers, before, word, inbox, ui>>

(* and then setState(streaming) *)
Streaming ==
    /\ ctl = "running"
    /\ state' = "streaming"
    /\ ctl' = "report"
    /\ UNCHANGED <<up, server, word, inbox, ui>>

(* The broadcast of setState, and the answer to get-status *)
Report ==
    /\ ctl \in {"report", "report, run"}
    /\ TellState(state)
    /\ ctl' = IF ctl = "report" THEN "ready" ELSE "run"
    /\ UNCHANGED <<state, up, server, word, inbox, upc, items>>

(* The status ticker reads the state, and broadcasts what it has read. *)
StatusTick ==
    /\ word = {}
    /\ word' = {state}
    /\ UNCHANGED <<daemon, server, inbox, ui>>

StatusTell ==
    /\ \E s \in word : TellState(s)
    /\ word' = {}
    /\ UNCHANGED <<daemon, server, inbox, upc, items>>

-----------------------------------------------------------------------------
(* The UI *)

(* Run connects; what comes before the handler is registered is dropped. *)
Open ==
    /\ upc = "off"
    /\ upc' = "joined"
    /\ UNCHANGED <<daemon, server, word, inbox, ms, items>>

(* OnEvent, and the request for the status *)
Register ==
    /\ upc = "joined" /\ inbox = <<>>
    /\ upc' = "waiting"
    /\ inbox' = <<"get-status">>
    /\ UNCHANGED <<daemon, server, word, ms, items>>

(* The state has come or 500 ms have passed: RunMainMenu. *)
ShowMenu ==
    /\ upc = "waiting"
    /\ upc' = "menu"
    /\ UNCHANGED <<daemon, server, word, inbox, ms, items>>

(* Two seconds since the last report of a client *)
Age ==
    /\ ms.recent
    /\ ms' = [ms EXCEPT !.recent = FALSE]
    /\ UNCHANGED <<daemon, server, word, inbox, upc, items>>

(* menuItems: the first one *)
Offer(s) == IF s = "streaming" THEN "stop" ELSE "start"

(* Mutant: the items are chosen once. *)
Redraw_Once ==
    /\ upc = "menu" /\ items = "none"
    /\ items' = Offer(ms.state)
    /\ UNCHANGED <<daemon, server, word, inbox, upc, ms>>

(* runSplitMainMenu; the fallback, without fonts, chooses its items once. *)
Redraw ==
    /\ upc = "menu" /\ items # Offer(ms.state)
    /\ Fonts \/ items = "none"
    /\ items' = Offer(ms.state)
    /\ UNCHANGED <<daemon, server, word, inbox, upc, ms>>

(* The user activates the first item as it is drawn. *)
Press ==
    /\ upc = "menu" /\ items # "none" /\ inbox = <<>>
    /\ inbox' = <<items>>
    /\ UNCHANGED <<daemon, server, word, ui>>

(* Quit, the back button, or a redraw without Wi-Fi: the process ends, and  *)
(* with it what it knew. What it has sent is still handled.                 *)
Leave ==
    /\ upc = "menu"
    /\ upc' = "off"
    /\ ms' = NoMenuState /\ items' = "none"
    /\ UNCHANGED <<daemon, server, word, inbox>>

HandlerStep(h) ==
    Connect(h) \/ ReadStats(h) \/ SendStats(h) \/ Started(h) \/ Unshow(h)

TickerStep(h)  == TickReads(h) \/ TickSends(h) \/ TickStops(h)
Control        == TakeCommand \/ Stopped \/ RunServer \/ Streaming \/ Report

Next ==
    \/ \E h \in Handlers : Arrive(h) \/ HandlerStep(h) \/ End(h) \/ TickerStep(h)
    \/ Control
    \/ StatusTick \/ StatusTell
    \/ Open \/ Register \/ ShowMenu \/ Age \/ Redraw \/ Press \/ Leave

Spec == Init /\ [][Next]_vars

(* Goroutines run, an evicted handler and one whose server is stopped end,  *)
(* tickers go on, the UI draws, and two seconds pass. Clients and the user  *)
(* owe nothing.                                                             *)
Fairness ==
    /\ \A h \in Handlers :
        /\ WF_vars(HandlerStep(h) \/ ((active # h \/ ~up) /\ End(h)))
        /\ WF_vars(TickerStep(h))
    /\ WF_vars(Control) /\ WF_vars(StatusTick \/ StatusTell)
    /\ WF_vars(Register \/ ShowMenu \/ Redraw) /\ WF_vars(Age)

FairSpec == Spec /\ Fairness

-----------------------------------------------------------------------------
(* Properties *)

Serving(h) == active = h /\ pc[h] \in {"first", "start", "second", "serve"}

(* The metrics are those of the client that is served: its address always;  *)
(* and if it is said not to be connected, then a handler that was still at  *)
(* work when it connected, evicted or ended by itself, has cleaned up since *)
(* and taken the new client for its own. Nothing else hides a client.       *)
MetricsOfServed ==
    \A h \in Handlers : Serving(h) =>
        /\ metrics.client = h
        /\ metrics.connected \/ \E g \in before[h] : pc[g] \in {"last", "gone"}

(* With a server up for good and a menu on the screen, once nobody is       *)
(* served any more the screen ends up saying so, although a report of the   *)
(* client may be delivered after the report of its end and the last report  *)
(* may be ignored as a stall.                                               *)
DisconnectShown ==
    <>[](\A h \in Handlers : ~AtWork(h)) => <>[](upc = "menu" => ~ms.connected)

(* While clients are served for good, and the metrics call them connected,  *)
(* one is shown as connected again and again, although every status report  *)
(* wipes it off the screen.                                                 *)
ConnectShown ==
    <>[]((\E h \in Handlers : Serving(h)) /\ metrics.connected /\ upc = "menu") =>
        []<>ms.connected

(* Once no command is on its way the menu offers the opposite of what the   *)
(* daemon does, although the UI may have joined in the middle of a change   *)
(* and dropped what came before it listened.                                *)
MenuConverges ==
    <>[](inbox = <<>> /\ ctl = "ready" /\ upc = "menu") => <>[](items = Offer(state))
=============================================================================
