----------------------------- MODULE Controller -----------------------------
(***************************************************************************)
(* The daemon's controller, internal/cast/controller.go: what HandleCommand *)
(* does for every command, and the runServer goroutine it starts for each   *)
(* streaming session.                                                       *)
(*                                                                          *)
(* HandleCommand runs on several goroutines at once: one per IPC connection *)
(* (internal/ipc/server.go, handle), and the status ticker of runDaemon.    *)
(* A step of the model is one critical section of c.mu, or one call that    *)
(* changes something outside the controller: cancelling a context, binding  *)
(* or closing the port, writing the configuration file or a connection.     *)
(*                                                                          *)
(* deviceName and errMsg are written in the same critical section as state  *)
(* and sessionStartedAt in the same ones as streamSrv, so they follow from  *)
(* those two and are left out.                                              *)
(***************************************************************************)
EXTENDS Naturals, FiniteSets

CONSTANTS
    Clients,   \* the IPC connections: each has one goroutine calling HandleCommand
    Tickers,   \* the goroutine of runDaemon that asks for the status every 15 s
    Sessions,  \* the contexts startServer may create: the bound on starts
    Settings,  \* values of the settings a restart applies (quality, audio, ...)
    Levels,    \* log levels
    SavesFail, \* TRUE if config.Save may fail (its error is ignored)
    None       \* nil

ASSUME ControllerAssumption ==
    /\ Tickers \cap Clients = {}
    /\ None \notin Sessions
    /\ (Clients \cup Tickers) \cap Sessions = {}
    /\ SavesFail \in BOOLEAN

VARIABLES
    state,      \* c.state
    cancelFn,   \* c.cancelFn: the session it cancels
    streamSrv,  \* c.streamSrv: the session whose server it is
    cfg,        \* *c.cfg
    file,       \* the contents of config.json
    view,       \* the state the last event on the UI's connection carries
    port,       \* the session whose server is bound to :7979
    cancelled,  \* the sessions whose context is done
    wifi,       \* what hasWiFi answers
    pc,         \* where each goroutine is
    more,       \* whether its caller goes on after the next broadcast
    held,       \* what stopServer took out of the controller
    snap,       \* cfgSnap
    event,      \* the event it is about to write
    wanted,     \* history: what the last start or stop command asked for
    calm        \* history: since the last start or stop that found nothing in
                \* flight, no command has come upon another one's work

ctrl  == <<state, cancelFn, streamSrv>>
store == <<cfg, file, snap>>
world == <<port, cancelled, wifi>>
out   == <<view, event>>
hist  == <<wanted, calm>>
vars  == <<ctrl, store, world, out, pc, more, held, hist>>

Workers == Clients \cup Tickers
Actors  == Workers \cup Sessions
States  == {"idle", "streaming", "error"}
Configs == [stream : Settings, log : Levels]
Nothing == [cancel |-> None, srv |-> None]

WorkerPcs  == {"ready", "save", "check", "take", "cancel", "shut", "shown",
               "wifi", "arm", "read", "send"}
SessionPcs == {"new", "wifi", "listen", "publish", "up", "read", "send",
               "wait", "gone"}

(* Daemon start: NewController, an unbound port, a loaded configuration. *)
Init ==
    /\ state = "idle" /\ cancelFn = None /\ streamSrv = None
    /\ cfg \in Configs /\ file = cfg /\ snap = [c \in Clients |-> cfg]
    /\ port = None /\ cancelled = {} /\ wifi \in BOOLEAN
    /\ view = "idle" /\ event = [a \in Actors |-> "idle"]
    /\ pc = [a \in Actors |-> IF a \in Sessions THEN "new" ELSE "ready"]
    /\ more = [a \in Actors |-> FALSE]
    /\ held = [c \in Clients |-> Nothing]
    /\ wanted = "off" /\ calm = TRUE

Goto(a, l) == pc' = [pc EXCEPT ![a] = l]

-----------------------------------------------------------------------------
(* Commands *)

Fresh == {s \in Sessions : pc[s] = "new"}
Busy  == {c \in Clients : pc[c] # "ready"}

(* Bound: a command that may start a session is only sent while every busy *)
(* client could still be given a session of its own.                       *)
MayStart == Cardinality(Fresh) > Cardinality(Busy)

(* Nothing is in flight: no command is being handled and every session has *)
(* ended or is waiting for its cancellation.                               *)
Settled ==
    /\ Busy = {}
    /\ \A s \in Sessions : \/ pc[s] \in {"new", "gone"}
                           \/ pc[s] = "wait" /\ s \notin cancelled

Ready(c) == pc[c] = "ready"

(* A command that may still stop or start a server, and a session that has  *)
(* not reported yet                                                         *)
Stopping(c) == pc[c] \in {"take", "cancel", "shut", "shown"}
Working(c) ==
    \/ Stopping(c)
    \/ pc[c] \in {"check", "wifi", "arm"}
    \/ pc[c] \in {"save", "read", "send"} /\ more[c]
Starting(s) == pc[s] \in {"wifi", "listen", "publish", "up"}

(* Whoever sends a command now finds the effects of the last one. *)
Quiet == /\ \A c \in Clients : ~Working(c)
         /\ \A s \in Sessions : ~Starting(s)

(* Mutant: start does not stop the running session first. *)
CmdStart_NoStop(c) ==
    /\ Ready(c) /\ MayStart
    /\ Goto(c, "wifi")
    /\ more' = [more EXCEPT ![c] = TRUE]
    /\ wanted' = "on"
    /\ calm' = Quiet
    /\ UNCHANGED <<ctrl, store, world, out, held>>

CmdStart(c) ==
    /\ Ready(c) /\ MayStart
    /\ Goto(c, "take")
    /\ more' = [more EXCEPT ![c] = TRUE]
    /\ wanted' = "on"
    /\ calm' = Quiet
    /\ UNCHANGED <<ctrl, store, world, out, held>>

CmdStop(c) ==
    /\ Ready(c)
    /\ Goto(c, "take")
    /\ wanted' = "off"
    /\ calm' = Quiet
    /\ UNCHANGED <<ctrl, store, world, out, more, held>>

(* Mutant: the periodic status is sent only while the daemon is idle. *)
CmdGetStatus_WhenIdle(w) ==
    /\ IF w \in Tickers THEN pc[w] = "ready" /\ state = "idle" ELSE Ready(w)
    /\ Goto(w, "read")
    /\ UNCHANGED <<ctrl, store, world, out, more, held, hist>>

(* get-status, from a client or from the ticker *)
CmdGetStatus(w) ==
    /\ IF w \in Tickers THEN pc[w] = "ready" ELSE Ready(w)
    /\ Goto(w, "read")
    /\ UNCHANGED <<ctrl, store, world, out, more, held, hist>>

(* Mutant: the copy that is saved is taken before the change. *)
CmdSetConfig_OldCopy(c, v) ==
    /\ Ready(c) /\ MayStart
    /\ cfg' = [cfg EXCEPT !.stream = v]
    /\ snap' = [snap EXCEPT ![c] = cfg]
    /\ more' = [more EXCEPT ![c] = cfg.stream # v]
    /\ calm' = (calm /\ Quiet)
    /\ Goto(c, "save")
    /\ UNCHANGED <<ctrl, file, world, out, held, wanted>>

(* set-quality, set-audio, set-encoder and set-transport: update and copy   *)
(* the configuration under c.mu, noting whether anything changed.           *)
CmdSetConfig(c, v) ==
    /\ Ready(c) /\ MayStart
    /\ cfg' = [cfg EXCEPT !.stream = v]
    /\ snap' = [snap EXCEPT ![c] = cfg']
    /\ more' = [more EXCEPT ![c] = cfg.stream # v]
    /\ calm' = (calm /\ Quiet)
    /\ Goto(c, "save")
    /\ UNCHANGED <<ctrl, file, world, out, held, wanted>>

CmdSetLogLevel(c, l) ==
    /\ Ready(c)
    /\ cfg' = [cfg EXCEPT !.log = l]
    /\ snap' = [snap EXCEPT ![c] = cfg']
    /\ Goto(c, "save")
    /\ UNCHANGED <<ctrl, file, world, out, more, held, hist>>

(* config.Save of the copy, after c.mu was released *)
Save(c) ==
    /\ pc[c] = "save"
    /\ file' \in {snap[c]} \cup (IF SavesFail THEN {file} ELSE {})
    /\ Goto(c, IF more[c] THEN "check" ELSE "ready")
    /\ UNCHANGED <<ctrl, cfg, snap, world, out, more, held, hist>>

(* Mutant: a change of a setting starts a server that was not running. *)
CheckStreaming_Always(c) ==
    /\ pc[c] = "check"
    /\ Goto(c, "take")
    /\ UNCHANGED <<ctrl, store, world, out, more, held, hist>>

(* The two reads of State() before a restart. A restart happens only if the *)
(* second one finds "streaming" too, so the model keeps that one.           *)
CheckStreaming(c) ==
    /\ pc[c] = "check"
    /\ Goto(c, IF state = "streaming" THEN "take" ELSE "ready")
    /\ more' = [more EXCEPT ![c] = state = "streaming"]
    /\ UNCHANGED <<ctrl, store, world, out, held, hist>>

-----------------------------------------------------------------------------
(* setState and Broadcast *)

SetState(a, s) ==
    /\ state' = s
    /\ Goto(a, "read")

(* currentStateEvent: the event is built from the state as it is now, which *)
(* need not be the one this goroutine set.                                  *)
ReadEvent(a) ==
    /\ pc[a] = "read"
    /\ event' = [event EXCEPT ![a] = state]
    /\ Goto(a, "send")
    /\ UNCHANGED <<ctrl, store, world, view, more, held, hist>>

(* Where a goroutine goes on after its broadcast *)
After(a) ==
    IF a \in Workers THEN IF more[a] THEN "wifi" ELSE "ready"
                     ELSE IF more[a] THEN "wait" ELSE "gone"

Send(a) ==
    /\ pc[a] = "send"
    /\ view' = event[a]
    /\ event' = [event EXCEPT ![a] = "idle"]
    /\ Goto(a, After(a))
    /\ UNCHANGED <<ctrl, store, world, more, held, hist>>

-----------------------------------------------------------------------------
(* stopServer *)

(* Mutant: the server stays in the controller while it is being stopped. *)
TakeServer_Keep(c) ==
    /\ pc[c] = "take"
    /\ held' = [held EXCEPT ![c] = [cancel |-> cancelFn, srv |-> streamSrv]]
    /\ cancelFn' = None
    /\ Goto(c, "cancel")
    /\ UNCHANGED <<state, streamSrv, store, world, out, more, hist>>

TakeServer(c) ==
    /\ pc[c] = "take"
    /\ held' = [held EXCEPT ![c] = [cancel |-> cancelFn, srv |-> streamSrv]]
    /\ cancelFn' = None
    /\ streamSrv' = None
    /\ Goto(c, "cancel")
    /\ UNCHANGED <<state, store, world, out, more, hist>>

Cancel(c) ==
    /\ pc[c] = "cancel"
    /\ cancelled' = cancelled \cup ({held[c].cancel} \ {None})
    /\ Goto(c, "shut")
    /\ UNCHANGED <<ctrl, store, port, wifi, out, more, held, hist>>

(* Mutant: the context is cancelled and the server never stopped. *)
Shut_KeepServer(c) ==
    /\ pc[c] = "shut"
    /\ held' = [held EXCEPT ![c] = Nothing]
    /\ Goto(c, "shown")
    /\ UNCHANGED <<ctrl, store, world, out, more, hist>>

(* streamSrv.Stop() closes the listener of that server, outside c.mu. It    *)
(* may take seconds, and until it has returned the state is the old one.    *)
Shut(c) ==
    /\ pc[c] = "shut"
    /\ port' = IF port = held[c].srv THEN None ELSE port
    /\ held' = [held EXCEPT ![c] = Nothing]
    /\ Goto(c, "shown")
    /\ UNCHANGED <<ctrl, store, cancelled, wifi, out, more, hist>>

(* setState(idle), whether there was a server or not *)
ShowIdle(c) ==
    /\ pc[c] = "shown"
    /\ SetState(c, "idle")
    /\ UNCHANGED <<cancelFn, streamSrv, store, world, out, more, held, hist>>

-----------------------------------------------------------------------------
(* startServer, after its stopServer *)

CheckWiFi(c) ==
    /\ pc[c] = "wifi"
    /\ wifi
    /\ Goto(c, "arm")
    /\ UNCHANGED <<ctrl, store, world, out, more, held, hist>>

NoWiFi(c) ==
    /\ pc[c] = "wifi"
    /\ ~wifi
    /\ SetState(c, "error")
    /\ more' = [more EXCEPT ![c] = FALSE]
    /\ UNCHANGED <<cancelFn, streamSrv, store, world, out, held, hist>>

(* Publish the new context's cancel function and start its goroutine. *)
Arm(c, s) ==
    /\ pc[c] = "arm"
    /\ pc[s] = "new"
    /\ cancelFn' = s
    /\ pc' = [pc EXCEPT ![c] = "ready", ![s] = "wifi"]
    /\ more' = [more EXCEPT ![c] = FALSE, ![s] = TRUE]
    /\ UNCHANGED <<state, streamSrv, store, world, out, held, hist>>

-----------------------------------------------------------------------------
(* runServer *)

(* Mutant: a session that fails returns without a word. *)
SessionFails_Silent(s) ==
    /\ \/ pc[s] = "wifi" /\ ~wifi
       \/ pc[s] = "listen" /\ port # None
    /\ Goto(s, "gone")
    /\ more' = [more EXCEPT ![s] = FALSE]
    /\ UNCHANGED <<ctrl, store, world, out, held, hist>>

(* hasWiFi fails, or stream.Start cannot bind :7979: report and return. *)
SessionFails(s) ==
    /\ \/ pc[s] = "wifi" /\ ~wifi
       \/ pc[s] = "listen" /\ port # None
    /\ SetState(s, "error")
    /\ more' = [more EXCEPT ![s] = FALSE]
    /\ UNCHANGED <<cancelFn, streamSrv, store, world, out, held, hist>>

SessionHasWiFi(s) ==
    /\ pc[s] = "wifi" /\ wifi
    /\ Goto(s, "listen")
    /\ UNCHANGED <<ctrl, store, world, out, more, held, hist>>

Listen(s) ==
    /\ pc[s] = "listen" /\ port = None
    /\ port' = s
    /\ Goto(s, "publish")
    /\ UNCHANGED <<ctrl, store, cancelled, wifi, out, more, held, hist>>

(* Mutant: a session that finds itself cancelled forgets its server. *)
Publish_Forget(s) ==
    /\ pc[s] = "publish"
    /\ IF s \in cancelled
       THEN Goto(s, "gone") /\ UNCHANGED streamSrv
       ELSE Goto(s, "up") /\ streamSrv' = s
    /\ UNCHANGED <<state, cancelFn, store, world, out, more, held, hist>>

Publish(s) ==
    /\ pc[s] = "publish"
    /\ streamSrv' = s
    /\ Goto(s, "up")
    /\ UNCHANGED <<state, cancelFn, store, world, out, more, held, hist>>

SessionUp(s) ==
    /\ pc[s] = "up"
    /\ SetState(s, "streaming")
    /\ UNCHANGED <<cancelFn, streamSrv, store, world, out, more, held, hist>>

(* <-ctx.Done(), and the goroutine ends *)
SessionDone(s) ==
    /\ pc[s] = "wait" /\ s \in cancelled
    /\ Goto(s, "gone")
    /\ UNCHANGED <<ctrl, store, world, out, more, held, hist>>

-----------------------------------------------------------------------------
(* The network interface comes and goes. *)
WiFiChanges ==
    /\ wifi' = ~wifi
    /\ UNCHANGED <<ctrl, store, port, cancelled, out, pc, more, held, hist>>

Command(c) ==
    \/ CmdStart(c)
    \/ CmdStop(c)
    \/ CmdGetStatus(c)
    \/ \E v \in Settings : CmdSetConfig(c, v)
    \/ \E l \in Levels : CmdSetLogLevel(c, l)

ClientStep(c) ==
    \/ Save(c)
    \/ CheckStreaming(c)
    \/ TakeServer(c)
    \/ Cancel(c)
    \/ Shut(c)
    \/ ShowIdle(c)
    \/ CheckWiFi(c)
    \/ NoWiFi(c)
    \/ \E s \in Sessions : Arm(c, s)

SessionStep(s) ==
    \/ SessionFails(s)
    \/ SessionHasWiFi(s)
    \/ Listen(s)
    \/ Publish(s)
    \/ SessionUp(s)
    \/ SessionDone(s)

Push(a) == ReadEvent(a) \/ Send(a)

Next ==
    \/ \E c \in Clients : Command(c) \/ ClientStep(c)
    \/ \E t \in Tickers : CmdGetStatus(t)
    \/ \E s \in Sessions : SessionStep(s)
    \/ \E a \in Actors : Push(a)
    \/ WiFiChanges

Spec == Init /\ [][Next]_vars

(* Goroutines that can run do run, and the 15 s ticker keeps firing; the    *)
(* clients and the network owe nothing.                                     *)
Fairness ==
    /\ \A c \in Clients : WF_vars(ClientStep(c))
    /\ \A s \in Sessions : WF_vars(SessionStep(s))
    /\ \A a \in Actors : WF_vars(Push(a))
    /\ \A t \in Tickers : WF_vars(CmdGetStatus(t))

FairSpec == Spec /\ Fairness

-----------------------------------------------------------------------------
(* Properties *)

(* The types of the variables. *)
TypeOK ==
    /\ state \in States
    /\ cancelFn \in Sessions \cup {None}
    /\ streamSrv \in Sessions \cup {None}
    /\ cfg \in Configs /\ file \in Configs /\ snap \in [Clients -> Configs]
    /\ view \in States /\ event \in [Actors -> States]
    /\ port \in Sessions \cup {None}
    /\ cancelled \subseteq Sessions
    /\ wifi \in BOOLEAN
    /\ pc \in [Actors -> WorkerPcs \cup SessionPcs]
    /\ \A w \in Workers : pc[w] \in WorkerPcs
    /\ \A s \in Sessions : pc[s] \in SessionPcs
    /\ more \in [Actors -> BOOLEAN]
    /\ held \in [Clients -> [cancel : Sessions \cup {None}, srv : Sessions \cup {None}]]
    /\ wanted \in {"on", "off"} /\ calm \in BOOLEAN

(* The server that holds :7979 can always be stopped: it is in the          *)
(* controller, or its session is about to put it there, or a stopServer has *)
(* taken it and will close it. No order of start, stop and restart from     *)
(* several connections leaves the port with a server nobody knows.          *)
PortOwned ==
    port # None => \/ streamSrv = port
                   \/ pc[port] = "publish"
                   \/ \E c \in Clients : held[c].srv = port

(* The server in the controller is listening: a stopServer never leaves a   *)
(* closed one behind, whatever sessions and stops overlap.                  *)
ServerListens == streamSrv # None => port = streamSrv

(* Commands may come at any time, and those that overtake each other, or a  *)
(* session that is still starting, can leave a server nobody asked for and  *)
(* a state that is not true. That never outlives the next start or stop     *)
(* which is left alone: from then on, whenever nothing is in flight, the    *)
(* state is "streaming" exactly when a server is listening, and after a     *)
(* stop it is idle, and so the port is free.                                *)
StateTruthful ==
    calm /\ Quiet => /\ state = "streaming" <=> port # None
                     /\ wanted = "off" => state = "idle"

(* A stop frees the port, whenever it comes. *)
NoServerAfterStop == Settled /\ wanted = "off" => port = None

(* No session goroutine waits for a cancellation nobody can send any more.  *)
NoLostCancel ==
    \A s \in Sessions : pc[s] = "wait" /\ s \notin cancelled =>
        \/ cancelFn = s
        \/ \E c \in Clients : pc[c] = "cancel" /\ held[c].cancel = s

(* With nothing in flight, config.json holds the configuration in use.      *)
PersistedConfig == Settled => file = cfg

(* Once commands stop coming the UI ends up with the true state, although   *)
(* the events of concurrent broadcasts reach it in any order: the ticker    *)
(* repeats the state until the last event is a current one.                 *)
StatusConverges == <>[]Settled => <>[](view = state)

(* The controller implements the contract of Session, whenever commands     *)
(* come and in every order of its steps: while they do not overtake each    *)
(* other it serves only when asked, a change of the settings never starts a *)
(* server the user stopped, it reports a server only once it is bound, and  *)
(* takes the report back after closing it and before it opens the next.     *)
Contract == INSTANCE Session WITH asked <- wanted, serving <- port # None, told <- state

KeepsContract == Contract!Spec

(* A start is answered: once the previous server is stopped, the controller *)
(* ends up reporting that it streams or why it does not.                    *)
StartAnswered ==
    (\E c \in Clients : pc[c] = "wifi") ~> state \in {"streaming", "error"}
=============================================================================
