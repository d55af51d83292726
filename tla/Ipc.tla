-------------------------------- MODULE Ipc ---------------------------------
(***************************************************************************)
(* The unix socket between UI and daemon: internal/ipc/server.go and       *)
(* client.go. The server has an accept loop, a goroutine per connection    *)
(* that reads commands and calls onCommand, and broadcasts events to all   *)
(* connections. A client has one goroutine that sends and one that reads.  *)
(*                                                                         *)
(* Both directions of a connection are buffers of Cap messages, and a      *)
(* write to a full buffer blocks. Every command is one that is answered by *)
(* a broadcast (get-status); what matters of an event is whether it is the *)
(* answer to a command of the client that reads it.                        *)
(***************************************************************************)
EXTENDS Naturals

CONSTANTS
    Conns,    \* the clients, each of which connects at most once
    Pushers,  \* other goroutines of the daemon that broadcast
    Senders,  \* the clients that send commands
    Silent,   \* the clients that never read their events
    Cap,      \* how many messages a socket buffer holds
    MaxSends, \* bound on the commands of a client
    None      \* no connection

ASSUME IpcAssumption ==
    /\ Conns \cap Pushers = {}
    /\ Senders \subseteq Conns
    /\ Silent \subseteq Conns
    /\ Cap \in Nat \ {0}
    /\ MaxSends \in Nat
    /\ None \notin Conns

VARIABLES
    listener,  \* s.listener
    done,      \* s.done is closed
    acc,       \* where the accept loop is
    fresh,     \* the connections it has accepted and not handed over
    clients,   \* s.clients
    backlog,   \* connections the listener has and accept does not know yet
    link,      \* each client's socket
    cpc,       \* where each client's sending goroutine is
    sent,      \* how many commands it has sent
    owed,      \* how many of them have not been answered
    cmds,      \* the commands in the buffer towards the server
    evs,       \* the events in the buffer towards the client
    pc,        \* where each handle() and each pusher is
    targets,   \* the connections its Broadcast has still to write to
    cur        \* the one of them it is writing to

server == <<listener, done, acc, fresh, clients>>
client == <<cpc, sent>>
socket == <<backlog, link>>
copies == <<targets, cur>>
vars   == <<server, client, socket, owed, cmds, evs, pc, copies>>

Writers == Conns \cup Pushers

Init ==
    /\ listener = "none" /\ done = FALSE /\ acc = "off"
    /\ fresh = {} /\ clients = {} /\ backlog = {}
    /\ link = [c \in Conns |-> "none"]
    /\ cpc = [c \in Conns |-> "off"]
    /\ sent = [c \in Conns |-> 0]
    /\ owed = [c \in Conns |-> 0]
    /\ cmds = [c \in Conns |-> 0]
    /\ evs = [c \in Conns |-> [own |-> 0, other |-> 0]]
    /\ pc = [w \in Writers |-> IF w \in Conns THEN "none" ELSE "idle"]
    /\ targets = [w \in Writers |-> {}]
    /\ cur = [w \in Writers |-> None]

-----------------------------------------------------------------------------
(* Server.Start and Server.Stop *)

Start ==
    /\ listener = "none"
    /\ listener' = "open"
    /\ acc' = "accept"
    /\ UNCHANGED <<done, fresh, clients, client, socket, owed, cmds, evs, pc, copies>>

CloseDone ==
    /\ listener = "open" /\ ~done
    /\ done' = TRUE
    /\ UNCHANGED <<listener, acc, fresh, clients, client, socket, owed, cmds, evs, pc, copies>>

(* Mutant: the listener is closed without closing done first. *)
CloseListener_Silent ==
    /\ listener = "open"
    /\ listener' = "closed"
    /\ backlog' = {}
    /\ link' = [c \in Conns |-> IF c \in backlog THEN "closed" ELSE link[c]]
    /\ UNCHANGED <<done, acc, fresh, clients, client, owed, cmds, evs, pc, copies>>

(* Connections nobody has accepted are reset with the listener. *)
CloseListener ==
    /\ listener = "open" /\ done
    /\ listener' = "closed"
    /\ backlog' = {}
    /\ link' = [c \in Conns |-> IF c \in backlog THEN "closed" ELSE link[c]]
    /\ UNCHANGED <<done, acc, fresh, clients, client, owed, cmds, evs, pc, copies>>

-----------------------------------------------------------------------------
(* accept *)

Accept(c) ==
    /\ acc = "accept" /\ listener = "open" /\ c \in backlog
    /\ backlog' = backlog \ {c}
    /\ fresh' = {c}
    /\ acc' = "register"
    /\ UNCHANGED <<listener, done, clients, client, link, owed, cmds, evs, pc, copies>>

(* The connection is in the map before its goroutine exists. *)
Register ==
    /\ acc = "register"
    /\ clients' = clients \cup fresh
    /\ acc' = "spawn"
    /\ UNCHANGED <<listener, done, fresh, client, socket, owed, cmds, evs, pc, copies>>

Spawn ==
    /\ acc = "spawn"
    /\ pc' = [w \in Writers |-> IF w \in fresh THEN "scan" ELSE pc[w]]
    /\ fresh' = {}
    /\ acc' = "accept"
    /\ UNCHANGED <<listener, done, clients, client, socket, owed, cmds, evs, copies>>

(* Accept fails for good once the listener is closed; without done the loop *)
(* would go round for ever.                                                 *)
AcceptEnds ==
    /\ acc = "accept" /\ listener = "closed" /\ done
    /\ acc' = "over"
    /\ UNCHANGED <<listener, done, fresh, clients, client, socket, owed, cmds, evs, pc, copies>>

-----------------------------------------------------------------------------
(* handle: read a command, handle it, until the client has gone *)

Scan(c) ==
    /\ pc[c] = "scan" /\ cmds[c] > 0
    /\ cmds' = [cmds EXCEPT ![c] = @ - 1]
    /\ pc' = [pc EXCEPT ![c] = "snap"]
    /\ UNCHANGED <<server, client, socket, owed, evs, copies>>

(* Mutant: handle returns without removing the connection. *)
Remove_Not(c) ==
    /\ pc[c] = "scan" /\ cmds[c] = 0 /\ link[c] = "closed"
    /\ pc' = [pc EXCEPT ![c] = "gone"]
    /\ UNCHANGED <<server, client, socket, owed, cmds, evs, copies>>

Remove(c) ==
    /\ pc[c] = "scan" /\ cmds[c] = 0 /\ link[c] = "closed"
    /\ clients' = clients \ {c}
    /\ pc' = [pc EXCEPT ![c] = "gone"]
    /\ UNCHANGED <<listener, done, acc, fresh, client, socket, owed, cmds, evs, copies>>

-----------------------------------------------------------------------------
(* Broadcast: copy the map, then write to each connection without the lock *)

Push(p) ==
    /\ pc[p] = "idle"
    /\ pc' = [pc EXCEPT ![p] = "snap"]
    /\ UNCHANGED <<server, client, socket, owed, cmds, evs, copies>>

(* The next connection to write to: the order of a Go map is any order. *)
Pick(w, conns) ==
    /\ targets' = [targets EXCEPT ![w] = conns]
    /\ IF conns = {} THEN cur' = [cur EXCEPT ![w] = None]
                     ELSE \E c \in conns : cur' = [cur EXCEPT ![w] = c]

(* Mutant: an event goes to everybody but the client that asked for it. *)
Snapshot_Others(w) ==
    /\ pc[w] = "snap"
    /\ Pick(w, clients \ {w})
    /\ pc' = [pc EXCEPT ![w] = "write"]
    /\ UNCHANGED <<server, client, socket, owed, cmds, evs>>

Snapshot(w) ==
    /\ pc[w] = "snap"
    /\ Pick(w, clients)
    /\ pc' = [pc EXCEPT ![w] = "write"]
    /\ UNCHANGED <<server, client, socket, owed, cmds, evs>>

Room(c) == evs[c].own + evs[c].other < Cap

Write(w, c) ==
    /\ pc[w] = "write" /\ cur[w] = c
    /\ link[c] = "open" /\ Room(c)
    /\ evs' = IF w = c THEN [evs EXCEPT ![c].own = @ + 1]
                       ELSE [evs EXCEPT ![c].other = @ + 1]
    /\ Pick(w, targets[w] \ {c})
    /\ UNCHANGED <<server, client, socket, owed, cmds, pc>>

(* The connection is closed; the error is ignored. *)
WriteFails(w, c) ==
    /\ pc[w] = "write" /\ cur[w] = c
    /\ link[c] = "closed"
    /\ Pick(w, targets[w] \ {c})
    /\ UNCHANGED <<server, client, socket, owed, cmds, evs, pc>>

Written(w) ==
    /\ pc[w] = "write" /\ targets[w] = {}
    /\ pc' = [pc EXCEPT ![w] = IF w \in Conns THEN "scan" ELSE "idle"]
    /\ UNCHANGED <<server, client, socket, owed, cmds, evs, copies>>

-----------------------------------------------------------------------------
(* Client *)

Connect(c) ==
    /\ cpc[c] = "off" /\ listener = "open"
    /\ cpc' = [cpc EXCEPT ![c] = "connected"]
    /\ backlog' = backlog \cup {c}
    /\ link' = [link EXCEPT ![c] = "open"]
    /\ UNCHANGED <<server, sent, owed, cmds, evs, pc, copies>>

(* Until a callback is set, readLoop drops what it reads. *)
OnEvent(c) ==
    /\ cpc[c] = "connected"
    /\ cpc' = [cpc EXCEPT ![c] = "ready"]
    /\ UNCHANGED <<server, sent, socket, owed, cmds, evs, pc, copies>>

Send(c) ==
    /\ c \in Senders
    /\ cpc[c] = "ready" /\ sent[c] < MaxSends
    /\ cpc' = [cpc EXCEPT ![c] = "send"]
    /\ UNCHANGED <<server, sent, socket, owed, cmds, evs, pc, copies>>

Encode(c) ==
    /\ cpc[c] = "send" /\ link[c] = "open" /\ cmds[c] < Cap
    /\ cmds' = [cmds EXCEPT ![c] = @ + 1]
    /\ sent' = [sent EXCEPT ![c] = @ + 1]
    /\ owed' = [owed EXCEPT ![c] = @ + 1]
    /\ cpc' = [cpc EXCEPT ![c] = "ready"]
    /\ UNCHANGED <<server, socket, evs, pc, copies>>

EncodeFails(c) ==
    /\ cpc[c] = "send" /\ link[c] = "closed"
    /\ sent' = [sent EXCEPT ![c] = @ + 1]
    /\ cpc' = [cpc EXCEPT ![c] = "ready"]
    /\ UNCHANGED <<server, socket, owed, cmds, evs, pc, copies>>

Close(c) ==
    /\ cpc[c] = "ready"
    /\ cpc' = [cpc EXCEPT ![c] = "closed"]
    /\ link' = [link EXCEPT ![c] = "closed"]
    /\ UNCHANGED <<server, sent, backlog, owed, cmds, evs, pc, copies>>

(* readLoop shares c.mu with Send, which has released it before it writes: *)
(* with c.mu held both sides would wait for each other to read.           *)
Reads(c) == c \notin Silent /\ link[c] = "open"

(* Mutant: readLoop drops the event while Send is busy with the connection. *)
ReadAnswer_TryLock(c) ==
    /\ Reads(c) /\ evs[c].own > 0
    /\ evs' = [evs EXCEPT ![c].own = @ - 1]
    /\ owed' = [owed EXCEPT ![c] = IF cpc[c] \in {"connected", "send"} THEN @ ELSE @ - 1]
    /\ UNCHANGED <<server, client, socket, cmds, pc, copies>>

ReadAnswer(c) ==
    /\ Reads(c) /\ evs[c].own > 0
    /\ evs' = [evs EXCEPT ![c].own = @ - 1]
    /\ owed' = [owed EXCEPT ![c] = IF cpc[c] = "connected" THEN @ ELSE @ - 1]
    /\ UNCHANGED <<server, client, socket, cmds, pc, copies>>

ReadOther(c) ==
    /\ Reads(c) /\ evs[c].other > 0
    /\ evs' = [evs EXCEPT ![c].other = @ - 1]
    /\ UNCHANGED <<server, client, socket, owed, cmds, pc, copies>>

-----------------------------------------------------------------------------
Accepting == (\E c \in Conns : Accept(c)) \/ Register \/ Spawn \/ AcceptEnds
Handle(c) == Scan(c) \/ Remove(c)
Broadcast(w) ==
    \/ Snapshot(w)
    \/ \E c \in Conns : Write(w, c) \/ WriteFails(w, c)
    \/ Written(w)
Sending(c) == Encode(c) \/ EncodeFails(c)
ReadLoop(c) == ReadAnswer(c) \/ ReadOther(c)
User(c) == Connect(c) \/ OnEvent(c) \/ Send(c) \/ Close(c)

Next ==
    \/ Start \/ CloseDone \/ CloseListener
    \/ Accepting
    \/ \E c \in Conns : Handle(c) \/ User(c) \/ Sending(c) \/ ReadLoop(c)
    \/ \E p \in Pushers : Push(p)
    \/ \E w \in Writers : Broadcast(w)

Spec == Init /\ [][Next]_vars

(* Goroutines that can run do. Those that write to one connection queue for *)
(* it, so none of them is passed over for ever: strong fairness. Users, and *)
(* the goroutines that broadcast of themselves, owe nothing.                *)
Fairness ==
    /\ WF_vars(Accepting)
    /\ WF_vars(CloseListener)
    /\ \A c \in Conns : SF_vars(Handle(c) \/ Broadcast(c))
    /\ \A p \in Pushers : SF_vars(Broadcast(p))
    /\ \A c \in Senders : WF_vars(Sending(c))
    /\ \A c \in Conns : WF_vars(ReadLoop(c))

FairSpec == Spec /\ Fairness

-----------------------------------------------------------------------------
(* Properties *)

(* The types of the variables. *)
TypeOK ==
    /\ listener \in {"none", "open", "closed"}
    /\ done \in BOOLEAN
    /\ acc \in {"off", "accept", "register", "spawn", "over"}
    /\ fresh \subseteq Conns /\ clients \subseteq Conns /\ backlog \subseteq Conns
    /\ link \in [Conns -> {"none", "open", "closed"}]
    /\ cpc \in [Conns -> {"off", "connected", "ready", "send", "closed"}]
    /\ sent \in [Conns -> Nat] /\ owed \in [Conns -> Nat] /\ cmds \in [Conns -> Nat]
    /\ evs \in [Conns -> [own : Nat, other : Nat]]
    /\ pc \in [Writers -> {"none", "scan", "gone", "idle", "snap", "write"}]
    /\ targets \in [Writers -> SUBSET Conns]
    /\ cur \in [Writers -> Conns \cup {None}]

(* The answer to a command is under way inside the server. *)
Answering(c) == pc[c] = "snap" \/ (pc[c] = "write" /\ c \in targets[c])

(* No answer is lost while the connection lasts: every command a client has *)
(* no answer to yet is in its buffer, being handled, or on its way back. A  *)
(* client can send as soon as it is connected, so this rests on its being   *)
(* registered before its first command is read.                             *)
NoLostAnswer ==
    \A c \in Conns : link[c] = "open" =>
        owed[c] = cmds[c] + (IF Answering(c) THEN 1 ELSE 0) + evs[c].own

(* A client that stops sending gets an answer to everything it has sent,    *)
(* whatever the buffers' size: nobody ends up waiting for the other side to *)
(* read first.                                                              *)
AllAnswered == \A c \in Senders : owed[c] > 0 ~> owed[c] = 0 \/ link[c] = "closed"

(* The map holds a connection from before its first command is read until   *)
(* its goroutine returns, neither less (events would pass it by) nor more   *)
(* (every broadcast would write to it for as long as the daemon lives).     *)
Registered ==
    \A c \in Conns :
        c \in clients <=> \/ acc = "spawn" /\ c \in fresh
                         \/ pc[c] \in {"scan", "snap", "write"}

(* The accept loop ends when the server is stopped, instead of spinning. *)
LoopEnds == listener = "closed" ~> acc = "over"
=============================================================================
