---------------------------- MODULE StreamServer ----------------------------
(***************************************************************************)
(* The HTTP stream server, internal/stream/server.go, with the encoders it *)
(* starts on demand (encoder.go, ffmpeg.go, cedar_encoder.go).             *)
(*                                                                         *)
(* Every request runs handler() on a goroutine of its own and has an       *)
(* encoder of its own; the controller calls Stop() once from another       *)
(* goroutine. They share activeEncoder under cmdMu and the metrics under   *)
(* metricsMu. A step is one critical section, or one call of an encoder.   *)
(*                                                                         *)
(* Kinds of encoder: "exec" is an ffmpeg process; "cedar" is the hardware  *)
(* encode loop with an ffmpeg process that muxes its output; "rtp" is the  *)
(* same with a process that sends RTP; "raw" is the loop alone.            *)
(***************************************************************************)
EXTENDS FiniteSets

CONSTANTS
    Requests,  \* the HTTP requests that reach handler()
    Stopper,   \* the goroutine that calls Stop()
    Paths,     \* the endings of the requested paths: "ts", "sdp", "other"
    Kinds,     \* the kinds of encoder GetEncoder returns
    Failing,   \* the kinds whose Start may fail
    Stalls,    \* TRUE if a client may stop reading without disconnecting
    None       \* nil

ASSUME StreamServerAssumption ==
    /\ Stopper \notin Requests
    /\ None \notin Requests \cup {Stopper}
    /\ Paths \subseteq {"ts", "sdp", "other"}
    /\ Kinds \subseteq {"exec", "cedar", "rtp", "raw"}
    /\ Failing \subseteq Kinds
    /\ Stalls \in BOOLEAN

VARIABLES
    pc,         \* where each handler is, and Stop()
    req,        \* the path and the kind of encoder of each request
    enc,        \* the encoder of each request
    active,     \* s.activeEncoder: the request whose encoder it is
    cmdMu,      \* who holds s.cmdMu across a step
    connected,  \* s.connected
    client,     \* s.lastClientAddr
    up,         \* the listener is open
    gone,       \* the requests whose client has disconnected
    stalled,    \* the requests whose client does not read
    raced,      \* history: the requests stopped on the way to their encoder
    late        \* history: those that took the place after Stop() gave it up

shared == <<active, cmdMu, up>>
stats  == <<connected, client>>
peers  == <<gone, stalled>>
hist   == <<raced, late>>
vars   == <<pc, req, enc, shared, stats, peers, hist>>

HandlerPcs == {"new", "evict", "reap", "connect", "start", "spawn", "publish",
               "serve", "drain", "failed", "cleanup", "unshow", "done"}
StopPcs    == {"idle", "lock", "reap", "shutdown", "done"}

(* e.cmd or e.muxCmd is set; the ffmpeg process runs; the encode loop; the *)
(* stop flag; the done channel                                             *)
Encoders == [made : BOOLEAN, proc : BOOLEAN, loop : {"off", "on", "over"},
             flag : BOOLEAN, done : {"nil", "open", "closed"}]
Fresh    == [made |-> FALSE, proc |-> FALSE, loop |-> "off",
             flag |-> FALSE, done |-> "nil"]

Init ==
    /\ pc = [p \in Requests \cup {Stopper} |-> IF p = Stopper THEN "idle" ELSE "new"]
    /\ req \in [Requests -> [path : Paths, kind : Kinds]]
    /\ enc = [r \in Requests |-> Fresh]
    /\ active = None /\ cmdMu = None /\ up = TRUE
    /\ connected = FALSE /\ client = None
    /\ gone = {} /\ stalled = {}
    /\ raced = {} /\ late = {}

Goto(p, l) == pc' = [pc EXCEPT ![p] = l]

-----------------------------------------------------------------------------
(* Encoders: Start in three steps, Stop, Wait, and what they do themselves *)

IsExec(r)     == req[r].kind = "exec"
HasProcess(r) == req[r].kind # "raw"
Running(r)    == enc[r].proc \/ enc[r].loop = "on"

(* Cedar's output is copied to a client that does not take it. *)
Blocked(r) ==
    /\ r \in stalled /\ r \notin gone
    /\ req[r].kind \in {"cedar", "raw"}

Prepared(r) ==
    IF IsExec(r) THEN enc[r] ELSE [enc[r] EXCEPT !.flag = FALSE, !.done = "open"]

Spawned(r) == [enc[r] EXCEPT !.proc = HasProcess(r)]

Published(r) ==
    [enc[r] EXCEPT !.made = HasProcess(r), !.loop = IF IsExec(r) THEN "off" ELSE "on"]

(* Stop takes the command and kills its process; a loop sees the flag later. *)
StopEncoder(r) ==
    [enc EXCEPT ![r].flag = TRUE, ![r].made = FALSE,
                ![r].proc = enc[r].proc /\ ~enc[r].made]

(* Wait returns: there is nothing to wait for yet, or it has ended. *)
WaitReturns(r) ==
    IF IsExec(r) THEN ~enc[r].made \/ ~enc[r].proc
                 ELSE enc[r].done # "open"

(* The encode loop ends because of the flag, of an error or of max_frames. *)
LoopEnds(r) ==
    /\ enc[r].loop = "on"
    /\ ~HasProcess(r) => ~Blocked(r)
    /\ enc' = [enc EXCEPT ![r].loop = "over"]
    /\ UNCHANGED <<pc, req, shared, stats, peers, hist>>

(* The goroutine of a Cedar encoder waits for its process, whose output has *)
(* to be copied to the client, and closes done.                             *)
CloseDone(r) ==
    /\ enc[r].loop = "over" /\ enc[r].done = "open"
    /\ ~enc[r].proc
    /\ HasProcess(r) => ~Blocked(r)
    /\ enc' = [enc EXCEPT ![r].done = "closed"]
    /\ UNCHANGED <<pc, req, shared, stats, peers, hist>>

ProcessExits(r) ==
    /\ enc[r].proc
    /\ enc' = [enc EXCEPT ![r].proc = FALSE]
    /\ UNCHANGED <<pc, req, shared, stats, peers, hist>>

-----------------------------------------------------------------------------
(* handler *)

(* The handler has the place but its encoder does not run yet. *)
Underway(r) == pc[r] \in {"connect", "start", "spawn", "publish"}

(* A Stop that comes while it is underway, which Start does not know of *)
Catch(r) == raced' = IF Underway(r) THEN raced \cup {r} ELSE raced

(* Headers are sent; then the handler goes for cmdMu. *)
Arrive(r) ==
    /\ pc[r] = "new" /\ up
    /\ ~(req[r].path = "ts" /\ req[r].kind = "rtp")
    /\ Goto(r, "evict")
    /\ UNCHANGED <<req, enc, shared, stats, peers, hist>>

(* OPTIONS, no encoder, or a redirection to the session description *)
Refuse(r) ==
    /\ pc[r] = "new" /\ up
    /\ Goto(r, "done")
    /\ UNCHANGED <<req, enc, shared, stats, peers, hist>>

Install(r) ==
    /\ active' = r
    /\ late' = IF pc[Stopper] \in {"shutdown", "done"} THEN late \cup {r} ELSE late
    /\ Goto(r, IF req[r].path = "sdp" THEN "start" ELSE "connect")

EvictNone(r) ==
    /\ pc[r] = "evict" /\ cmdMu = None /\ active = None
    /\ Install(r)
    /\ UNCHANGED <<req, enc, cmdMu, up, stats, peers, raced>>

(* Mutant: the previous encoder is stopped and not waited for. *)
Evict_NoWait(r) ==
    /\ pc[r] = "evict" /\ cmdMu = None /\ active # None
    /\ enc' = StopEncoder(active) /\ Catch(active)
    /\ Install(r)
    /\ UNCHANGED <<req, cmdMu, up, stats, peers>>

(* Stop the previous encoder, then Wait for it with cmdMu held. *)
Evict(r) ==
    /\ pc[r] = "evict" /\ cmdMu = None /\ active # None
    /\ enc' = StopEncoder(active) /\ Catch(active)
    /\ cmdMu' = r
    /\ Goto(r, "reap")
    /\ UNCHANGED <<req, active, up, stats, peers, late>>

(* Mutant: cmdMu is not released after the wait. *)
Reap_KeepLock(r) ==
    /\ pc[r] = "reap" /\ WaitReturns(active)
    /\ Install(r)
    /\ UNCHANGED <<req, enc, cmdMu, up, stats, peers, raced>>

Reap(r) ==
    /\ pc[r] = "reap" /\ WaitReturns(active)
    /\ Install(r)
    /\ cmdMu' = None
    /\ UNCHANGED <<req, enc, up, stats, peers, raced>>

(* Mutant: the path is reported for the address. *)
Connect_Path(r) ==
    /\ pc[r] = "connect"
    /\ connected' = TRUE /\ client' = req[r].path
    /\ Goto(r, "start")
    /\ UNCHANGED <<req, enc, shared, peers, hist>>

Connect(r) ==
    /\ pc[r] = "connect"
    /\ connected' = TRUE /\ client' = r
    /\ Goto(r, "start")
    /\ UNCHANGED <<req, enc, shared, peers, hist>>

(* encoder.Start: reset; create the process; publish it, start the loop *)
Start(r) ==
    /\ pc[r] = "start"
    /\ enc' = [enc EXCEPT ![r] = Prepared(r)]
    /\ Goto(r, "spawn")
    /\ UNCHANGED <<req, shared, stats, peers, hist>>

Spawn(r) ==
    /\ pc[r] = "spawn"
    /\ enc' = [enc EXCEPT ![r] = Spawned(r)]
    /\ Goto(r, "publish")
    /\ UNCHANGED <<req, shared, stats, peers, hist>>

SpawnFails(r) ==
    /\ pc[r] = "spawn" /\ req[r].kind \in Failing
    /\ Goto(r, "failed")
    /\ UNCHANGED <<req, enc, shared, stats, peers, hist>>

(* The handler of a session description returns and leaves the encoder on. *)
Publish(r) ==
    /\ pc[r] = "publish"
    /\ enc' = [enc EXCEPT ![r] = Published(r)]
    /\ Goto(r, IF req[r].path = "sdp" THEN "done" ELSE "serve")
    /\ UNCHANGED <<req, shared, stats, peers, hist>>

(* Mutant: whoever ends clears activeEncoder. *)
Release_Any(r) == active' = None

(* activeEncoder is cleared only by the handler whose encoder it is. *)
Release(r) == active' = IF active = r THEN None ELSE active

(* Mutant: an encoder that did not start stays the active one. *)
StartFailed_Keep(r) ==
    /\ pc[r] = "failed"
    /\ Goto(r, IF req[r].path = "sdp" THEN "done" ELSE "unshow")
    /\ UNCHANGED <<req, enc, shared, stats, peers, hist>>

(* Mutant: the failure path does not reset connected. *)
StartFailed_Shown(r) ==
    /\ pc[r] = "failed" /\ cmdMu = None
    /\ Release(r)
    /\ Goto(r, "done")
    /\ UNCHANGED <<req, enc, cmdMu, up, stats, peers, hist>>

StartFailed(r) ==
    /\ pc[r] = "failed" /\ cmdMu = None
    /\ Release(r)
    /\ Goto(r, IF req[r].path = "sdp" THEN "done" ELSE "unshow")
    /\ UNCHANGED <<req, enc, cmdMu, up, stats, peers, hist>>

(* Mutant: a disconnect leaves stopping the encoder to the cleanup. *)
SeesGone_Skip(r) ==
    /\ pc[r] = "serve" /\ r \in gone
    /\ Goto(r, "cleanup")
    /\ UNCHANGED <<req, enc, shared, stats, peers, hist>>

SeesGone(r) ==
    /\ pc[r] = "serve" /\ r \in gone
    /\ enc' = StopEncoder(r)
    /\ Goto(r, "drain")
    /\ UNCHANGED <<req, shared, stats, peers, hist>>

(* <-waitDone, in either branch of the select *)
EncoderDone(r) ==
    /\ pc[r] \in {"serve", "drain"} /\ WaitReturns(r)
    /\ Goto(r, "cleanup")
    /\ UNCHANGED <<req, enc, shared, stats, peers, hist>>

(* The deferred function: stop the encoder if it is still the active one. *)
Cleanup(r) ==
    /\ pc[r] = "cleanup" /\ cmdMu = None
    /\ enc' = IF active = r THEN StopEncoder(r) ELSE enc
    /\ Release(r)
    /\ Goto(r, "unshow")
    /\ UNCHANGED <<req, cmdMu, up, stats, peers, hist>>

Unshow(r) ==
    /\ pc[r] = "unshow"
    /\ connected' = FALSE
    /\ Goto(r, "done")
    /\ UNCHANGED <<req, enc, shared, client, peers, hist>>

-----------------------------------------------------------------------------
(* Stop *)

CallStop ==
    /\ pc[Stopper] = "idle"
    /\ Goto(Stopper, "lock")
    /\ UNCHANGED <<req, enc, shared, stats, peers, hist>>

StopNone ==
    /\ pc[Stopper] = "lock" /\ cmdMu = None /\ active = None
    /\ Goto(Stopper, "shutdown")
    /\ UNCHANGED <<req, enc, shared, stats, peers, hist>>

(* Mutant: Stop() forgets the active encoder without stopping it. *)
StopActive_Forget ==
    /\ pc[Stopper] = "lock" /\ cmdMu = None /\ active # None
    /\ active' = None
    /\ Goto(Stopper, "shutdown")
    /\ UNCHANGED <<req, enc, cmdMu, up, stats, peers, hist>>

StopActive ==
    /\ pc[Stopper] = "lock" /\ cmdMu = None /\ active # None
    /\ enc' = StopEncoder(active) /\ Catch(active)
    /\ cmdMu' = Stopper
    /\ Goto(Stopper, "reap")
    /\ UNCHANGED <<req, active, up, stats, peers, late>>

StopReap ==
    /\ pc[Stopper] = "reap" /\ WaitReturns(active)
    /\ active' = None
    /\ cmdMu' = None
    /\ Goto(Stopper, "shutdown")
    /\ UNCHANGED <<req, enc, up, stats, peers, hist>>

(* Shutdown closes the listener and gives handlers at most two seconds. *)
Shutdown ==
    /\ pc[Stopper] = "shutdown"
    /\ up' = FALSE
    /\ Goto(Stopper, "done")
    /\ UNCHANGED <<req, enc, active, cmdMu, stats, peers, hist>>

-----------------------------------------------------------------------------
(* Clients *)

Leave(r) ==
    /\ pc[r] \notin {"new", "done"} /\ r \notin gone
    /\ gone' = gone \cup {r}
    /\ UNCHANGED <<pc, req, enc, shared, stats, stalled, hist>>

Stall(r) ==
    /\ Stalls /\ pc[r] = "serve"
    /\ stalled' = stalled \cup {r}
    /\ UNCHANGED <<pc, req, enc, shared, stats, gone, hist>>

Resume(r) ==
    /\ r \in stalled
    /\ stalled' = stalled \ {r}
    /\ UNCHANGED <<pc, req, enc, shared, stats, gone, hist>>

HandlerStep(r) ==
    \/ EvictNone(r) \/ Evict(r) \/ Reap(r)
    \/ Connect(r)
    \/ Start(r) \/ Spawn(r) \/ SpawnFails(r) \/ Publish(r)
    \/ StartFailed(r)
    \/ SeesGone(r) \/ EncoderDone(r)
    \/ Cleanup(r) \/ Unshow(r)

StopStep == StopNone \/ StopActive \/ StopReap \/ Shutdown

EncoderStep(r) == LoopEnds(r) \/ CloseDone(r) \/ ProcessExits(r)

ClientStep(r) == Arrive(r) \/ Refuse(r) \/ Leave(r) \/ Stall(r) \/ Resume(r)

Next ==
    \/ \E r \in Requests : HandlerStep(r) \/ EncoderStep(r) \/ ClientStep(r)
    \/ CallStop
    \/ StopStep

Spec == Init /\ [][Next]_vars

(* Goroutines that can run do; a loop told to stop ends. Nothing is assumed *)
(* of clients, and an encoder left alone may run for ever.                  *)
Fairness ==
    /\ \A r \in Requests :
        /\ WF_vars(HandlerStep(r))
        /\ WF_vars(enc[r].flag /\ LoopEnds(r))
        /\ WF_vars(CloseDone(r))
    /\ WF_vars(StopStep)

FairSpec == Spec /\ Fairness

-----------------------------------------------------------------------------
(* Properties *)

(* The types of the variables. *)
TypeOK ==
    /\ pc \in [Requests \cup {Stopper} -> HandlerPcs \cup StopPcs]
    /\ \A r \in Requests : pc[r] \in HandlerPcs
    /\ pc[Stopper] \in StopPcs
    /\ req \in [Requests -> [path : Paths, kind : Kinds]]
    /\ enc \in [Requests -> Encoders]
    /\ active \in Requests \cup {None}
    /\ cmdMu \in Requests \cup {Stopper, None}
    /\ connected \in BOOLEAN /\ client \in Requests \cup {None}
    /\ up \in BOOLEAN
    /\ gone \subseteq Requests /\ stalled \subseteq Requests
    /\ raced \subseteq Requests /\ late \subseteq Requests

(* A media encoder never outlives the handler that started it: it runs only *)
(* while its handler is there to stop it, whatever takeovers, disconnects,  *)
(* failures and stops overlap.                                              *)
NoOrphanEncoder ==
    \A r \in Requests :
        Running(r) => \/ pc[r] \in {"publish", "serve", "drain"}
                      \/ req[r].path = "sdp"

(* The encoder the server calls the active one belongs to a handler that is *)
(* still at work, so the next takeover stops something that can be stopped. *)
ActiveServed ==
    active # None => pc[active] # "done" \/ req[active].path = "sdp"

(* A client is shown as connected only while some handler has not yet       *)
(* reported its end: no path through handler() forgets to.                  *)
NoGhostClient ==
    connected => \E r \in Requests :
        /\ req[r].path # "sdp"
        /\ pc[r] \in {"start", "spawn", "publish", "serve", "drain",
                      "failed", "cleanup", "unshow"}

(* A takeover waits for the previous encoder to end before it starts its    *)
(* own: if two encoders run, then one of them was stopped before it had     *)
(* started, and started all the same. Nothing else makes two run, whatever  *)
(* takeovers, failures, disconnects and stops overlap.                      *)
SingleEncoder == \A r, q \in Requests \ raced : Running(r) /\ Running(q) => r = q

(* Every encoder of the server, that of a session description too, can      *)
(* still be stopped: it is the active one or its handler is there. Only one *)
(* that was stopped before it had started can be out of reach.              *)
EncoderOwned ==
    \A r \in Requests : Running(r) => active = r \/ pc[r] # "done" \/ r \in raced

(* Stop() leaves nothing running: what runs once it has let go of cmdMu was *)
(* stopped before it had started, or took the place after Stop() had passed *)
(* and before the listener closed.                                          *)
StoppedSilent ==
    pc[Stopper] \in {"shutdown", "done"} =>
        \A r \in Requests : Running(r) => r \in raced \cup late

(* Whoever waits for an encoder is answered: a handler whose client has     *)
(* gone comes to an end, and Stop() returns, as long as no encoder was      *)
(* stopped before it had started.                                           *)
CallersReturn ==
    /\ \A r \in Requests : r \in gone ~> pc[r] = "done" \/ raced # {}
    /\ pc[Stopper] = "lock" ~> pc[Stopper] = "done" \/ raced # {}

(* When the encode loop has ended by itself, the encoder reports its end. *)
LoopEndReported ==
    \A r \in Requests : enc[r].loop = "over" ~> enc[r].done = "closed"
=============================================================================
