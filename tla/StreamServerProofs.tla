------------------------- MODULE StreamServerProofs -------------------------
(***************************************************************************)
(* For any number of requests and any choice of paths, kinds of encoder    *)
(* and failures: types, no media encoder without its handler, no active    *)
(* encoder that nobody serves, no client shown that nobody will take down; *)
(* and that only an encoder which was stopped before it had started can    *)
(* run beside another one, out of the server's hands or after Stop().      *)
(***************************************************************************)
EXTENDS StreamServer, TLAPS

(* Nothing of an encoder exists before its Start has created it. *)
NotStarted ==
    \A r \in Requests :
        pc[r] \in {"new", "evict", "reap", "connect", "start", "spawn", "failed"} =>
            ~enc[r].made /\ ~enc[r].proc /\ enc[r].loop = "off"

(* Between creating the process and publishing it no loop runs. *)
Unpublished ==
    \A r \in Requests : pc[r] = "publish" => ~enc[r].made /\ enc[r].loop = "off"

(* A process that Stop cannot find is one that is not published yet. *)
Findable ==
    \A r \in Requests :
        enc[r].proc => HasProcess(r) /\ (enc[r].made \/ pc[r] = "publish")

(* An exec encoder has no loop. *)
ExecHasNoLoop ==
    \A r \in Requests : IsExec(r) => enc[r].loop = "off"

(* done is made before the process is, and closed when all has ended. *)
DoneMeansOver ==
    \A r \in Requests :
        /\ enc[r].done = "closed" => ~enc[r].proc /\ enc[r].loop = "over"
        /\ ~IsExec(r) /\ pc[r] \in {"spawn", "publish", "serve", "drain"} =>
               enc[r].done # "nil"

(* The active encoder's handler is between installing and releasing it. *)
ActiveHandled ==
    active # None =>
        \/ pc[active] \in {"connect", "start", "spawn", "publish", "serve", "drain",
                           "failed", "cleanup"}
        \/ req[active].path = "sdp"

(* NoOrphanEncoder is not inductive alone: that a handler may leave "serve" *)
(* rests on what Wait's return says of the process and of the loop.         *)
EncoderInv ==
    /\ NotStarted
    /\ Unpublished
    /\ Findable
    /\ ExecHasNoLoop
    /\ DoneMeansOver
    /\ NoOrphanEncoder

(* NoGhostClient needs to know that only media handlers show their client. *)
ShownByMedia ==
    /\ \A r \in Requests : pc[r] = "connect" => req[r].path # "sdp"
    /\ NoGhostClient

IInv == TypeOK /\ EncoderInv /\ ActiveHandled /\ ShownByMedia

-----------------------------------------------------------------------------
(* What the calls of an encoder leave behind is again an encoder. *)
LEMMA EncoderTypes ==
    ASSUME TypeOK, NEW r \in Requests
    PROVE  /\ Prepared(r) \in Encoders
           /\ Spawned(r) \in Encoders
           /\ Published(r) \in Encoders
           /\ StopEncoder(r) \in [Requests -> Encoders]
<1> DEFINE e == enc[r]
<1>1. e \in Encoders
  BY DEF TypeOK
<1>2. HasProcess(r) \in BOOLEAN /\ (e.proc /\ ~e.made) \in BOOLEAN
  BY <1>1 DEF HasProcess, Encoders
<1>3. Prepared(r) \in Encoders
  BY <1>1 DEF Prepared, Encoders
<1>4. Spawned(r) \in Encoders
  BY <1>1, <1>2 DEF Spawned, Encoders
<1>5. Published(r) \in Encoders
  BY <1>1, <1>2 DEF Published, Encoders
<1>6. StopEncoder(r) \in [Requests -> Encoders]
  BY <1>1, <1>2 DEF StopEncoder, TypeOK, Encoders
<1> QED
  BY <1>3, <1>4, <1>5, <1>6

(* Every step leaves the variables well-typed. *)
LEMMA TypeStep ==
    ASSUME TypeOK, [Next]_vars
    PROVE  TypeOK'
<1> USE StreamServerAssumption
        DEF TypeOK, Goto, HandlerPcs, StopPcs, shared, stats, peers, hist, Catch
<1>1. ASSUME NEW r \in Requests, EvictNone(r) PROVE TypeOK'
  BY <1>1 DEF EvictNone, Install
<1>2. ASSUME NEW r \in Requests, Evict(r) PROVE TypeOK'
  BY <1>2, EncoderTypes DEF Evict
<1>3. ASSUME NEW r \in Requests, Reap(r) PROVE TypeOK'
  BY <1>3 DEF Reap, Install
<1>4. ASSUME NEW r \in Requests, Connect(r) PROVE TypeOK'
  BY <1>4 DEF Connect
<1>5. ASSUME NEW r \in Requests, Start(r) PROVE TypeOK'
  BY <1>5, EncoderTypes DEF Start
<1>6. ASSUME NEW r \in Requests, Spawn(r) PROVE TypeOK'
  BY <1>6, EncoderTypes DEF Spawn
<1>7. ASSUME NEW r \in Requests, SpawnFails(r) PROVE TypeOK'
  BY <1>7 DEF SpawnFails
<1>8. ASSUME NEW r \in Requests, Publish(r) PROVE TypeOK'
  BY <1>8, EncoderTypes DEF Publish
<1>9. ASSUME NEW r \in Requests, StartFailed(r) PROVE TypeOK'
  BY <1>9 DEF StartFailed, Release
<1>10. ASSUME NEW r \in Requests, SeesGone(r) PROVE TypeOK'
  BY <1>10, EncoderTypes DEF SeesGone
<1>11. ASSUME NEW r \in Requests, EncoderDone(r) PROVE TypeOK'
  BY <1>11 DEF EncoderDone, WaitReturns, IsExec
<1>12. ASSUME NEW r \in Requests, Cleanup(r) PROVE TypeOK'
  BY <1>12, EncoderTypes DEF Cleanup, Release
<1>13. ASSUME NEW r \in Requests, Unshow(r) PROVE TypeOK'
  BY <1>13 DEF Unshow
<1>14. ASSUME NEW r \in Requests, LoopEnds(r) PROVE TypeOK'
  <2>1. enc[r] \in Encoders
    OBVIOUS
  <2>2. [enc[r] EXCEPT !.loop = "over"] \in Encoders
    BY <2>1 DEF Encoders
  <2>3. enc' = [enc EXCEPT ![r] = [enc[r] EXCEPT !.loop = "over"]]
    BY <1>14 DEF LoopEnds
  <2> QED
    BY <1>14, <2>2, <2>3 DEF LoopEnds
<1>15. ASSUME NEW r \in Requests, CloseDone(r) PROVE TypeOK'
  <2>1. enc[r] \in Encoders
    OBVIOUS
  <2>2. [enc[r] EXCEPT !.done = "closed"] \in Encoders
    BY <2>1 DEF Encoders
  <2>3. enc' = [enc EXCEPT ![r] = [enc[r] EXCEPT !.done = "closed"]]
    BY <1>15 DEF CloseDone
  <2> QED
    BY <1>15, <2>2, <2>3 DEF CloseDone
<1>16. ASSUME NEW r \in Requests, ProcessExits(r) PROVE TypeOK'
  <2>1. enc[r] \in Encoders
    OBVIOUS
  <2>2. [enc[r] EXCEPT !.proc = FALSE] \in Encoders
    BY <2>1 DEF Encoders
  <2> QED
    BY <1>16, <2>2 DEF ProcessExits
<1>17. ASSUME NEW r \in Requests, Arrive(r) PROVE TypeOK'
  BY <1>17 DEF Arrive
<1>18. ASSUME NEW r \in Requests, Refuse(r) PROVE TypeOK'
  BY <1>18 DEF Refuse
<1>19. ASSUME NEW r \in Requests, Leave(r) PROVE TypeOK'
  BY <1>19 DEF Leave
<1>20. ASSUME NEW r \in Requests, Stall(r) PROVE TypeOK'
  BY <1>20 DEF Stall
<1>21. ASSUME NEW r \in Requests, Resume(r) PROVE TypeOK'
  BY <1>21 DEF Resume
<1>22. ASSUME CallStop PROVE TypeOK'
  BY <1>22 DEF CallStop
<1>23. ASSUME StopNone PROVE TypeOK'
  BY <1>23 DEF StopNone
<1>24. ASSUME StopActive PROVE TypeOK'
  BY <1>24, EncoderTypes DEF StopActive
<1>25. ASSUME StopReap PROVE TypeOK'
  BY <1>25 DEF StopReap
<1>26. ASSUME Shutdown PROVE TypeOK'
  BY <1>26 DEF Shutdown
<1>27. ASSUME UNCHANGED vars PROVE TypeOK'
  BY <1>27 DEF vars
<1> QED
  BY <1>1, <1>2, <1>3, <1>4, <1>5, <1>6, <1>7, <1>8, <1>9, <1>10, <1>11, <1>12, <1>13, <1>14,
     <1>15, <1>16, <1>17, <1>18, <1>19, <1>20, <1>21, <1>22, <1>23, <1>24, <1>25, <1>26, <1>27
  DEF Next, HandlerStep, EncoderStep, ClientStep, StopStep

(* Every step keeps encoders within the life of their handlers. *)
LEMMA EncoderStepInv ==
    ASSUME TypeOK, EncoderInv, [Next]_vars
    PROVE  EncoderInv'
<1> USE StreamServerAssumption
        DEF EncoderInv, NotStarted, Unpublished, Findable, ExecHasNoLoop, DoneMeansOver,
            NoOrphanEncoder, Running, IsExec, HasProcess, TypeOK, Goto, HandlerPcs, StopPcs, Encoders, shared, stats, peers
<1>1. ASSUME NEW r \in Requests, EvictNone(r) PROVE EncoderInv'
  BY <1>1 DEF EvictNone, Install
<1>2. ASSUME NEW r \in Requests, Evict(r) PROVE EncoderInv'
  BY <1>2 DEF Evict, StopEncoder
<1>3. ASSUME NEW r \in Requests, Reap(r) PROVE EncoderInv'
  BY <1>3 DEF Reap, Install
<1>4. ASSUME NEW r \in Requests, Connect(r) PROVE EncoderInv'
  BY <1>4 DEF Connect
<1>5. ASSUME NEW r \in Requests, Start(r) PROVE EncoderInv'
  BY <1>5 DEF Start, Prepared, IsExec
<1>6. ASSUME NEW r \in Requests, Spawn(r) PROVE EncoderInv'
  BY <1>6 DEF Spawn, Spawned, HasProcess
<1>7. ASSUME NEW r \in Requests, SpawnFails(r) PROVE EncoderInv'
  BY <1>7 DEF SpawnFails
<1>8. ASSUME NEW r \in Requests, Publish(r) PROVE EncoderInv'
  <2>1. \A q \in Requests \ {r} : enc'[q] = enc[q] /\ pc'[q] = pc[q]
    BY <1>8 DEF Publish
  <2>2. enc'[r] = Published(r) /\ pc'[r] = IF req[r].path = "sdp" THEN "done" ELSE "serve"
    BY <1>8 DEF Publish
  <2>3. /\ enc'[r].made = HasProcess(r)
        /\ enc'[r].proc = enc[r].proc
        /\ enc'[r].loop = IF IsExec(r) THEN "off" ELSE "on"
        /\ enc'[r].done = enc[r].done
    BY <2>2 DEF Published
  <2> QED
    BY <1>8, <2>1, <2>2, <2>3 DEF Publish
<1>9. ASSUME NEW r \in Requests, StartFailed(r) PROVE EncoderInv'
  BY <1>9 DEF StartFailed, Release
<1>10. ASSUME NEW r \in Requests, SeesGone(r) PROVE EncoderInv'
  BY <1>10 DEF SeesGone, StopEncoder
<1>11. ASSUME NEW r \in Requests, EncoderDone(r) PROVE EncoderInv'
  BY <1>11 DEF EncoderDone, WaitReturns, IsExec
<1>12. ASSUME NEW r \in Requests, Cleanup(r) PROVE EncoderInv'
  BY <1>12 DEF Cleanup, Release, StopEncoder
<1>13. ASSUME NEW r \in Requests, Unshow(r) PROVE EncoderInv'
  BY <1>13 DEF Unshow
<1>14. ASSUME NEW r \in Requests, LoopEnds(r) PROVE EncoderInv'
  BY <1>14 DEF LoopEnds
<1>15. ASSUME NEW r \in Requests, CloseDone(r) PROVE EncoderInv'
  BY <1>15 DEF CloseDone
<1>16. ASSUME NEW r \in Requests, ProcessExits(r) PROVE EncoderInv'
  BY <1>16 DEF ProcessExits
<1>17. ASSUME NEW r \in Requests, Arrive(r) PROVE EncoderInv'
  BY <1>17 DEF Arrive
<1>18. ASSUME NEW r \in Requests, Refuse(r) PROVE EncoderInv'
  BY <1>18 DEF Refuse
<1>19. ASSUME NEW r \in Requests, Leave(r) PROVE EncoderInv'
  BY <1>19 DEF Leave
<1>20. ASSUME NEW r \in Requests, Stall(r) PROVE EncoderInv'
  BY <1>20 DEF Stall
<1>21. ASSUME NEW r \in Requests, Resume(r) PROVE EncoderInv'
  BY <1>21 DEF Resume
<1>22. ASSUME CallStop PROVE EncoderInv'
  BY <1>22 DEF CallStop
<1>23. ASSUME StopNone PROVE EncoderInv'
  BY <1>23 DEF StopNone
<1>24. ASSUME StopActive PROVE EncoderInv'
  BY <1>24 DEF StopActive, StopEncoder
<1>25. ASSUME StopReap PROVE EncoderInv'
  BY <1>25 DEF StopReap
<1>26. ASSUME Shutdown PROVE EncoderInv'
  BY <1>26 DEF Shutdown
<1>27. ASSUME UNCHANGED vars PROVE EncoderInv'
  BY <1>27 DEF vars
<1> QED
  BY <1>1, <1>2, <1>3, <1>4, <1>5, <1>6, <1>7, <1>8, <1>9, <1>10, <1>11, <1>12, <1>13, <1>14,
     <1>15, <1>16, <1>17, <1>18, <1>19, <1>20, <1>21, <1>22, <1>23, <1>24, <1>25, <1>26, <1>27
  DEF Next, HandlerStep, EncoderStep, ClientStep, StopStep

(* Every step keeps the active encoder with a handler. *)
LEMMA ActiveStep ==
    ASSUME TypeOK, ActiveHandled, [Next]_vars
    PROVE  ActiveHandled'
<1> USE StreamServerAssumption DEF ActiveHandled, TypeOK, Goto, HandlerPcs, StopPcs, Encoders, shared, stats, peers
<1>1. ASSUME NEW r \in Requests, EvictNone(r) PROVE ActiveHandled'
  BY <1>1 DEF EvictNone, Install
<1>2. ASSUME NEW r \in Requests, Evict(r) PROVE ActiveHandled'
  BY <1>2 DEF Evict, StopEncoder
<1>3. ASSUME NEW r \in Requests, Reap(r) PROVE ActiveHandled'
  BY <1>3 DEF Reap, Install
<1>4. ASSUME NEW r \in Requests, Connect(r) PROVE ActiveHandled'
  BY <1>4 DEF Connect
<1>5. ASSUME NEW r \in Requests, Start(r) PROVE ActiveHandled'
  BY <1>5 DEF Start, Prepared, IsExec
<1>6. ASSUME NEW r \in Requests, Spawn(r) PROVE ActiveHandled'
  BY <1>6 DEF Spawn, Spawned, HasProcess
<1>7. ASSUME NEW r \in Requests, SpawnFails(r) PROVE ActiveHandled'
  BY <1>7 DEF SpawnFails
<1>8. ASSUME NEW r \in Requests, Publish(r) PROVE ActiveHandled'
  BY <1>8 DEF Publish, Published, HasProcess, IsExec
<1>9. ASSUME NEW r \in Requests, StartFailed(r) PROVE ActiveHandled'
  BY <1>9 DEF StartFailed, Release
<1>10. ASSUME NEW r \in Requests, SeesGone(r) PROVE ActiveHandled'
  BY <1>10 DEF SeesGone, StopEncoder
<1>11. ASSUME NEW r \in Requests, EncoderDone(r) PROVE ActiveHandled'
  BY <1>11 DEF EncoderDone, WaitReturns, IsExec
<1>12. ASSUME NEW r \in Requests, Cleanup(r) PROVE ActiveHandled'
  BY <1>12 DEF Cleanup, Release, StopEncoder
<1>13. ASSUME NEW r \in Requests, Unshow(r) PROVE ActiveHandled'
  BY <1>13 DEF Unshow
<1>14. ASSUME NEW r \in Requests, LoopEnds(r) PROVE ActiveHandled'
  BY <1>14 DEF LoopEnds
<1>15. ASSUME NEW r \in Requests, CloseDone(r) PROVE ActiveHandled'
  BY <1>15 DEF CloseDone
<1>16. ASSUME NEW r \in Requests, ProcessExits(r) PROVE ActiveHandled'
  BY <1>16 DEF ProcessExits
<1>17. ASSUME NEW r \in Requests, Arrive(r) PROVE ActiveHandled'
  BY <1>17 DEF Arrive
<1>18. ASSUME NEW r \in Requests, Refuse(r) PROVE ActiveHandled'
  BY <1>18 DEF Refuse
<1>19. ASSUME NEW r \in Requests, Leave(r) PROVE ActiveHandled'
  BY <1>19 DEF Leave
<1>20. ASSUME NEW r \in Requests, Stall(r) PROVE ActiveHandled'
  BY <1>20 DEF Stall
<1>21. ASSUME NEW r \in Requests, Resume(r) PROVE ActiveHandled'
  BY <1>21 DEF Resume
<1>22. ASSUME CallStop PROVE ActiveHandled'
  BY <1>22 DEF CallStop
<1>23. ASSUME StopNone PROVE ActiveHandled'
  BY <1>23 DEF StopNone
<1>24. ASSUME StopActive PROVE ActiveHandled'
  BY <1>24 DEF StopActive, StopEncoder
<1>25. ASSUME StopReap PROVE ActiveHandled'
  BY <1>25 DEF StopReap
<1>26. ASSUME Shutdown PROVE ActiveHandled'
  BY <1>26 DEF Shutdown
<1>27. ASSUME UNCHANGED vars PROVE ActiveHandled'
  BY <1>27 DEF vars
<1> QED
  BY <1>1, <1>2, <1>3, <1>4, <1>5, <1>6, <1>7, <1>8, <1>9, <1>10, <1>11, <1>12, <1>13, <1>14,
     <1>15, <1>16, <1>17, <1>18, <1>19, <1>20, <1>21, <1>22, <1>23, <1>24, <1>25, <1>26, <1>27
  DEF Next, HandlerStep, EncoderStep, ClientStep, StopStep

(* Every step keeps a shown client with a handler that will take it down. *)
LEMMA GhostStep ==
    ASSUME TypeOK, ShownByMedia, [Next]_vars
    PROVE  ShownByMedia'
<1> USE StreamServerAssumption
        DEF ShownByMedia, NoGhostClient, TypeOK, Goto, HandlerPcs, StopPcs, Encoders, shared, stats, peers
<1>1. ASSUME NEW r \in Requests, EvictNone(r) PROVE ShownByMedia'
  BY <1>1 DEF EvictNone, Install
<1>2. ASSUME NEW r \in Requests, Evict(r) PROVE ShownByMedia'
  BY <1>2 DEF Evict, StopEncoder
<1>3. ASSUME NEW r \in Requests, Reap(r) PROVE ShownByMedia'
  BY <1>3 DEF Reap, Install
<1>4. ASSUME NEW r \in Requests, Connect(r) PROVE ShownByMedia'
  BY <1>4 DEF Connect
<1>5. ASSUME NEW r \in Requests, Start(r) PROVE ShownByMedia'
  BY <1>5 DEF Start, Prepared, IsExec
<1>6. ASSUME NEW r \in Requests, Spawn(r) PROVE ShownByMedia'
  BY <1>6 DEF Spawn, Spawned, HasProcess
<1>7. ASSUME NEW r \in Requests, SpawnFails(r) PROVE ShownByMedia'
  BY <1>7 DEF SpawnFails
<1>8. ASSUME NEW r \in Requests, Publish(r) PROVE ShownByMedia'
  BY <1>8 DEF Publish, Published, HasProcess, IsExec
<1>9. ASSUME NEW r \in Requests, StartFailed(r) PROVE ShownByMedia'
  BY <1>9 DEF StartFailed, Release
<1>10. ASSUME NEW r \in Requests, SeesGone(r) PROVE ShownByMedia'
  BY <1>10 DEF SeesGone, StopEncoder
<1>11. ASSUME NEW r \in Requests, EncoderDone(r) PROVE ShownByMedia'
  BY <1>11 DEF EncoderDone, WaitReturns, IsExec
<1>12. ASSUME NEW r \in Requests, Cleanup(r) PROVE ShownByMedia'
  BY <1>12 DEF Cleanup, Release, StopEncoder
<1>13. ASSUME NEW r \in Requests, Unshow(r) PROVE ShownByMedia'
  BY <1>13 DEF Unshow
<1>14. ASSUME NEW r \in Requests, LoopEnds(r) PROVE ShownByMedia'
  BY <1>14 DEF LoopEnds
<1>15. ASSUME NEW r \in Requests, CloseDone(r) PROVE ShownByMedia'
  BY <1>15 DEF CloseDone
<1>16. ASSUME NEW r \in Requests, ProcessExits(r) PROVE ShownByMedia'
  BY <1>16 DEF ProcessExits
<1>17. ASSUME NEW r \in Requests, Arrive(r) PROVE ShownByMedia'
  BY <1>17 DEF Arrive
<1>18. ASSUME NEW r \in Requests, Refuse(r) PROVE ShownByMedia'
  BY <1>18 DEF Refuse
<1>19. ASSUME NEW r \in Requests, Leave(r) PROVE ShownByMedia'
  BY <1>19 DEF Leave
<1>20. ASSUME NEW r \in Requests, Stall(r) PROVE ShownByMedia'
  BY <1>20 DEF Stall
<1>21. ASSUME NEW r \in Requests, Resume(r) PROVE ShownByMedia'
  BY <1>21 DEF Resume
<1>22. ASSUME CallStop PROVE ShownByMedia'
  BY <1>22 DEF CallStop
<1>23. ASSUME StopNone PROVE ShownByMedia'
  BY <1>23 DEF StopNone
<1>24. ASSUME StopActive PROVE ShownByMedia'
  BY <1>24 DEF StopActive, StopEncoder
<1>25. ASSUME StopReap PROVE ShownByMedia'
  BY <1>25 DEF StopReap
<1>26. ASSUME Shutdown PROVE ShownByMedia'
  BY <1>26 DEF Shutdown
<1>27. ASSUME UNCHANGED vars PROVE ShownByMedia'
  BY <1>27 DEF vars
<1> QED
  BY <1>1, <1>2, <1>3, <1>4, <1>5, <1>6, <1>7, <1>8, <1>9, <1>10, <1>11, <1>12, <1>13, <1>14,
     <1>15, <1>16, <1>17, <1>18, <1>19, <1>20, <1>21, <1>22, <1>23, <1>24, <1>25, <1>26, <1>27
  DEF Next, HandlerStep, EncoderStep, ClientStep, StopStep

LEMMA Inductive == Spec => []IInv
<1>1. Init => IInv
  <2> SUFFICES ASSUME Init PROVE IInv
    OBVIOUS
  <2>1. TypeOK
    BY StreamServerAssumption DEF Init, TypeOK, HandlerPcs, StopPcs, Encoders, Fresh
  <2>2. EncoderInv
    BY StreamServerAssumption
    DEF Init, Fresh, EncoderInv, NotStarted, Unpublished, Findable, ExecHasNoLoop,
        DoneMeansOver, NoOrphanEncoder, Running
  <2>3. ActiveHandled /\ ShownByMedia
    BY StreamServerAssumption DEF Init, ActiveHandled, ShownByMedia, NoGhostClient
  <2> QED
    BY <2>1, <2>2, <2>3 DEF IInv
<1>2. IInv /\ [Next]_vars => IInv'
  BY TypeStep, EncoderStepInv, ActiveStep, GhostStep DEF IInv
<1> QED
  BY <1>1, <1>2, PTL DEF Spec

(* The variables always have their types. *)
THEOREM TypeCorrect == Spec => []TypeOK
<1>1. IInv => TypeOK
  BY DEF IInv
<1> QED
  BY <1>1, Inductive, PTL

(* No interleaving of requests, disconnects, failing starts and Stop() lets *)
(* the encoder of a media request run on without its handler.               *)
THEOREM NoOrphans == Spec => []NoOrphanEncoder
<1>1. IInv => NoOrphanEncoder
  BY DEF IInv, EncoderInv
<1> QED
  BY <1>1, Inductive, PTL

(* The active encoder is always one a handler still looks after. *)
THEOREM ActiveAlwaysServed == Spec => []ActiveServed
<1>1. IInv => ActiveServed
  BY DEF IInv, ActiveHandled, ActiveServed
<1> QED
  BY <1>1, Inductive, PTL

(* Every path through the handler that shows a client takes it down again. *)
THEOREM NoGhosts == Spec => []NoGhostClient
<1>1. IInv => NoGhostClient
  BY DEF IInv, ShownByMedia
<1> QED
  BY <1>1, Inductive, PTL

-----------------------------------------------------------------------------
(* Takeovers, whenever requests and Stop() come *)

(* Who stops the active encoder holds cmdMu until it is reaped, and only    *)
(* what raced can still be underway by then.                                *)
Reaping ==
    /\ \A r \in Requests : pc[r] = "reap" => cmdMu = r
    /\ pc[Stopper] = "reap" => cmdMu = Stopper
    /\ (\E p \in Requests \cup {Stopper} : pc[p] = "reap") =>
          active # None /\ (active \in raced \/ ~Underway(active))

(* Whose encoder is the active one, by the place of its handler. What runs  *)
(* is the active one, unless it raced.                                      *)
SoleOwner ==
    \A r \in Requests :
        /\ pc[r] \in {"new", "evict", "reap"} => active # r
        /\ r \notin raced => /\ Running(r) => active = r
                             /\ Underway(r) => active = r

(* A loop that was never started has no done channel, and nothing runs. *)
NilIsIdle ==
    \A r \in Requests : ~IsExec(r) /\ enc[r].done = "nil" => ~Running(r)

(* The handler of a session description never gets beyond starting. *)
MediaOnly ==
    \A r \in Requests :
        pc[r] \in {"connect", "serve", "drain", "cleanup", "unshow"} => req[r].path # "sdp"

(* Once Stop() has been through, only who came later is active. *)
Emptied == pc[Stopper] \in {"shutdown", "done"} => active = None \/ active \in late

TakeoverInv == Reaping /\ SoleOwner /\ NilIsIdle /\ MediaOnly /\ Emptied

-----------------------------------------------------------------------------
(* Wait returns only when the active encoder has ended, unless it raced, so *)
(* when cmdMu is given back nothing else runs.                              *)
LEMMA Reaped ==
    ASSUME TypeOK, EncoderInv, TakeoverInv,
           \E p \in Requests \cup {Stopper} : pc[p] = "reap",
           WaitReturns(active)
    PROVE  \A q \in Requests \ raced : ~Running(q) /\ ~Underway(q)
<1> SUFFICES ASSUME NEW q \in Requests \ raced, Running(q) \/ Underway(q) PROVE FALSE
  OBVIOUS
<1>1. active = q
  BY DEF TakeoverInv, SoleOwner
<1>2. ~Underway(q) /\ Running(q)
  BY <1>1 DEF TakeoverInv, Reaping
<1>3. CASE IsExec(q)
  <2>1. enc[q].loop = "off" /\ enc[q].proc
    BY <1>2, <1>3 DEF EncoderInv, ExecHasNoLoop, Running
  <2>2. enc[q].made
    BY <1>2, <2>1 DEF EncoderInv, Findable, Underway
  <2> QED
    BY <1>1, <1>3, <2>1, <2>2 DEF WaitReturns
<1>4. CASE ~IsExec(q)
  <2>1. enc[q].done # "nil"
    BY <1>2, <1>4 DEF TakeoverInv, NilIsIdle
  <2>2. enc[q].done # "closed"
    BY <1>2 DEF EncoderInv, DoneMeansOver, Running
  <2>3. enc[q].done \in {"nil", "open", "closed"}
    BY DEF TypeOK, Encoders
  <2> QED
    BY <1>1, <1>4, <2>1, <2>2, <2>3 DEF WaitReturns
<1> QED
  BY <1>3, <1>4

(* Every step keeps what runs in the hands of the active handler. *)
LEMMA TakeoverStep ==
    ASSUME TypeOK, EncoderInv, TakeoverInv, [Next]_vars
    PROVE  TakeoverInv'
<1> USE StreamServerAssumption
        DEF TakeoverInv, Reaping, SoleOwner, NilIsIdle, MediaOnly, Emptied, Underway, Running, IsExec,
            HasProcess, EncoderInv, NotStarted, NoOrphanEncoder, TypeOK, Encoders, Goto,
            shared, stats, peers, hist, Catch
<1>1. ASSUME NEW r \in Requests, EvictNone(r) PROVE TakeoverInv'
  BY <1>1 DEF EvictNone, Install
<1>2. ASSUME NEW r \in Requests, Evict(r) PROVE TakeoverInv'
  BY <1>2 DEF Evict, StopEncoder
<1>3. ASSUME NEW r \in Requests, Reap(r) PROVE TakeoverInv'
  <2>1. \A q \in Requests \ raced : ~Running(q) /\ ~Underway(q)
    BY <1>3, Reaped DEF Reap
  <2> QED
    BY <1>3, <2>1 DEF Reap, Install, Running
<1>4. ASSUME NEW r \in Requests, Connect(r) PROVE TakeoverInv'
  BY <1>4 DEF Connect
<1>5. ASSUME NEW r \in Requests, Start(r) PROVE TakeoverInv'
  BY <1>5 DEF Start, Prepared
<1>6. ASSUME NEW r \in Requests, Spawn(r) PROVE TakeoverInv'
  <2>1. \A q \in Requests \ {r} : enc'[q] = enc[q] /\ pc'[q] = pc[q]
    BY <1>6 DEF Spawn
  <2>2. enc'[r] = Spawned(r) /\ pc'[r] = "publish" /\ pc[r] = "spawn"
    BY <1>6 DEF Spawn
  <2>3. enc'[r].done = enc[r].done /\ enc'[r].loop = enc[r].loop
    BY <2>2 DEF Spawned
  <2>4. ~IsExec(r) => enc[r].done # "nil"
    BY <2>2 DEF DoneMeansOver
  <2> QED
    BY <1>6, <2>1, <2>2, <2>3, <2>4 DEF Spawn
<1>7. ASSUME NEW r \in Requests, SpawnFails(r) PROVE TakeoverInv'
  BY <1>7 DEF SpawnFails
<1>8. ASSUME NEW r \in Requests, Publish(r) PROVE TakeoverInv'
  <2>1. \A q \in Requests \ {r} : enc'[q] = enc[q] /\ pc'[q] = pc[q]
    BY <1>8 DEF Publish
  <2>2. /\ enc'[r] = Published(r) /\ pc[r] = "publish"
        /\ pc'[r] = IF req[r].path = "sdp" THEN "done" ELSE "serve"
    BY <1>8 DEF Publish
  <2>3. enc'[r].done = enc[r].done
    BY <2>2 DEF Published
  <2>4. ~IsExec(r) => enc[r].done # "nil"
    BY <2>2 DEF DoneMeansOver
  <2>5. r \notin raced => active = r
    BY <2>2
  <2> QED
    BY <1>8, <2>1, <2>2, <2>3, <2>4, <2>5 DEF Publish
<1>9. ASSUME NEW r \in Requests, StartFailed(r) PROVE TakeoverInv'
  BY <1>9 DEF StartFailed, Release
<1>10. ASSUME NEW r \in Requests, SeesGone(r) PROVE TakeoverInv'
  BY <1>10 DEF SeesGone, StopEncoder
<1>11. ASSUME NEW r \in Requests, EncoderDone(r) PROVE TakeoverInv'
  BY <1>11 DEF EncoderDone
<1>12. ASSUME NEW r \in Requests, Cleanup(r) PROVE TakeoverInv'
  <2>1. ~Running(r) /\ pc[r] = "cleanup"
    BY <1>12 DEF Cleanup
  <2>2. \A q \in Requests : Running(q)' => Running(q) /\ q # r
    BY <1>12, <2>1 DEF Cleanup, StopEncoder
  <2>3. \A q \in Requests : enc'[q].done = enc[q].done
    BY <1>12 DEF Cleanup, StopEncoder
  <2>4. /\ pc'[r] = "unshow" /\ \A q \in Requests \ {r} : pc'[q] = pc[q]
        /\ pc'[Stopper] = pc[Stopper] /\ UNCHANGED <<req, up, raced, late>>
        /\ cmdMu = None /\ cmdMu' = None
        /\ active' = IF active = r THEN None ELSE active
    BY <1>12 DEF Cleanup, Release
  <2>5. Reaping' /\ Emptied' /\ MediaOnly'
    BY <2>1, <2>4
  <2>6. SoleOwner' /\ NilIsIdle'
    BY <2>1, <2>2, <2>3, <2>4
  <2> QED
    BY <2>5, <2>6
<1>13. ASSUME NEW r \in Requests, Unshow(r) PROVE TakeoverInv'
  BY <1>13 DEF Unshow
<1>14. ASSUME NEW r \in Requests, LoopEnds(r) PROVE TakeoverInv'
  BY <1>14 DEF LoopEnds
<1>15. ASSUME NEW r \in Requests, CloseDone(r) PROVE TakeoverInv'
  BY <1>15 DEF CloseDone
<1>16. ASSUME NEW r \in Requests, ProcessExits(r) PROVE TakeoverInv'
  BY <1>16 DEF ProcessExits
<1>17. ASSUME NEW r \in Requests, Arrive(r) PROVE TakeoverInv'
  BY <1>17 DEF Arrive
<1>18. ASSUME NEW r \in Requests, Refuse(r) PROVE TakeoverInv'
  BY <1>18 DEF Refuse
<1>19. ASSUME NEW r \in Requests, Leave(r) PROVE TakeoverInv'
  BY <1>19 DEF Leave
<1>20. ASSUME NEW r \in Requests, Stall(r) PROVE TakeoverInv'
  BY <1>20 DEF Stall
<1>21. ASSUME NEW r \in Requests, Resume(r) PROVE TakeoverInv'
  BY <1>21 DEF Resume
<1>22. ASSUME CallStop PROVE TakeoverInv'
  BY <1>22 DEF CallStop
<1>23. ASSUME StopNone PROVE TakeoverInv'
  BY <1>23 DEF StopNone
<1>24. ASSUME StopActive PROVE TakeoverInv'
  BY <1>24 DEF StopActive, StopEncoder
<1>25. ASSUME StopReap PROVE TakeoverInv'
  <2>1. \A q \in Requests \ raced : ~Running(q) /\ ~Underway(q)
    BY <1>25, Reaped DEF StopReap
  <2> QED
    BY <1>25, <2>1 DEF StopReap, Running
<1>26. ASSUME Shutdown PROVE TakeoverInv'
  BY <1>26 DEF Shutdown
<1>27. ASSUME UNCHANGED vars PROVE TakeoverInv'
  BY <1>27 DEF vars
<1> QED
  BY <1>1, <1>2, <1>3, <1>4, <1>5, <1>6, <1>7, <1>8, <1>9, <1>10, <1>11, <1>12, <1>13, <1>14,
     <1>15, <1>16, <1>17, <1>18, <1>19, <1>20, <1>21, <1>22, <1>23, <1>24, <1>25, <1>26, <1>27
  DEF Next, HandlerStep, EncoderStep, ClientStep, StopStep

LEMMA TakeoverInductive == Spec => []TakeoverInv
<1>1. Init => TakeoverInv
  BY StreamServerAssumption
  DEF Init, Fresh, TakeoverInv, Reaping, SoleOwner, NilIsIdle, MediaOnly, Emptied, Underway,
      Running
<1>2. IInv /\ TakeoverInv /\ [Next]_vars => TakeoverInv'
  BY TakeoverStep DEF IInv
<1> QED
  BY <1>1, <1>2, Inductive, PTL DEF Spec

(* Whatever takeovers, disconnects, failures and stops overlap: of two      *)
(* encoders that run one was stopped before it had started.                 *)
THEOREM OneEncoder == Spec => []SingleEncoder
<1>1. TakeoverInv => SingleEncoder
  BY DEF TakeoverInv, SoleOwner, SingleEncoder
<1> QED
  BY <1>1, TakeoverInductive, PTL

(* Every other one can be stopped through activeEncoder or by its handler,  *)
(* that of a session description too.                                       *)
THEOREM AlwaysOwned == Spec => []EncoderOwned
<1>1. TakeoverInv => EncoderOwned
  BY DEF TakeoverInv, SoleOwner, EncoderOwned
<1> QED
  BY <1>1, TakeoverInductive, PTL

(* And none runs after Stop() but that of a handler that got cmdMu later.   *)
THEOREM SilentAfterStop == Spec => []StoppedSilent
<1>1. ASSUME IInv, TakeoverInv PROVE StoppedSilent
  BY <1>1, StreamServerAssumption
  DEF IInv, TypeOK, TakeoverInv, SoleOwner, Emptied, StoppedSilent
<1> QED
  BY <1>1, Inductive, TakeoverInductive, PTL
=============================================================================
