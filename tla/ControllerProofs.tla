-------------------------- MODULE ControllerProofs --------------------------
(***************************************************************************)
(* For any number of connections, sessions and settings, and commands that *)
(* come at any time: the variables of the controller keep their types, the *)
(* server bound to :7979 has exactly one owner that can close it, whatever *)
(* commands do to each other is mended by the next start or stop that is   *)
(* left alone, and the controller implements Session. For one connection   *)
(* no cancellation is lost and the file holds what is in use.              *)
(***************************************************************************)
EXTENDS Controller, TLAPS

(* A session about to publish its server owns the port alone. *)
Publishing ==
    \A s \in Sessions : pc[s] = "publish" =>
        /\ port = s
        /\ streamSrv # s
        /\ \A c \in Clients : held[c].srv # s

(* A server taken by stopServer is the one that listens, and nobody else's. *)
Taken ==
    \A c \in Clients : held[c].srv # None =>
        /\ port = held[c].srv
        /\ streamSrv # held[c].srv
        /\ \A d \in Clients \ {c} : held[d].srv # held[c].srv

(* stopServer holds something only between taking it and closing it. *)
HeldAt == \A c \in Clients : pc[c] \in {"cancel", "shut"} \/ held[c] = Nothing

(* What makes PortOwned and ServerListens inductive: without the first three *)
(* publishing could overwrite a server that is still there, and closing the  *)
(* port could pull it from under a second owner.                             *)
Ownership ==
    /\ Publishing
    /\ Taken
    /\ HeldAt
    /\ ServerListens
    /\ PortOwned

IInv == TypeOK /\ Ownership

-----------------------------------------------------------------------------
(* Every step of the controller leaves the variables well-typed. *)
LEMMA TypeStep ==
    ASSUME TypeOK, [Next]_vars
    PROVE  TypeOK'
<1> USE ControllerAssumption
        DEF TypeOK, Goto, Nothing, Workers, Actors, WorkerPcs, SessionPcs,
            ctrl, store, world, out, hist
<1>1. ASSUME NEW c \in Clients, CmdStart(c) PROVE TypeOK'
  <2>1. Quiet \in BOOLEAN
    BY DEF Quiet
  <2> QED
    BY <1>1, <2>1 DEF CmdStart, Ready
<1>2. ASSUME NEW c \in Clients, CmdStop(c) PROVE TypeOK'
  <2>1. Quiet \in BOOLEAN
    BY DEF Quiet
  <2> QED
    BY <1>2, <2>1 DEF CmdStop, Ready
<1>3. ASSUME NEW c \in Clients, CmdGetStatus(c) PROVE TypeOK'
  BY <1>3 DEF CmdGetStatus, Ready
<1>4. ASSUME NEW c \in Clients, NEW v \in Settings, CmdSetConfig(c, v) PROVE TypeOK'
  BY <1>4 DEF CmdSetConfig, Ready, Configs
<1>5. ASSUME NEW c \in Clients, NEW l \in Levels, CmdSetLogLevel(c, l) PROVE TypeOK'
  BY <1>5 DEF CmdSetLogLevel, Ready, Configs
<1>6. ASSUME NEW c \in Clients, Save(c) PROVE TypeOK'
  BY <1>6 DEF Save
<1>7. ASSUME NEW c \in Clients, CheckStreaming(c) PROVE TypeOK'
  BY <1>7 DEF CheckStreaming
<1>8. ASSUME NEW c \in Clients, TakeServer(c) PROVE TypeOK'
  BY <1>8 DEF TakeServer
<1>9. ASSUME NEW c \in Clients, Cancel(c) PROVE TypeOK'
  BY <1>9 DEF Cancel
<1>10. ASSUME NEW c \in Clients, Shut(c) PROVE TypeOK'
  BY <1>10 DEF Shut
<1>11. ASSUME NEW c \in Clients, CheckWiFi(c) PROVE TypeOK'
  BY <1>11 DEF CheckWiFi
<1>12. ASSUME NEW c \in Clients, NoWiFi(c) PROVE TypeOK'
  BY <1>12 DEF NoWiFi, SetState, States
<1>13. ASSUME NEW c \in Clients, NEW s \in Sessions, Arm(c, s) PROVE TypeOK'
  BY <1>13 DEF Arm
<1>14. ASSUME NEW t \in Tickers, CmdGetStatus(t) PROVE TypeOK'
  BY <1>14 DEF CmdGetStatus
<1>15. ASSUME NEW s \in Sessions, SessionFails(s) PROVE TypeOK'
  BY <1>15 DEF SessionFails, SetState, States
<1>16. ASSUME NEW s \in Sessions, SessionHasWiFi(s) PROVE TypeOK'
  BY <1>16 DEF SessionHasWiFi
<1>17. ASSUME NEW s \in Sessions, Listen(s) PROVE TypeOK'
  BY <1>17 DEF Listen
<1>18. ASSUME NEW s \in Sessions, Publish(s) PROVE TypeOK'
  BY <1>18 DEF Publish
<1>19. ASSUME NEW s \in Sessions, SessionUp(s) PROVE TypeOK'
  BY <1>19 DEF SessionUp, SetState, States
<1>20. ASSUME NEW s \in Sessions, SessionDone(s) PROVE TypeOK'
  BY <1>20 DEF SessionDone
<1>21. ASSUME NEW a \in Actors, ReadEvent(a) PROVE TypeOK'
  BY <1>21 DEF ReadEvent
<1>22. ASSUME NEW a \in Actors, Send(a) PROVE TypeOK'
  BY <1>22 DEF Send, After, States
<1>23. ASSUME WiFiChanges PROVE TypeOK'
  BY <1>23 DEF WiFiChanges
<1>24. ASSUME UNCHANGED vars PROVE TypeOK'
  BY <1>24 DEF vars, hist
<1>25. ASSUME NEW c \in Clients, ShowIdle(c) PROVE TypeOK'
  BY <1>25 DEF ShowIdle, SetState, States
<1> QED
  BY <1>1, <1>2, <1>3, <1>4, <1>5, <1>6, <1>7, <1>8, <1>9, <1>10, <1>11, <1>12,
     <1>13, <1>14, <1>15, <1>16, <1>17, <1>18, <1>19, <1>20, <1>21, <1>22, <1>23, <1>24, <1>25
  DEF Next, Command, ClientStep, SessionStep, Push

(* The variables always have their types. *)
THEOREM TypeCorrect == Spec => []TypeOK
<1>1. Init => TypeOK
  BY ControllerAssumption
  DEF Init, TypeOK, States, Configs, Nothing, Workers, Actors, WorkerPcs, SessionPcs
<1>2. TypeOK /\ [Next]_vars => TypeOK'
  BY TypeStep
<1> QED
  BY <1>1, <1>2, PTL DEF Spec

-----------------------------------------------------------------------------
(* Every step keeps the port with exactly one owner. *)
LEMMA OwnershipStep ==
    ASSUME TypeOK, Ownership, [Next]_vars
    PROVE  Ownership'
<1> USE ControllerAssumption
        DEF Ownership, Publishing, Taken, HeldAt, ServerListens, PortOwned,
            TypeOK, Goto, Nothing, Workers, Actors, WorkerPcs, SessionPcs,
            ctrl, store, world, out, hist
<1>1. ASSUME NEW c \in Clients, CmdStart(c) PROVE Ownership'
  BY <1>1 DEF CmdStart, Ready
<1>2. ASSUME NEW c \in Clients, CmdStop(c) PROVE Ownership'
  BY <1>2 DEF CmdStop, Ready
<1>3. ASSUME NEW c \in Clients, CmdGetStatus(c) PROVE Ownership'
  BY <1>3 DEF CmdGetStatus, Ready
<1>4. ASSUME NEW c \in Clients, NEW v \in Settings, CmdSetConfig(c, v) PROVE Ownership'
  BY <1>4 DEF CmdSetConfig, Ready, Configs
<1>5. ASSUME NEW c \in Clients, NEW l \in Levels, CmdSetLogLevel(c, l) PROVE Ownership'
  BY <1>5 DEF CmdSetLogLevel, Ready, Configs
<1>6. ASSUME NEW c \in Clients, Save(c) PROVE Ownership'
  BY <1>6 DEF Save
<1>7. ASSUME NEW c \in Clients, CheckStreaming(c) PROVE Ownership'
  BY <1>7 DEF CheckStreaming
<1>8. ASSUME NEW c \in Clients, TakeServer(c) PROVE Ownership'
  BY <1>8 DEF TakeServer
<1>9. ASSUME NEW c \in Clients, Cancel(c) PROVE Ownership'
  BY <1>9 DEF Cancel
<1>10. ASSUME NEW c \in Clients, Shut(c) PROVE Ownership'
  BY <1>10 DEF Shut
<1>11. ASSUME NEW c \in Clients, CheckWiFi(c) PROVE Ownership'
  BY <1>11 DEF CheckWiFi
<1>12. ASSUME NEW c \in Clients, NoWiFi(c) PROVE Ownership'
  BY <1>12 DEF NoWiFi, SetState, States
<1>13. ASSUME NEW c \in Clients, NEW s \in Sessions, Arm(c, s) PROVE Ownership'
  BY <1>13 DEF Arm
<1>14. ASSUME NEW t \in Tickers, CmdGetStatus(t) PROVE Ownership'
  BY <1>14 DEF CmdGetStatus
<1>15. ASSUME NEW s \in Sessions, SessionFails(s) PROVE Ownership'
  BY <1>15 DEF SessionFails, SetState, States
<1>16. ASSUME NEW s \in Sessions, SessionHasWiFi(s) PROVE Ownership'
  BY <1>16 DEF SessionHasWiFi
<1>17. ASSUME NEW s \in Sessions, Listen(s) PROVE Ownership'
  BY <1>17 DEF Listen
<1>18. ASSUME NEW s \in Sessions, Publish(s) PROVE Ownership'
  BY <1>18 DEF Publish
<1>19. ASSUME NEW s \in Sessions, SessionUp(s) PROVE Ownership'
  BY <1>19 DEF SessionUp, SetState, States
<1>20. ASSUME NEW s \in Sessions, SessionDone(s) PROVE Ownership'
  BY <1>20 DEF SessionDone
<1>21. ASSUME NEW a \in Actors, ReadEvent(a) PROVE Ownership'
  BY <1>21 DEF ReadEvent
<1>22. ASSUME NEW a \in Actors, Send(a) PROVE Ownership'
  BY <1>22 DEF Send, After, States
<1>23. ASSUME WiFiChanges PROVE Ownership'
  BY <1>23 DEF WiFiChanges
<1>24. ASSUME UNCHANGED vars PROVE Ownership'
  BY <1>24 DEF vars, hist
<1>25. ASSUME NEW c \in Clients, ShowIdle(c) PROVE Ownership'
  BY <1>25 DEF ShowIdle, SetState, States
<1> QED
  BY <1>1, <1>2, <1>3, <1>4, <1>5, <1>6, <1>7, <1>8, <1>9, <1>10, <1>11, <1>12,
     <1>13, <1>14, <1>15, <1>16, <1>17, <1>18, <1>19, <1>20, <1>21, <1>22, <1>23, <1>24, <1>25
  DEF Next, Command, ClientStep, SessionStep, Push

LEMMA Inductive == Spec => []IInv
<1>1. Init => IInv
  BY ControllerAssumption
  DEF Init, IInv, TypeOK, Ownership, Publishing, Taken, HeldAt, ServerListens, PortOwned,
      States, Configs, Nothing, Workers, Actors, WorkerPcs, SessionPcs
<1>2. IInv /\ [Next]_vars => IInv'
  BY TypeStep, OwnershipStep DEF IInv
<1> QED
  BY <1>1, <1>2, PTL DEF Spec

(* The server bound to :7979 is always in somebody's hands: no interleaving *)
(* of commands and sessions orphans it.                                     *)
THEOREM PortAlwaysOwned == Spec => []PortOwned
<1>1. IInv => PortOwned
  BY DEF IInv, Ownership
<1> QED
  BY <1>1, Inductive, PTL

(* The server the controller would stop next is always the listening one. *)
THEOREM ServerAlwaysListens == Spec => []ServerListens
<1>1. IInv => ServerListens
  BY DEF IInv, Ownership
<1> QED
  BY <1>1, Inductive, PTL

-----------------------------------------------------------------------------
(* While commands do not come upon each other's work (calm): one of them at *)
(* a time may touch the server, and no session starts or fails meanwhile.   *)

Undisturbed ==
    /\ \A c, d \in Clients : Working(c) /\ Working(d) => c = d
    /\ \A s, t \in Sessions : Starting(s) /\ Starting(t) => s = t
    /\ \A s \in Sessions, c \in Clients : ~(Starting(s) /\ Working(c))

(* A start finds the port free, and what a stopServer takes is what listens. *)
PortFree ==
    /\ \A c \in Clients :
         /\ pc[c] \in {"shown", "wifi", "arm"} => port = None
         /\ pc[c] \in {"read", "send"} /\ more[c] => port = None
         /\ pc[c] \in {"cancel", "shut"} => port = held[c].srv
    /\ \A s \in Sessions : pc[s] \in {"wifi", "listen"} => port = None

(* A session whose server listens but has not been reported *)
Bound(s) == pc[s] \in {"publish", "up"}

(* The state follows the port as soon as stopServer is through, and the     *)
(* session has reported.                                                    *)
Truthful ==
    /\ \A s \in Sessions : Bound(s) => port = s /\ state # "streaming"
    /\ (\A c \in Clients : ~Stopping(c)) /\ (\A s \in Sessions : ~Bound(s)) =>
         (state = "streaming" <=> port # None)

(* Whatever may start a server, or report an error, was asked for: after a  *)
(* stop the state is idle as soon as stopServer is through.                 *)
Obeyed ==
    /\ wanted = "off" => state = "idle" \/ \E c \in Clients : Stopping(c)
    /\ \A c \in Clients : Stopping(c) /\ more[c] => wanted = "on"
    /\ \A c \in Clients : pc[c] \in {"read", "send"} /\ more[c] => wanted = "on"
    /\ \A c \in Clients : pc[c] \in {"wifi", "arm"} => wanted = "on"
    /\ \A s \in Sessions : Starting(s) => wanted = "on"

(* A client between two commands has nothing left to do. *)
NoRest == \A c \in Clients : pc[c] = "ready" => ~more[c]

CalmInv == NoRest /\ (calm => Undisturbed /\ PortFree /\ Truthful /\ Obeyed)

(* Every step keeps it: a start or stop that finds nothing in flight makes  *)
(* it true, and one that comes upon others' work makes it vacuous.          *)
LEMMA CalmStep ==
    ASSUME IInv, CalmInv, [Next]_vars
    PROVE  CalmInv'
<1> USE ControllerAssumption
        DEF CalmInv, NoRest, Undisturbed, PortFree, Truthful, Obeyed,
            Working, Stopping, Starting, Bound, Quiet, IInv, TypeOK, Goto, Workers, Actors,
            ctrl, store, world, out, hist
<1>1. ASSUME NEW c \in Clients, CmdStart(c) PROVE CalmInv'
  BY <1>1 DEF CmdStart, Ready
<1>2. ASSUME NEW c \in Clients, CmdStop(c) PROVE CalmInv'
  BY <1>2 DEF CmdStop, Ready
<1>3. ASSUME NEW c \in Clients, CmdGetStatus(c) PROVE CalmInv'
  BY <1>3 DEF CmdGetStatus, Ready
<1>4. ASSUME NEW c \in Clients, NEW v \in Settings, CmdSetConfig(c, v) PROVE CalmInv'
  BY <1>4 DEF CmdSetConfig, Ready
<1>5. ASSUME NEW c \in Clients, NEW l \in Levels, CmdSetLogLevel(c, l) PROVE CalmInv'
  BY <1>5 DEF CmdSetLogLevel, Ready
<1>6. ASSUME NEW c \in Clients, Save(c) PROVE CalmInv'
  BY <1>6 DEF Save
<1>7. ASSUME NEW c \in Clients, CheckStreaming(c) PROVE CalmInv'
  <2>1. /\ pc' = [pc EXCEPT ![c] = IF state = "streaming" THEN "take" ELSE "ready"]
        /\ UNCHANGED <<state, port, held, wanted, calm>>
        /\ pc[c] = "check" /\ Working(c) /\ c \notin Sessions
    BY <1>7 DEF CheckStreaming
  <2>2. more'[c] = (state = "streaming")
    BY <1>7 DEF CheckStreaming
  <2>3. \A a \in Actors \ {c} : pc'[a] = pc[a] /\ more'[a] = more[a]
    BY <1>7 DEF CheckStreaming
  <2>4. pc'[c] \in {"take", "ready"} /\ (pc'[c] = "ready" => ~more'[c])
    BY <2>1, <2>2
  <2>5. NoRest'
    BY <2>3, <2>4
  <2>6. ASSUME calm PROVE (Undisturbed /\ PortFree)'
    BY <2>1, <2>3, <2>4, <2>6
  <2>7. ASSUME calm PROVE Truthful'
    <3>1. (state = "streaming" <=> port # None) /\ \A s \in Sessions : ~Bound(s)
      BY <2>1, <2>7
    <3>2. \A s \in Sessions : ~Bound(s)'
      BY <2>1, <2>3, <3>1
    <3> QED
      BY <2>1, <3>1, <3>2
  <2>8. ASSUME calm PROVE Obeyed'
    <3>1. \A d \in Clients : ~Stopping(d)
      BY <2>1, <2>8
    <3>2. wanted = "off" => state = "idle"
      BY <2>8, <3>1
    <3>3. more'[c] => wanted = "on"
      BY <2>1, <2>2, <2>8, <3>2, wanted \in {"on", "off"}
    <3> QED
      BY <2>1, <2>3, <2>4, <2>8, <3>1, <3>2, <3>3
  <2> QED
    BY <2>1, <2>5, <2>6, <2>7, <2>8
<1>8. ASSUME NEW c \in Clients, TakeServer(c) PROVE CalmInv'
  BY <1>8 DEF TakeServer, Ownership, PortOwned, ServerListens, HeldAt, Nothing
<1>9. ASSUME NEW c \in Clients, Cancel(c) PROVE CalmInv'
  BY <1>9 DEF Cancel
<1>10. ASSUME NEW c \in Clients, Shut(c) PROVE CalmInv'
  BY <1>10 DEF Shut
<1>11. ASSUME NEW c \in Clients, ShowIdle(c) PROVE CalmInv'
  BY <1>11 DEF ShowIdle, SetState
<1>12. ASSUME NEW c \in Clients, CheckWiFi(c) PROVE CalmInv'
  BY <1>12 DEF CheckWiFi
<1>13. ASSUME NEW c \in Clients, NoWiFi(c) PROVE CalmInv'
  BY <1>13 DEF NoWiFi, SetState
<1>14. ASSUME NEW c \in Clients, NEW s \in Sessions, Arm(c, s) PROVE CalmInv'
  BY <1>14 DEF Arm
<1>15. ASSUME NEW t \in Tickers, CmdGetStatus(t) PROVE CalmInv'
  BY <1>15 DEF CmdGetStatus
<1>16. ASSUME NEW s \in Sessions, SessionFails(s) PROVE CalmInv'
  BY <1>16 DEF SessionFails, SetState
<1>17. ASSUME NEW s \in Sessions, SessionHasWiFi(s) PROVE CalmInv'
  BY <1>17 DEF SessionHasWiFi
<1>18. ASSUME NEW s \in Sessions, Listen(s) PROVE CalmInv'
  BY <1>18 DEF Listen
<1>19. ASSUME NEW s \in Sessions, Publish(s) PROVE CalmInv'
  BY <1>19 DEF Publish
<1>20. ASSUME NEW s \in Sessions, SessionUp(s) PROVE CalmInv'
  BY <1>20 DEF SessionUp, SetState
<1>21. ASSUME NEW s \in Sessions, SessionDone(s) PROVE CalmInv'
  BY <1>21 DEF SessionDone
<1>22. ASSUME NEW a \in Actors, ReadEvent(a) PROVE CalmInv'
  BY <1>22 DEF ReadEvent
<1>23. ASSUME NEW a \in Actors, Send(a) PROVE CalmInv'
  BY <1>23 DEF Send, After
<1>24. ASSUME WiFiChanges PROVE CalmInv'
  BY <1>24 DEF WiFiChanges
<1>25. ASSUME UNCHANGED vars PROVE CalmInv'
  BY <1>25 DEF vars
<1> QED
  BY <1>1, <1>2, <1>3, <1>4, <1>5, <1>6, <1>7, <1>8, <1>9, <1>10, <1>11,
     <1>12, <1>13, <1>14, <1>15, <1>16, <1>17, <1>18, <1>19, <1>20, <1>21,
     <1>22, <1>23, <1>24, <1>25
  DEF Next, Command, ClientStep, SessionStep, Push

LEMMA CalmInductive == Spec => []CalmInv
<1>1. Init => CalmInv
  BY ControllerAssumption
  DEF Init, CalmInv, NoRest, Undisturbed, PortFree, Truthful, Obeyed,
      Working, Stopping, Starting, Bound, Workers, Actors
<1>2. IInv /\ CalmInv /\ [Next]_vars => CalmInv'
  BY CalmStep
<1> QED
  BY <1>1, <1>2, Inductive, PTL DEF Spec

(* Whatever commands did to each other before, once a start or a stop was   *)
(* left alone the state on the screen is "streaming" exactly when a server  *)
(* listens, and after a stop it is idle, until commands come upon each      *)
(* other again.                                                             *)
THEOREM StateAlwaysTruthful == Spec => []StateTruthful
<1>1. CalmInv => StateTruthful
  BY DEF CalmInv, Truthful, Obeyed, Bound, Starting, Working, StateTruthful, Quiet
<1> QED
  BY <1>1, CalmInductive, PTL

-----------------------------------------------------------------------------
(* The controller implements the contract of Session.                       *)

(* A start or stop command asks; nothing is served or told yet. *)
LEMMA CommandAsks ==
    ASSUME TypeOK', NEW c \in Clients, CmdStart(c) \/ CmdStop(c)
    PROVE  Contract!Ask(wanted')
  BY DEF CmdStart, CmdStop, ctrl, world, TypeOK, Contract!Ask

(* A changed setting may come upon another command's work. *)
LEMMA SettingDisturbs ==
    ASSUME TypeOK, NEW c \in Clients, NEW v \in Settings, CmdSetConfig(c, v)
    PROVE  Contract!Disturb \/ UNCHANGED Contract!vars
<1>1. calm' = FALSE \/ calm' = calm
  BY DEF CmdSetConfig, TypeOK
<1> QED
  BY <1>1 DEF CmdSetConfig, ctrl, world, Contract!Disturb, Contract!vars

(* Binding the port begins the service: while calm only ever for somebody   *)
(* who asked, and after the last "streaming" was taken back.                *)
LEMMA ListenBegins ==
    ASSUME CalmInv, NEW s \in Sessions, Listen(s)
    PROVE  Contract!Begin
<1>1. calm => state # "streaming"
  BY DEF CalmInv, Undisturbed, PortFree, Truthful, Starting, Bound, Stopping, Working, Listen
<1> QED
  BY <1>1, ControllerAssumption
  DEF Listen, ctrl, hist, CalmInv, Obeyed, Starting, Contract!Begin

(* stopServer ends the service it finds. *)
LEMMA ShutEnds ==
    ASSUME NEW c \in Clients, Shut(c)
    PROVE  Contract!End \/ UNCHANGED Contract!vars
  BY DEF Shut, ctrl, hist, Contract!End, Contract!vars

(* Only then does it say so, and it says the same when there was none. *)
LEMMA IdleTold ==
    ASSUME CalmInv, NEW c \in Clients, ShowIdle(c)
    PROVE  Contract!Tell("idle")
<1>1. calm => port = None
  BY DEF CalmInv, PortFree, ShowIdle
<1> QED
  BY <1>1 DEF ShowIdle, SetState, world, hist, Contract!Tell

(* An error is only reported to somebody who asked, with nothing bound. *)
LEMMA FailureTold ==
    ASSUME CalmInv,
           (\E c \in Clients : NoWiFi(c)) \/ (\E s \in Sessions : SessionFails(s))
    PROVE  Contract!Tell("error")
<1>1. calm => port = None /\ wanted = "on"
  BY DEF CalmInv, PortFree, Obeyed, Starting, NoWiFi, SessionFails
<1>2. state' = "error" /\ UNCHANGED <<port, wanted, calm>>
  BY DEF NoWiFi, SessionFails, SetState, world, hist
<1> QED
  BY <1>1, <1>2 DEF Contract!Tell

(* "streaming" is only reported while the session's server listens. *)
LEMMA UpTold ==
    ASSUME CalmInv, NEW s \in Sessions, SessionUp(s)
    PROVE  Contract!Tell("streaming")
<1>1. calm => port = s
  BY DEF CalmInv, Truthful, Bound, SessionUp
<1>2. state' = "streaming" /\ UNCHANGED <<port, wanted, calm>>
  BY DEF SessionUp, SetState, world, hist
<1> QED
  BY <1>1, <1>2, ControllerAssumption DEF Contract!Tell

(* Everything else the user does not see. *)
LEMMA OthersStutter ==
    ASSUME [Next]_vars,
           \A c \in Clients : ~CmdStart(c) /\ ~CmdStop(c) /\ ~Shut(c) /\ ~ShowIdle(c) /\ ~NoWiFi(c),
           \A c \in Clients, v \in Settings : ~CmdSetConfig(c, v),
           \A s \in Sessions : ~Listen(s) /\ ~SessionFails(s) /\ ~SessionUp(s)
    PROVE  UNCHANGED Contract!vars
<1>1. UNCHANGED <<state, port, wanted, calm>>
  BY DEF Next, Command, ClientStep, SessionStep, Push, vars, ctrl, world, hist,
         CmdGetStatus, CmdSetLogLevel, Save, CheckStreaming, TakeServer,
         Cancel, CheckWiFi, Arm, SessionHasWiFi, Publish, SessionDone,
         ReadEvent, Send, WiFiChanges
<1> QED
  BY <1>1 DEF Contract!vars

LEMMA ContractStep ==
    ASSUME TypeOK, TypeOK', CalmInv, [Next]_vars
    PROVE  [Contract!Next]_(Contract!vars)
<1>1. CASE \E c \in Clients : CmdStart(c) \/ CmdStop(c)
  <2>1. wanted' \in {"on", "off"} /\ Contract!Ask(wanted')
    BY <1>1, CommandAsks DEF CmdStart, CmdStop
  <2> QED
    BY <2>1 DEF Contract!Next
<1>2. CASE \E c \in Clients, v \in Settings : CmdSetConfig(c, v)
  BY <1>2, SettingDisturbs DEF Contract!Next
<1>3. CASE \E s \in Sessions : Listen(s)
  BY <1>3, ListenBegins DEF Contract!Next
<1>4. CASE \E c \in Clients : Shut(c)
  BY <1>4, ShutEnds DEF Contract!Next
<1>5. CASE \E c \in Clients : ShowIdle(c)
  BY <1>5, IdleTold DEF Contract!Next
<1>6. CASE (\E c \in Clients : NoWiFi(c)) \/ (\E s \in Sessions : SessionFails(s))
  BY <1>6, FailureTold DEF Contract!Next
<1>7. CASE \E s \in Sessions : SessionUp(s)
  BY <1>7, UpTold DEF Contract!Next
<1> QED
  BY <1>1, <1>2, <1>3, <1>4, <1>5, <1>6, <1>7, OthersStutter

(* Whenever commands come and in every order of its steps the controller    *)
(* serves, reports and takes back as Session allows: it implements it.      *)
THEOREM ContractKept == Spec => KeepsContract
<1>1. Init => Contract!Init
  BY DEF Init, Contract!Init
<1>2. TypeOK /\ TypeOK' /\ CalmInv /\ [Next]_vars => [Contract!Next]_(Contract!vars)
  BY ContractStep
<1> QED
  BY <1>1, <1>2, TypeCorrect, CalmInductive, PTL DEF Spec, KeepsContract, Contract!Spec

-----------------------------------------------------------------------------
(* Commands that come one at a time: those of one connection, which need    *)
(* not wait for its sessions.                                               *)

Alone == \A c, d \in Clients : pc[c] # "ready" /\ pc[d] # "ready" => c = d

OneAtATime == \E client : Clients = {client}

LEMMA OneBusy == ASSUME OneAtATime PROVE Spec => []Alone
<1>1. Alone
  BY DEF OneAtATime, Alone
<1> QED
  BY <1>1, PTL

-----------------------------------------------------------------------------
(* The configuration file, when config.Save succeeds: the copy that is      *)
(* being saved is the configuration in use, and nobody saves an older one   *)
(* after it.                                                                *)

Saved ==
    /\ \A c \in Clients : pc[c] = "save" => snap[c] = cfg
    /\ (\A c \in Clients : pc[c] # "save") => file = cfg

(* Every step keeps the copy up to date. *)
LEMMA SavedStep ==
    ASSUME ~SavesFail, TypeOK, Alone, Alone', Saved, [Next]_vars
    PROVE  Saved'
<1> USE ControllerAssumption
        DEF Saved, Alone, TypeOK, Goto, Workers, Actors,
            ctrl, store, world, out, hist
<1>1. ASSUME NEW c \in Clients, CmdStart(c) PROVE Saved'
  BY <1>1 DEF CmdStart, Ready
<1>2. ASSUME NEW c \in Clients, CmdStop(c) PROVE Saved'
  BY <1>2 DEF CmdStop, Ready
<1>3. ASSUME NEW c \in Clients, CmdGetStatus(c) PROVE Saved'
  BY <1>3 DEF CmdGetStatus, Ready
<1>4. ASSUME NEW c \in Clients, NEW v \in Settings, CmdSetConfig(c, v) PROVE Saved'
  BY <1>4 DEF CmdSetConfig, Ready
<1>5. ASSUME NEW c \in Clients, NEW l \in Levels, CmdSetLogLevel(c, l) PROVE Saved'
  BY <1>5 DEF CmdSetLogLevel, Ready
<1>6. ASSUME NEW c \in Clients, Save(c) PROVE Saved'
  BY <1>6 DEF Save
<1>7. ASSUME NEW c \in Clients, CheckStreaming(c) PROVE Saved'
  BY <1>7 DEF CheckStreaming
<1>8. ASSUME NEW c \in Clients, TakeServer(c) PROVE Saved'
  BY <1>8 DEF TakeServer, Ownership, PortOwned, ServerListens, HeldAt, Nothing
<1>9. ASSUME NEW c \in Clients, Cancel(c) PROVE Saved'
  BY <1>9 DEF Cancel
<1>10. ASSUME NEW c \in Clients, Shut(c) PROVE Saved'
  BY <1>10 DEF Shut
<1>11. ASSUME NEW c \in Clients, CheckWiFi(c) PROVE Saved'
  BY <1>11 DEF CheckWiFi
<1>12. ASSUME NEW c \in Clients, NoWiFi(c) PROVE Saved'
  BY <1>12 DEF NoWiFi, SetState
<1>13. ASSUME NEW c \in Clients, NEW s \in Sessions, Arm(c, s) PROVE Saved'
  BY <1>13 DEF Arm
<1>14. ASSUME NEW t \in Tickers, CmdGetStatus(t) PROVE Saved'
  BY <1>14 DEF CmdGetStatus
<1>15. ASSUME NEW s \in Sessions, SessionFails(s) PROVE Saved'
  BY <1>15 DEF SessionFails, SetState
<1>16. ASSUME NEW s \in Sessions, SessionHasWiFi(s) PROVE Saved'
  BY <1>16 DEF SessionHasWiFi
<1>17. ASSUME NEW s \in Sessions, Listen(s) PROVE Saved'
  BY <1>17 DEF Listen
<1>18. ASSUME NEW s \in Sessions, Publish(s) PROVE Saved'
  BY <1>18 DEF Publish
<1>19. ASSUME NEW s \in Sessions, SessionUp(s) PROVE Saved'
  BY <1>19 DEF SessionUp, SetState
<1>20. ASSUME NEW s \in Sessions, SessionDone(s) PROVE Saved'
  BY <1>20 DEF SessionDone
<1>21. ASSUME NEW a \in Actors, ReadEvent(a) PROVE Saved'
  BY <1>21 DEF ReadEvent
<1>22. ASSUME NEW a \in Actors, Send(a) PROVE Saved'
  BY <1>22 DEF Send, After
<1>23. ASSUME WiFiChanges PROVE Saved'
  BY <1>23 DEF WiFiChanges
<1>24. ASSUME UNCHANGED vars PROVE Saved'
  BY <1>24 DEF vars, hist
<1>25. ASSUME NEW c \in Clients, ShowIdle(c) PROVE Saved'
  BY <1>25 DEF ShowIdle, SetState
<1> QED
  BY <1>1, <1>2, <1>3, <1>4, <1>5, <1>6, <1>7, <1>8, <1>9, <1>10, <1>11, <1>12,
     <1>13, <1>14, <1>15, <1>16, <1>17, <1>18, <1>19, <1>20, <1>21, <1>22, <1>23, <1>24, <1>25
  DEF Next, Command, ClientStep, SessionStep, Push

(* With nothing in flight config.json holds the configuration in use, if    *)
(* commands come one at a time and saving them does not fail.               *)
THEOREM ConfigAlwaysPersisted ==
    ASSUME ~SavesFail, OneAtATime
    PROVE  Spec => []PersistedConfig
<1>1. Init => Saved
  BY DEF Init, Saved
<1>2. TypeOK /\ Alone /\ Alone' /\ Saved /\ [Next]_vars => Saved'
  BY SavedStep
<1>3. Saved => PersistedConfig
  BY DEF Saved, PersistedConfig, Settled, Busy
<1> QED
  BY <1>1, <1>2, <1>3, OneBusy, TypeCorrect, PTL DEF Spec

-----------------------------------------------------------------------------
(* The cancel function: a start or a restart finds none when it arms its    *)
(* session, so none is overwritten.                                         *)

(* A session that has not failed and that its context keeps running *)
Armed(s) ==
    /\ s \notin cancelled
    /\ \/ pc[s] \in {"wifi", "listen", "publish", "up", "wait"}
       \/ pc[s] \in {"read", "send"} /\ more[s]

Serial ==
    /\ \A c \in Clients :
        /\ pc[c] = "ready" => ~more[c]
        /\ pc[c] \in {"cancel", "shut", "shown", "wifi", "arm"} => cancelFn = None
        /\ pc[c] \in {"read", "send"} /\ more[c] => cancelFn = None
    /\ \A s \in Sessions : Armed(s) =>
         \/ cancelFn = s
         \/ \E c \in Clients : pc[c] = "cancel" /\ held[c].cancel = s

(* Every step keeps the one session that runs within reach of a stop. *)
LEMMA SerialStep ==
    ASSUME TypeOK, Alone, Serial, [Next]_vars
    PROVE  Serial'
<1> USE ControllerAssumption
        DEF Serial, Armed, Alone, TypeOK, Goto, Workers, Actors, WorkerPcs, SessionPcs,
            ctrl, store, world, out, hist
<1>1. ASSUME NEW c \in Clients, CmdStart(c) PROVE Serial'
  BY <1>1 DEF CmdStart, Ready
<1>2. ASSUME NEW c \in Clients, CmdStop(c) PROVE Serial'
  BY <1>2 DEF CmdStop, Ready
<1>3. ASSUME NEW c \in Clients, CmdGetStatus(c) PROVE Serial'
  BY <1>3 DEF CmdGetStatus, Ready
<1>4. ASSUME NEW c \in Clients, NEW v \in Settings, CmdSetConfig(c, v) PROVE Serial'
  BY <1>4 DEF CmdSetConfig, Ready
<1>5. ASSUME NEW c \in Clients, NEW l \in Levels, CmdSetLogLevel(c, l) PROVE Serial'
  BY <1>5 DEF CmdSetLogLevel, Ready
<1>6. ASSUME NEW c \in Clients, Save(c) PROVE Serial'
  BY <1>6 DEF Save
<1>7. ASSUME NEW c \in Clients, CheckStreaming(c) PROVE Serial'
  <2>1. /\ pc' = [pc EXCEPT ![c] = IF state = "streaming" THEN "take" ELSE "ready"]
        /\ UNCHANGED <<cancelFn, held, cancelled>>
        /\ c \notin Sessions
    BY <1>7 DEF CheckStreaming
  <2>2. more'[c] = (state = "streaming")
    BY <1>7 DEF CheckStreaming
  <2>3. \A a \in Actors \ {c} : more'[a] = more[a]
    BY <1>7 DEF CheckStreaming
  <2>4. pc[c] = "check" /\ \A d \in Clients \ {c} : pc[d] = "ready" /\ pc'[d] = "ready"
    BY <1>7, <2>1 DEF CheckStreaming
  <2>5. pc'[c] = "ready" => ~more'[c]
    BY <2>1, <2>2
  <2>6. ASSUME NEW s \in Sessions, Armed(s)' PROVE Armed(s)
    BY <2>1, <2>3, <2>6
  <2>7. \A d \in Clients : pc'[d] = "ready" => ~more'[d]
    BY <2>3, <2>4, <2>5
  <2>8. \A d \in Clients : pc'[d] \in {"ready", "take"}
    BY <2>1, <2>4
  <2>9. \A d \in Clients : pc[d] # "cancel"
    BY <2>4
  <2> QED
    BY <2>1, <2>6, <2>7, <2>8, <2>9
<1>8. ASSUME NEW c \in Clients, TakeServer(c) PROVE Serial'
  BY <1>8 DEF TakeServer
<1>9. ASSUME NEW c \in Clients, Cancel(c) PROVE Serial'
  BY <1>9 DEF Cancel
<1>10. ASSUME NEW c \in Clients, Shut(c) PROVE Serial'
  BY <1>10 DEF Shut
<1>11. ASSUME NEW c \in Clients, CheckWiFi(c) PROVE Serial'
  BY <1>11 DEF CheckWiFi
<1>12. ASSUME NEW c \in Clients, NoWiFi(c) PROVE Serial'
  BY <1>12 DEF NoWiFi, SetState
<1>13. ASSUME NEW c \in Clients, NEW s \in Sessions, Arm(c, s) PROVE Serial'
  <2>1. /\ pc' = [pc EXCEPT ![c] = "ready", ![s] = "wifi"]
        /\ more' = [more EXCEPT ![c] = FALSE, ![s] = TRUE]
        /\ cancelFn' = s /\ UNCHANGED <<cancelled, held>>
        /\ pc[c] = "arm" /\ c \notin Sessions /\ c # s
        /\ \A d \in Clients \ {c} : pc[d] = "ready" /\ d # s
    BY <1>13 DEF Arm
  <2>2. \A q \in Sessions : ~Armed(q)
    BY <2>1
  <2>3. ASSUME NEW q \in Sessions, q # s PROVE ~Armed(q)'
    <3>1. pc'[q] = pc[q] /\ more'[q] = more[q] /\ cancelled' = cancelled
      BY <2>1, <2>3
    <3> QED
      BY <2>2, <3>1 DEF Armed
  <2>4. \A d \in Clients : pc'[d] = "ready" /\ ~more'[d]
    BY <2>1
  <2>5. \A q \in Sessions : Armed(q)' => cancelFn' = q
    BY <2>1, <2>3
  <2> QED
    BY <2>4, <2>5
<1>14. ASSUME NEW t \in Tickers, CmdGetStatus(t) PROVE Serial'
  BY <1>14 DEF CmdGetStatus
<1>15. ASSUME NEW s \in Sessions, SessionFails(s) PROVE Serial'
  BY <1>15 DEF SessionFails, SetState
<1>16. ASSUME NEW s \in Sessions, SessionHasWiFi(s) PROVE Serial'
  BY <1>16 DEF SessionHasWiFi
<1>17. ASSUME NEW s \in Sessions, Listen(s) PROVE Serial'
  BY <1>17 DEF Listen
<1>18. ASSUME NEW s \in Sessions, Publish(s) PROVE Serial'
  BY <1>18 DEF Publish
<1>19. ASSUME NEW s \in Sessions, SessionUp(s) PROVE Serial'
  BY <1>19 DEF SessionUp, SetState
<1>20. ASSUME NEW s \in Sessions, SessionDone(s) PROVE Serial'
  BY <1>20 DEF SessionDone
<1>21. ASSUME NEW a \in Actors, ReadEvent(a) PROVE Serial'
  BY <1>21 DEF ReadEvent
<1>22. ASSUME NEW a \in Actors, Send(a) PROVE Serial'
  BY <1>22 DEF Send, After
<1>23. ASSUME WiFiChanges PROVE Serial'
  BY <1>23 DEF WiFiChanges
<1>24. ASSUME UNCHANGED vars PROVE Serial'
  BY <1>24 DEF vars, hist
<1>25. ASSUME NEW c \in Clients, ShowIdle(c) PROVE Serial'
  BY <1>25 DEF ShowIdle, SetState
<1> QED
  BY <1>1, <1>2, <1>3, <1>4, <1>5, <1>6, <1>7, <1>8, <1>9, <1>10, <1>11, <1>12,
     <1>13, <1>14, <1>15, <1>16, <1>17, <1>18, <1>19, <1>20, <1>21, <1>22, <1>23, <1>24, <1>25
  DEF Next, Command, ClientStep, SessionStep, Push

(* Where commands come one at a time no session ever waits for a            *)
(* cancellation that nobody can send, however many start and restart, and   *)
(* although one connection need not wait for its sessions.                  *)
THEOREM CancelNeverLost == ASSUME OneAtATime PROVE Spec => []NoLostCancel
<1>1. Init => Serial
  BY ControllerAssumption DEF Init, Serial, Armed, Workers, Actors
<1>2. TypeOK /\ Alone /\ Serial /\ [Next]_vars => Serial'
  BY SerialStep
<1>3. Serial => NoLostCancel
  BY DEF Serial, Armed, NoLostCancel
<1> QED
  BY <1>1, <1>2, <1>3, OneBusy, TypeCorrect, PTL DEF Spec
=============================================================================
