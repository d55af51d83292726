---------------------------- MODULE ScreenProofs ----------------------------
(***************************************************************************)
(* For any number of requests: the metrics are those of the client that is *)
(* served, with the exception that MetricsOfServed makes for clients that  *)
(* a handler still at work when they connected has cleared since.          *)
(***************************************************************************)
EXTENDS Screen, TLAPS

Phases   == {"new", "connect", "first", "start", "second", "serve", "ended", "last",
             "gone"}
Coming   == {"connect", "first", "start", "second"}
Past     == {"serve", "ended", "last", "gone"}
Commands == {"ready", "start", "stop", "report", "report, run", "run", "running"}

(* The types of what decides whose metrics they are. *)
Types ==
    /\ pc \in [Handlers -> Phases]
    /\ say \in [Handlers -> SUBSET BOOLEAN]
    /\ active \in Handlers \cup {0}
    /\ metrics \in [connected : BOOLEAN, client : Handlers \cup {0}]
    /\ ctl \in Commands /\ up \in BOOLEAN
    /\ inbox = <<>> \/ \E cmd \in {"start", "stop", "get-status"} : inbox = <<cmd>>
    /\ items \in {"none", "start", "stop"}
    /\ before \in [Handlers -> SUBSET Handlers]

(* A handler that has read its report is where it will send it. *)
Reporting == \A h \in Handlers : say[h] # {} => pc[h] \in {"first", "second", "last"}

(* Requests come one after the other, each when the last one is served. *)
InTurn == \A g, h \in Handlers : g < h /\ pc[h] # "new" => pc[g] \in Past

(* The encoder of a handler on its way is the active one, and whoever has   *)
(* the active one has not ended.                                            *)
Holds ==
    /\ \A h \in Handlers : pc[h] \in Coming => active = h
    /\ active # 0 => pc[active] \in Coming \cup {"serve"}

(* Nobody comes after whoever has the active encoder, and who has ended or *)
(* is served while it connects counts as still at work.                     *)
Latest == \A k, g \in Handlers : active = k /\ k < g => pc[g] = "new"

Counted ==
    \A k, g \in Handlers :
        Serving(k) /\ g < k /\ pc[g] \in {"serve", "ended"} => g \in before[k]

(* The metrics are cleared for a new server when no handler of the last one *)
(* is left.                                                                 *)
Between ==
    /\ ctl \in {"start", "stop", "report, run", "run"} => ~up
    /\ ctl \in {"report, run", "run"} => \A h \in Handlers : ~AtWork(h)

IInv ==
    /\ Types /\ Reporting /\ InTurn /\ Holds /\ Between
    /\ Latest /\ Counted /\ MetricsOfServed

-----------------------------------------------------------------------------
LEMMA InitInv == Init => IInv
<1> SUFFICES ASSUME Init PROVE IInv
  OBVIOUS
<1> USE DEF Init
<1>1. Types
  BY DEF Types, Phases, Commands, NoClient
<1>2. Reporting /\ InTurn
  BY DEF Reporting, InTurn
<1>3. Holds /\ Between
  BY DEF Holds, Between, Coming
<1>4. Latest /\ Counted /\ MetricsOfServed
  BY DEF Latest, Counted, MetricsOfServed, Serving
<1> QED
  BY <1>1, <1>2, <1>3, <1>4 DEF IInv

(* A handler goes from one place to a later one. *)
LEMMA Moved ==
    ASSUME Types, Reporting, InTurn, NEW h \in Handlers, NEW to \in Phases \ {"new"},
           pc' = [pc EXCEPT ![h] = to],
           pc[h] = "new" => \A g \in Handlers : g < h => pc[g] \in Past,
           pc[h] \in {"serve", "ended", "last"} => to \in {"ended", "last", "gone"},
           pc[h] # "gone",
           \A g \in Handlers \ {h} : say'[g] = say[g],
           say'[h] # {} => to \in {"first", "second", "last"}
    PROVE  /\ pc' \in [Handlers -> Phases]
           /\ pc'[h] = to /\ \A g \in Handlers \ {h} : pc'[g] = pc[g]
           /\ Reporting' /\ InTurn'
<1>1. pc' \in [Handlers -> Phases]
  BY DEF Types
<1>2. pc'[h] = to /\ \A g \in Handlers \ {h} : pc'[g] = pc[g]
  BY DEF Types
<1>3. Reporting'
  BY <1>2 DEF Reporting
<1>4. ASSUME NEW g \in Handlers, NEW k \in Handlers, g < k, pc'[k] # "new"
      PROVE  pc'[g] \in Past
  <2>1. CASE g # h /\ k # h
    BY <1>2, <1>4, <2>1 DEF InTurn
  <2>2. CASE g = h /\ k # h
    BY <1>2, <1>4, <2>2 DEF InTurn, Past
  <2>3. CASE k = h /\ g # h
    BY <1>2, <1>4, <2>3 DEF InTurn
  <2>4. CASE k = h /\ g = h
    BY <1>4, <2>4, ScreenAssumption DEF Handlers
  <2> QED
    BY <2>1, <2>2, <2>3, <2>4
<1> QED
  BY <1>1, <1>2, <1>3, <1>4 DEF InTurn

(* A handler that has come goes on, and the metrics stay as they are or are *)
(* cleared in its end: who is served keeps what it is promised.             *)
LEMMA Promised ==
    ASSUME Types, InTurn, Latest, Counted, MetricsOfServed,
           NEW h \in Handlers, NEW to \in Phases \ {"new"},
           pc'[h] = to /\ \A g \in Handlers \ {h} : pc'[g] = pc[g],
           pc[h] # "new",
           to \in {"first", "start", "second", "serve"}
               => pc[h] \in {"first", "start", "second", "serve"},
           pc[h] # "gone" /\ to # "connect",
           pc[h] = "last" => to = "gone",
           active' = active \/ active' = 0,
           \A k \in Handlers : before'[k] = before[k] \/ (k = h /\ to = "ended"),
           metrics'.client = metrics.client,
           metrics'.connected = metrics.connected \/ (pc[h] = "ended" /\ to = "last")
    PROVE  Latest' /\ Counted' /\ MetricsOfServed'
<1>1. \A g \in Handlers : g \in Nat /\ g # 0
  BY ScreenAssumption DEF Handlers
<1>2. Latest'
  BY <1>1 DEF Latest
<1>3. ASSUME NEW k \in Handlers, Serving(k)' PROVE Serving(k) /\ before'[k] = before[k]
  BY <1>1, <1>3 DEF Serving
<1>4. Counted'
  <2> SUFFICES ASSUME NEW k \in Handlers, NEW g \in Handlers, Serving(k)', g < k,
                      pc'[g] \in {"serve", "ended"}
               PROVE  g \in before[k]
    BY <1>3 DEF Counted
  <2>1. Serving(k)
    BY <1>3
  <2>2. pc[g] \in {"serve", "ended"}
    <3>1. CASE g = h
      BY <2>1, <3>1 DEF Serving, InTurn, Past
    <3> QED
      BY <3>1
  <2> QED
    BY <2>1, <2>2 DEF Counted
<1>5. MetricsOfServed'
  <2> SUFFICES ASSUME NEW k \in Handlers, Serving(k)'
               PROVE  /\ metrics'.client = k
                      /\ \/ metrics'.connected
                         \/ \E g \in before[k] : pc'[g] \in {"last", "gone"}
    BY <1>3 DEF MetricsOfServed
  <2>1. Serving(k)
    BY <1>3
  <2>2. metrics'.client = k
    BY <2>1 DEF MetricsOfServed
  <2>3. ASSUME NEW g \in before[k], pc[g] \in {"last", "gone"}
        PROVE  pc'[g] \in {"last", "gone"}
    <3>1. g \in Handlers
      BY DEF Types
    <3> QED
      BY <2>3, <3>1
  <2>4. CASE pc[h] = "ended" /\ to = "last"
    <3>1. active = k /\ k # h
      BY <2>1, <2>4 DEF Serving
    <3>2. h < k
      BY <1>1, <2>4, <3>1 DEF Latest
    <3>3. h \in before[k]
      BY <2>1, <2>4, <3>2 DEF Counted
    <3> QED
      BY <2>2, <2>4, <3>3
  <2> QED
    BY <2>1, <2>2, <2>3, <2>4 DEF MetricsOfServed
<1> QED
  BY <1>2, <1>4, <1>5

(* A request comes when nobody is on its way, whichever number it has. *)
LEMMA Alone ==
    ASSUME Types, InTurn, NEW h \in Handlers, Arrive(h)
    PROVE  \A g \in Handlers \ {h} : pc[g] \notin Coming
<1> SUFFICES ASSUME NEW g \in Handlers \ {h}, pc[g] \in Coming PROVE FALSE
  OBVIOUS
<1>1. pc[h] = "new" /\ pc[g] # "new"
  BY DEF Arrive, Coming
<1>2. g \in Nat /\ h \in Nat /\ 1 <= g /\ 1 <= h
  BY ScreenAssumption DEF Handlers
<1>3. CASE g < h
  BY <1>2, <1>3, ScreenAssumption DEF Arrive, Coming, Handlers
<1>4. CASE h < g
  BY <1>1, <1>4 DEF InTurn, Past, Coming
<1> QED
  BY <1>2, <1>3, <1>4

(* The steps of a handler *)
LEMMA HandlerInv ==
    ASSUME IInv, NEW h \in Handlers, Arrive(h) \/ HandlerStep(h) \/ End(h)
    PROVE  IInv'
<1> USE DEF IInv, Goto, daemon, tickers, ui
<1>1. CASE Arrive(h)
  <2>1. /\ pc' \in [Handlers -> Phases]
        /\ pc'[h] = "connect" /\ \A g \in Handlers \ {h} : pc'[g] = pc[g]
        /\ Reporting' /\ InTurn'
    <3>1. \A g \in Handlers : g < h => pc[g] \in Past
      <4> SUFFICES ASSUME NEW g \in Handlers, g < h
                   PROVE  pc[g] \in Past
        OBVIOUS
      <4>1. g \in 1..(h - 1)
        BY ScreenAssumption DEF Handlers
      <4>2. pc[g] \in Phases /\ pc[g] \notin {"new", "connect", "first", "start", "second"}
        BY <1>1, <4>1 DEF Arrive, Types
      <4> QED
        BY <4>2 DEF Phases, Past
    <3>2. say[h] = {} /\ pc[h] = "new"
      BY <1>1 DEF Arrive, Reporting
    <3> QED
      BY <1>1, <3>1, <3>2, Moved DEF Arrive, Phases
  <2>2. Types'
    BY <1>1, <2>1 DEF Arrive, Types
  <2>3. Holds'
    BY <1>1, <2>1, Alone DEF Arrive, Holds, Coming
  <2>4. Between'
    BY <1>1, <2>1 DEF Arrive, Between
  <2>5. Latest' /\ Counted' /\ MetricsOfServed'
    <3>1. \A g \in Handlers : h < g => pc[g] = "new"
      BY <1>1 DEF Arrive, InTurn, Past
    <3>2. \A k \in Handlers : ~Serving(k)'
      BY <1>1, <2>1 DEF Arrive, Serving
    <3> QED
      BY <1>1, <2>1, <3>1, <3>2, ScreenAssumption
      DEF Arrive, Latest, Counted, MetricsOfServed, Handlers
  <2> QED
    BY <2>1, <2>2, <2>3, <2>4, <2>5
<1>2. CASE Connect(h)
  <2>1. /\ pc' \in [Handlers -> Phases]
        /\ pc'[h] = "first" /\ \A g \in Handlers \ {h} : pc'[g] = pc[g]
        /\ Reporting' /\ InTurn'
    BY <1>2, Moved DEF Connect, Phases, Reporting
  <2>2. Types'
    BY <1>2, <2>1 DEF Connect, Types
  <2>3. Holds' /\ active' = h
    BY <1>2, <2>1 DEF Connect, Holds, Coming
  <2>4. Between'
    BY <1>2, <2>1 DEF Connect, Between, AtWork
  <2>5. Latest' /\ Counted' /\ MetricsOfServed'
    <3>1. before'[h] = {g \in Handlers : pc[g] \in {"serve", "ended"}}
      BY <1>2 DEF Connect, Types
    <3>2. \A k \in Handlers : Serving(k)' => k = h
      BY <2>3 DEF Serving
    <3>3. Latest'
      BY <1>2, <2>1 DEF Connect, Latest
    <3>4. h \notin {g \in Handlers : g < h}
      BY ScreenAssumption DEF Handlers
    <3>5. Counted'
      BY <2>1, <3>1, <3>2, <3>4 DEF Counted
    <3>6. MetricsOfServed'
      BY <1>2, <3>2 DEF Connect, MetricsOfServed
    <3> QED
      BY <3>3, <3>5, <3>6
  <2> QED
    BY <2>1, <2>2, <2>3, <2>4, <2>5
<1>3. CASE ReadStats(h)
  <2>1. pc' = pc /\ Reporting'
    BY <1>3 DEF ReadStats, Reporting, Types
  <2>2. Types'
    BY <1>3 DEF ReadStats, Types
  <2> QED
    BY <1>3, <2>1, <2>2
    DEF ReadStats, InTurn, Holds, Between, AtWork, Latest, Counted, MetricsOfServed, Serving
<1>4. CASE SendStats(h)
  <2>1. pc[h] \in {"first", "second", "last"}
    BY <1>4 DEF SendStats, Reporting
  <2>2. PICK to \in {"start", "serve", "gone"} :
           /\ pc' = [pc EXCEPT ![h] = to]
           /\ pc[h] = "first" => to = "start"
           /\ pc[h] = "second" => to = "serve"
           /\ pc[h] = "last" => to = "gone"
    <3>1. pc' = [pc EXCEPT ![h] = [first |-> "start", second |-> "serve",
                                   last |-> "gone"][pc[h]]]
      BY <1>4 DEF SendStats
    <3>2. CASE pc[h] = "first"
      <4>1. pc' = [pc EXCEPT ![h] = "start"]
        BY <3>1, <3>2
      <4> QED
        BY <3>2, <4>1
    <3>3. CASE pc[h] = "second"
      <4>1. pc' = [pc EXCEPT ![h] = "serve"]
        BY <3>1, <3>3
      <4> QED
        BY <3>3, <4>1
    <3>4. CASE pc[h] = "last"
      <4>1. pc' = [pc EXCEPT ![h] = "gone"]
        BY <3>1, <3>4
      <4> QED
        BY <3>4, <4>1
    <3> QED
      BY <2>1, <3>2, <3>3, <3>4
  <2>3. say' = [say EXCEPT ![h] = {}]
    BY <1>4 DEF SendStats
  <2>4. /\ pc' \in [Handlers -> Phases]
        /\ pc'[h] = to /\ \A g \in Handlers \ {h} : pc'[g] = pc[g]
        /\ Reporting' /\ InTurn'
    BY <2>1, <2>2, <2>3, Moved DEF Types, Phases
  <2>5. UNCHANGED <<active, metrics, ctl, up, inbox, items, before>>
    BY <1>4 DEF SendStats
  <2>6. Types'
    BY <2>3, <2>4, <2>5 DEF Types
  <2>7. Holds'
    BY <2>1, <2>2, <2>4, <2>5 DEF Holds, Coming
  <2>8. Between'
    BY <2>1, <2>4, <2>5 DEF Between, AtWork
  <2>9. Latest' /\ Counted' /\ MetricsOfServed'
    BY <2>1, <2>2, <2>4, <2>5, Promised DEF Phases
  <2> QED
    BY <2>4, <2>6, <2>7, <2>8, <2>9
<1>5. CASE Started(h)
  <2>1. /\ pc' \in [Handlers -> Phases]
        /\ pc'[h] = "second" /\ \A g \in Handlers \ {h} : pc'[g] = pc[g]
        /\ Reporting' /\ InTurn'
    BY <1>5, Moved DEF Started, Phases, Reporting
  <2>2. Types'
    BY <1>5, <2>1 DEF Started, Types
  <2>3. Holds'
    BY <1>5, <2>1 DEF Started, Holds, Coming
  <2>4. Between'
    BY <1>5, <2>1 DEF Started, Between, AtWork
  <2>5. Latest' /\ Counted' /\ MetricsOfServed'
    BY <1>5, <2>1, Promised DEF Started, Phases
  <2> QED
    BY <2>1, <2>2, <2>3, <2>4, <2>5
<1>6. CASE End(h)
  <2>1. /\ pc' \in [Handlers -> Phases]
        /\ pc'[h] = "ended" /\ \A g \in Handlers \ {h} : pc'[g] = pc[g]
        /\ Reporting' /\ InTurn'
    BY <1>6, Moved DEF End, Phases, Reporting
  <2>2. Types'
    BY <1>6, <2>1 DEF End, Types
  <2>3. h # 0
    BY ScreenAssumption DEF Handlers
  <2>4. Holds'
    BY <1>6, <2>1, <2>3 DEF End, Holds, Coming
  <2>5. Between'
    BY <1>6, <2>1 DEF End, Between, AtWork
  <2>6. \A k \in Handlers : before'[k] = before[k] \/ k = h
    BY <1>6 DEF End, Types
  <2>7. Latest' /\ Counted' /\ MetricsOfServed'
    BY <1>6, <2>1, <2>6, Promised DEF End, Phases
  <2> QED
    BY <2>1, <2>2, <2>4, <2>5, <2>7
<1>7. CASE Unshow(h)
  <2>1. /\ pc' \in [Handlers -> Phases]
        /\ pc'[h] = "last" /\ \A g \in Handlers \ {h} : pc'[g] = pc[g]
        /\ Reporting' /\ InTurn'
    BY <1>7, Moved DEF Unshow, Phases, Reporting
  <2>2. /\ metrics' \in [connected : BOOLEAN, client : Handlers \cup {0}]
        /\ metrics'.client = metrics.client
    BY <1>7 DEF Unshow, Types
  <2>3. Types'
    BY <1>7, <2>1, <2>2 DEF Unshow, Types
  <2>4. active # h
    BY <1>7, ScreenAssumption DEF Unshow, Holds, Coming, Handlers
  <2>5. Holds'
    BY <1>7, <2>1, <2>4 DEF Unshow, Holds, Coming
  <2>6. Between'
    BY <1>7, <2>1 DEF Unshow, Between, AtWork
  <2>7. Latest' /\ Counted' /\ MetricsOfServed'
    BY <1>7, <2>1, <2>2, Promised DEF Unshow, Phases
  <2> QED
    BY <2>1, <2>3, <2>5, <2>6, <2>7
<1> QED
  BY <1>1, <1>2, <1>3, <1>4, <1>5, <1>6, <1>7 DEF HandlerStep

(* The steps of the controller *)
LEMMA ControlInv == ASSUME IInv, Control PROVE IInv'
<1> USE DEF IInv, Types, Reporting, InTurn, Holds, AtWork, Commands, server, tickers, ui
<1>1. CASE TakeCommand
  <2>1. PICK cmd \in {"start", "stop", "get-status"} : inbox = <<cmd>>
    BY <1>1 DEF TakeCommand
  <2>2. /\ cmd = "get-status" => ctl' = "report" /\ up' = up
        /\ cmd # "get-status" => ctl' = cmd /\ up' = FALSE
    BY <1>1, <2>1 DEF TakeCommand
  <2>3. inbox' = <<>> /\ UNCHANGED <<pc, say, active, metrics, items, before>>
    BY <1>1 DEF TakeCommand
  <2>4. Types' /\ Reporting' /\ InTurn' /\ Holds'
    BY <2>1, <2>2, <2>3
  <2>5. Between'
    BY <1>1, <2>1, <2>2, <2>3 DEF TakeCommand, Between
  <2>6. Latest' /\ Counted' /\ MetricsOfServed'
    BY <2>3 DEF Latest, Counted, MetricsOfServed, Serving
  <2> QED
    BY <2>4, <2>5, <2>6
<1>2. CASE Stopped
  BY <1>2 DEF Stopped, Between, Latest, Counted, MetricsOfServed, Serving
<1>3. CASE RunServer
  <2>1. \A h \in Handlers : ~Serving(h)
    BY <1>3 DEF RunServer, Between, Serving
  <2>2. Latest' /\ Counted' /\ MetricsOfServed'
    BY <1>3, <2>1 DEF RunServer, Latest, Counted, MetricsOfServed, Serving
  <2> QED
    BY <1>3, <2>2 DEF RunServer, Between, NoClient
<1>4. CASE Streaming
  BY <1>4 DEF Streaming, Between, Latest, Counted, MetricsOfServed, Serving
<1>5. CASE Report
  BY <1>5 DEF Report, Between, Latest, Counted, MetricsOfServed, Serving
<1> QED
  BY <1>1, <1>2, <1>3, <1>4, <1>5 DEF Control

(* The steps that do not concern the server *)
LEMMA OthersInv ==
    ASSUME IInv,
           \/ \E h \in Handlers : TickerStep(h)
           \/ StatusTick \/ StatusTell
           \/ Open \/ Register \/ ShowMenu \/ Age \/ Redraw \/ Press \/ Leave
           \/ UNCHANGED vars
    PROVE  IInv'
<1> USE DEF daemon, server, tickers, ui
<1>1. UNCHANGED <<pc, say, active, metrics, ctl, up, before>>
  BY DEF TickerStep, TickReads, TickSends, TickStops, StatusTick, StatusTell, Open, Register,
         ShowMenu, Age, Redraw, Press, Leave, vars
<1>2. /\ inbox' = <<>> \/ \E cmd \in {"start", "stop", "get-status"} : inbox' = <<cmd>>
      /\ items' \in {"none", "start", "stop"}
  BY DEF TickerStep, TickReads, TickSends, TickStops, StatusTick, StatusTell, Open, Register,
         ShowMenu, Age, Redraw, Offer, Press, Leave, vars, IInv, Types
<1> QED
  BY <1>1, <1>2
  DEF IInv, Types, Reporting, InTurn, Holds, Between, AtWork, Latest, Counted,
      MetricsOfServed, Serving

(* Whoever is served, the metrics are its own, or were cleared by a handler *)
(* that was still at work when it connected: for any number of requests,    *)
(* sessions and screens.                                                    *)
THEOREM MetricsAlwaysOfServed == Spec => []MetricsOfServed
<1>1. IInv /\ [Next]_vars => IInv'
  <2> SUFFICES ASSUME IInv, [Next]_vars PROVE IInv'
    OBVIOUS
  <2> QED
    BY HandlerInv, ControlInv, OthersInv DEF Next
<1>2. IInv => MetricsOfServed
  BY DEF IInv
<1> QED
  BY InitInv, <1>1, <1>2, PTL DEF Spec
=============================================================================
