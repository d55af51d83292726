----------------------------- MODULE BootProofs -----------------------------
(***************************************************************************)
(* For any number of daemons, crashes and power failures: where launch.sh  *)
(* does not run while a daemon starts or stops, there is one daemon at     *)
(* most, one that serves owns the pid file and the socket, and a UI that   *)
(* gives up was launched into a stop, a crash or a broken configuration.   *)
(***************************************************************************)
EXTENDS Boot, SequenceTheorems, WellFoundedInduction, TLAPS

Phases == Starting \cup {"serve"} \cup Stopping \cup Gone

(* From binding to closing the socket is the daemon's. *)
SockOwned == \A d \in Daemons : Listening(d) => sock = d

(* From writing to removing it, the pid file names the daemon. *)
PidOwned ==
    \A d \in Daemons : pc[d] \in {"serve", "stop", "close", "rmpid"} => pidFile = d

IInv ==
    /\ pc \in [Daemons -> Phases]
    /\ OneDaemon /\ SockOwned /\ PidOwned

LEMMA InitInv == Init => IInv
BY DEF Init, IInv, OneDaemon, SockOwned, PidOwned, Alive, Gone, Listening, Phases

(* launch.sh starts a daemon only where there is none: where it may run, a  *)
(* daemon that lives serves, and is the one in the pid file.                *)
LEMMA LaunchInv ==
    ASSUME ~Overlap, IInv, Launch
    PROVE  IInv'
<1> USE DEF IInv
<1>1. CASE Runs
  BY <1>1 DEF Launch, files, OneDaemon, SockOwned, PidOwned, Alive, Listening
<1>2. CASE ~Runs
  <2>1. Alive = {}
    BY <1>2 DEF Launch, Runs, PidOwned, Alive, Gone
  <2>2. PICK d \in Daemons : pc' = [pc EXCEPT ![d] = "read"]
    BY <1>2 DEF Launch
  <2>3. pc' \in [Daemons -> Phases]
    BY <2>2 DEF Phases, Starting
  <2>4. OneDaemon'
    BY <2>1, <2>2 DEF OneDaemon, Alive
  <2>5. SockOwned' /\ PidOwned'
    BY <2>1, <2>2 DEF SockOwned, PidOwned, Listening, Alive, Gone
  <2> QED BY <2>3, <2>4, <2>5
<1> QED BY <1>1, <1>2

(* A step of the one daemon that lives, on its way from binding the socket  *)
(* and writing the pid file to removing both.                               *)
LEMMA DaemonInv ==
    ASSUME IInv, NEW d \in Daemons, Start(d) \/ Log(d) \/ Signal(d) \/ Stop(d) \/ Crash(d)
    PROVE  IInv'
<1> USE DEF IInv
<1>1. d \in Alive
  BY DEF Start, Log, Signal, Stop, Crash, Goto, Alive, Gone, ReadLog, WriteLog, LogStart,
         LoadConfig, Unlink, Listen, CreatePid, WritePid, CmdStop, CloseListener,
         RemovePid, RemoveSock
<1>2. \A e \in Daemons \ {d} : pc[e] \in Gone
  BY <1>1 DEF OneDaemon, Alive
<1>3. PICK to \in Phases : pc' = [pc EXCEPT ![d] = to]
  <2>1. ASSUME NEW from, NEW to \in Phases, Goto(d, from, to)
        PROVE  \E t \in Phases : pc' = [pc EXCEPT ![d] = t]
    BY <2>1 DEF Goto
  <2>2. CASE Start(d)
    BY <2>1, <2>2 DEF Start, Goto, ReadLog, WriteLog, LogStart, LoadConfig, Unlink, Listen,
                      CreatePid, WritePid, Phases, Starting, Gone
  <2>3. CASE Log(d)
    BY <2>3 DEF Log
  <2>4. CASE Signal(d) \/ Stop(d)
    BY <2>4 DEF Signal, Stop, Goto, CmdStop, CloseListener, RemovePid, RemoveSock,
                Phases, Stopping, Gone
  <2>5. CASE Crash(d)
    BY <2>5 DEF Crash, Phases, Gone
  <2> QED BY <2>2, <2>3, <2>4, <2>5
<1>4. pc' \in [Daemons -> Phases] /\ OneDaemon'
  BY <1>2, <1>3 DEF OneDaemon, Alive
<1>5. \A e \in Daemons \ {d} : pc'[e] \in Gone
  BY <1>2, <1>3
<1>6. Listening(d)' => sock' = d
  <2>1. CASE Start(d)
    BY <2>1 DEF Start, Goto, ReadLog, WriteLog, LogStart, LoadConfig, Unlink, Listen,
                CreatePid, WritePid, SockOwned, Listening, files
  <2>2. CASE Log(d) \/ Signal(d) \/ Stop(d) \/ Crash(d)
    BY <2>2 DEF Log, Signal, Stop, Crash, Goto, CmdStop, CloseListener, RemovePid,
                RemoveSock, SockOwned, Listening, files
  <2> QED BY <2>1, <2>2
<1>7. pc'[d] \in {"serve", "stop", "close", "rmpid"} => pidFile' = d
  <2>1. CASE Start(d)
    BY <2>1 DEF Start, Goto, ReadLog, WriteLog, LogStart, LoadConfig, Unlink, Listen,
                CreatePid, WritePid, PidOwned, files
  <2>2. CASE Log(d) \/ Signal(d) \/ Stop(d) \/ Crash(d)
    BY <2>2 DEF Log, Signal, Stop, Crash, Goto, CmdStop, CloseListener, RemovePid,
                RemoveSock, PidOwned, files
  <2> QED BY <2>1, <2>2
<1>8. SockOwned' /\ PidOwned'
  BY <1>5, <1>6, <1>7 DEF SockOwned, PidOwned, Listening, Gone
<1> QED BY <1>4, <1>8

(* A power failure leaves no daemon. *)
LEMMA PowerInv ==
    ASSUME IInv, PowerFails
    PROVE  IInv'
<1>1. \A d \in Daemons : pc'[d] \in Gone
  BY DEF PowerFails, Alive, Gone
<1>2. pc' \in [Daemons -> Phases]
  BY DEF PowerFails, IInv, Phases, Gone
<1> QED BY <1>1, <1>2 DEF IInv, OneDaemon, SockOwned, PidOwned, Alive, Gone, Listening

LEMMA NextInv ==
    ASSUME ~Overlap, IInv, [Next]_vars
    PROVE  IInv'
<1>1. CASE Launch
  BY <1>1, LaunchInv
<1>2. CASE Connect \/ Save \/ Quit \/ UNCHANGED vars
  BY <1>2 DEF IInv, OneDaemon, SockOwned, PidOwned, Alive, Listening, Connect, Save, Quit,
              vars, files
<1>3. ASSUME NEW d \in Daemons, Start(d) \/ Log(d) \/ Signal(d) \/ Stop(d) \/ Crash(d)
      PROVE  IInv'
  BY <1>3, DaemonInv
<1>4. CASE PowerFails
  BY <1>4, PowerInv
<1> QED BY <1>1, <1>2, <1>3, <1>4 DEF Next

LEMMA Always == ASSUME ~Overlap PROVE Spec => []IInv
<1>1. IInv /\ [Next]_vars => IInv'
  BY NextInv
<1> QED BY <1>1, InitInv, PTL DEF Spec

(* There is one daemon, whatever died before it and left its files.         *)
THEOREM OnlyOneDaemon == ASSUME ~Overlap PROVE Spec => []OneDaemon
<1>1. IInv => OneDaemon
  BY DEF IInv
<1> QED BY <1>1, Always, PTL

(* A daemon that serves can be found and stopped through its files.         *)
THEOREM FilesTellTheTruth == ASSUME ~Overlap PROVE Spec => []PidTruth
<1>1. IInv => PidTruth
  BY DEF IInv, PidTruth, SockOwned, PidOwned, Listening
<1> QED BY <1>1, Always, PTL

-----------------------------------------------------------------------------
(* The UI that launch.sh becomes *)

(* While it tries to connect and nothing was hurt, the daemon it was        *)
(* launched with is on its way or serves, with a configuration it can load. *)
Expected ==
    ui = "connect" /\ ~disturbed =>
        readable /\ \E d \in Daemons : pc[d] \in Starting \cup {"serve"}

(* The path is free when the daemon binds it. *)
Unlinked == \A d \in Daemons : pc[d] = "listen" => sock = None

UiInv == Unlinked /\ Expected /\ NeverAlone

LEMMA UiLaunch ==
    ASSUME ~Overlap, IInv, UiInv, Launch
    PROVE  UiInv'
<1> USE DEF UiInv
<1>1. /\ ui' = "connect" /\ (~disturbed' => readable) /\ UNCHANGED readable
      /\ UNCHANGED sock
  BY DEF Launch, files
<1>2. CASE Runs
  <2>1. UNCHANGED pc /\ pidFile \in Daemons /\ pc[pidFile] = "serve"
    BY <1>2 DEF Launch, Runs, Alive
  <2> QED
    BY <1>1, <2>1 DEF Unlinked, Expected, NeverAlone, Starting
<1>3. CASE ~Runs
  <2>1. PICK d \in Daemons : pc' = [pc EXCEPT ![d] = "read"]
    BY <1>3 DEF Launch
  <2>2. pc'[d] = "read"
    BY <2>1 DEF IInv
  <2>3. Unlinked'
    BY <1>1, <2>1 DEF Unlinked, IInv
  <2> QED
    BY <1>1, <2>2, <2>3 DEF Expected, NeverAlone, Starting
<1> QED
  BY <1>2, <1>3

(* The last try is made when the daemon serves or was hurt; one that serves *)
(* is reached.                                                              *)
LEMMA UiConnect ==
    ASSUME IInv, UiInv, Connect
    PROVE  UiInv'
<1> USE DEF UiInv
<1>1. UNCHANGED <<pc, sock, disturbed, readable>> /\ ui = "connect"
  BY DEF Connect, files
<1>2. ui' = "alone" => \A d \in Daemons : pc[d] \notin Starting \cup {"serve"}
  <2> SUFFICES ASSUME ui' = "alone", NEW d \in Daemons, pc[d] \in Starting \cup {"serve"}
               PROVE  FALSE
    OBVIOUS
  <2>1. ~(sock # None /\ Listening(sock))
    BY DEF Connect
  <2>2. pc[d] \notin Starting
    BY <1>1 DEF Connect
  <2>3. pc[d] = "serve" /\ sock = d
    BY <2>2 DEF IInv, SockOwned, Listening
  <2> QED
    BY <2>1, <2>3, BootAssumption DEF Listening
<1>3. ui' = "alone" => disturbed
  BY <1>1, <1>2 DEF Expected
<1>4. ui' = "connect" => ui = "connect"
  BY <1>1
<1> QED
  BY <1>1, <1>3, <1>4 DEF Unlinked, Expected, NeverAlone

(* A daemon that nobody hurts comes to serve: its configuration can be      *)
(* loaded, and it finds the path free.                                      *)
LEMMA UiDaemon ==
    ASSUME IInv, UiInv, NEW d \in Daemons, Start(d)
    PROVE  UiInv'
<1> USE DEF UiInv
<1>1. UNCHANGED <<ui, disturbed, readable>> /\ pc[d] \in Starting
  BY DEF Start, ReadLog, WriteLog, LogStart, LoadConfig, Unlink, Listen, CreatePid, WritePid,
         Goto, screen, Starting
<1>2. \A e \in Daemons \ {d} : pc[e] \in Gone /\ pc'[e] = pc[e]
  <2>1. d \in Alive
    BY <1>1 DEF Alive, Gone, Starting
  <2>2. \A e \in Daemons \ {d} : pc[e] \in Gone
    BY <2>1 DEF IInv, OneDaemon, Alive
  <2> QED
    BY <2>2 DEF Start, ReadLog, WriteLog, LogStart, LoadConfig, Unlink, Listen, CreatePid,
                WritePid, Goto, IInv
<1>3. readable => pc'[d] \in Starting \cup {"serve"}
  BY DEF Start, ReadLog, WriteLog, LogStart, LoadConfig, Unlink, Listen, CreatePid, WritePid,
         Goto, Starting, IInv, Unlinked
<1>4. pc'[d] = "listen" => sock' = None
  BY DEF Start, ReadLog, WriteLog, LogStart, LoadConfig, Unlink, Listen, CreatePid, WritePid,
         Goto, IInv
<1>5. Unlinked'
  BY <1>2, <1>4 DEF Unlinked, Gone
<1> QED
  BY <1>1, <1>3, <1>5 DEF Expected, NeverAlone

(* Whatever ends a daemon counts as hurting it. *)
LEMMA UiEnd ==
    ASSUME IInv, UiInv, NEW d \in Daemons, Log(d) \/ Signal(d) \/ Stop(d) \/ Crash(d)
    PROVE  UiInv'
<1> USE DEF UiInv
<1>1. CASE Log(d)
  BY <1>1 DEF Log, files, screen, Unlinked, Expected, NeverAlone
<1>2. CASE Signal(d)
  BY <1>2 DEF Signal, Goto, files, Unlinked, Expected, NeverAlone, IInv
<1>3. CASE Crash(d)
  BY <1>3 DEF Crash, files, Unlinked, Expected, NeverAlone, IInv
<1>4. CASE Stop(d)
  <2>1. UNCHANGED <<ui, disturbed, readable>> /\ pc[d] \in Stopping
        /\ pc'[d] \in Stopping \cup {"dead"} /\ \A e \in Daemons \ {d} : pc'[e] = pc[e]
    BY <1>4 DEF Stop, CmdStop, CloseListener, RemovePid, RemoveSock, Goto, screen, Stopping,
                IInv
  <2>2. \A e \in Daemons \ {d} : pc[e] \in Gone
    BY <2>1 DEF IInv, OneDaemon, Alive, Stopping, Gone
  <2>3. \A e \in Daemons : pc[e] \notin Starting \cup {"serve"} /\ pc'[e] # "listen"
    BY <2>1, <2>2 DEF Stopping, Gone, Starting
  <2> QED
    BY <2>1, <2>3 DEF Unlinked, Expected, NeverAlone
<1> QED
  BY <1>1, <1>2, <1>3, <1>4

LEMMA UiStep ==
    ASSUME ~Overlap, IInv, UiInv, [Next]_vars
    PROVE  UiInv'
<1>1. CASE Save \/ Quit \/ UNCHANGED vars
  BY <1>1 DEF UiInv, Unlinked, Expected, NeverAlone, Save, Quit, vars, files, screen
<1>2. CASE PowerFails
  <2>1. ui' = "off" /\ sock' = None
    BY <1>2 DEF PowerFails
  <2> QED
    BY <2>1 DEF UiInv, Unlinked, Expected, NeverAlone
<1>3. ASSUME NEW d \in Daemons, Start(d) \/ Log(d) \/ Signal(d) \/ Stop(d) \/ Crash(d)
      PROVE  UiInv'
  BY <1>3, UiDaemon, UiEnd
<1> QED
  BY <1>1, <1>2, <1>3, UiLaunch, UiConnect DEF Next

(* A UI that stays without a daemon was launched into a stop, a crash or a  *)
(* configuration that cannot be read: no file that an earlier daemon left   *)
(* behind keeps it from one.                                                *)
THEOREM NeverLeftAlone == ASSUME ~Overlap PROVE Spec => []NeverAlone
<1>1. Init => UiInv
  BY DEF Init, UiInv, Unlinked, Expected, NeverAlone
<1>2. IInv /\ UiInv /\ [Next]_vars => UiInv'
  BY UiStep
<1>3. UiInv => NeverAlone
  BY DEF UiInv
<1> QED
  BY <1>1, <1>2, <1>3, Always, PTL DEF Spec

-----------------------------------------------------------------------------
(* The log *)

(* A set of numbers that is not empty has a least one. *)
LEMMA MinIsLeast ==
    ASSUME NEW S \in SUBSET Nat, S # {}
    PROVE  Min(S) \in S /\ \A n \in S : Min(S) <= n
<1>1. PICK m \in S : \A n \in S : ~(<<n, m>> \in OpToRel(<, Nat))
  BY NatLessThanWellFounded, WFMin
<1>2. ASSUME NEW n \in S PROVE m <= n
  <2>1. m \in Nat /\ n \in Nat
    OBVIOUS
  <2>2. n < m => <<n, m>> \in OpToRel(<, Nat)
    BY <2>1 DEF OpToRel
  <2>3. ~(n < m)
    BY <1>1, <2>2, Zenon
  <2> QED
    BY <2>1, <2>3
<1> QED
  BY <1>1, <1>2 DEF Min

RunSet == [run : Int, size : Nat]

(* What is left from the i-th run on *)
Left(runs, i) == SubSeq(runs, i, Len(runs))

Fits(runs, i) ==
    /\ Len(runs) - i + 1 <= MaxRuns - 1
    /\ Bytes(Left(runs, i)) <= MaxBytes \/ i = Len(runs)

(* RotateLog keeps the runs from the first one from which they fit. *)
LEMMA TrimmedFits ==
    ASSUME NEW runs \in Seq(RunSet), runs # <<>>
    PROVE  \E i \in 1..Len(runs) :
              /\ Trimmed(runs) = Left(runs, i)
              /\ Fits(runs, i)
              /\ \A j \in 1..Len(runs) : Fits(runs, j) => i <= j
<1>1. PICK n \in Nat : n = Len(runs) /\ n > 0
  BY EmptySeq
<1>2. PICK m \in Nat : m = MaxRuns /\ m > 1
  BY BootAssumption
<1>3. /\ Newest(runs) \in 1..n
      /\ \A j \in 1..n : j >= Newest(runs) <=> n - j + 1 <= m - 1
  BY <1>1, <1>2 DEF Newest
<1> DEFINE S == {i \in Newest(runs)..n : Bytes(Left(runs, i)) <= MaxBytes \/ i = n}
<1>4. Min(S) \in S /\ \A j \in S : Min(S) <= j
  <2>1. n \in S /\ S \in SUBSET Nat
    BY <1>1, <1>3
  <2> QED
    BY <2>1, MinIsLeast
<1>5. Trimmed(runs) = Left(runs, Min(S))
  BY <1>1 DEF Trimmed, Left
<1>6. Min(S) \in 1..n /\ Fits(runs, Min(S))
  BY <1>1, <1>2, <1>3, <1>4 DEF Fits
<1>7. ASSUME NEW j \in 1..n, Fits(runs, j) PROVE Min(S) <= j
  <2>1. j \in S
    BY <1>1, <1>2, <1>3, <1>7 DEF Fits
  <2> QED
    BY <1>4, <2>1
<1> QED
  BY <1>1, <1>5, <1>6, <1>7

(* The runs have the numbers up to the latest one. *)
Numbered(runs) == \A i \in 1..Len(runs) : runs[i].run = latest - Len(runs) + i

(* A daemon that writes the log has read it all. *)
Read ==
    \A d \in Daemons : pc[d] = "write" => data[d] # <<>> /\ Numbered(data[d])

(* A daemon that has rotated the log has left the longest end that fits. *)
Rotated ==
    \A d \in Daemons : pc[d] = "start" =>
        \/ data[d] = <<>> /\ log = <<>>
        \/ \E i \in 1..Len(data[d]) :
              /\ log = Left(data[d], i)
              /\ Fits(data[d], i)
              /\ \A j \in 1..Len(data[d]) : Fits(data[d], j) => i <= j

LogInv ==
    /\ latest \in Nat /\ log \in Seq(RunSet) /\ data \in [Daemons -> Seq(RunSet)]
    /\ Numbered(log)
    /\ Read
    /\ Rotated

LEMMA LogInit == Init => LogInv
<1> SUFFICES ASSUME Init PROVE LogInv
  OBVIOUS
<1>1. PICK n \in 0..MaxRuns : log \in [1..n -> [run : 1..MaxRuns, size : Sizes]]
  BY DEF Init, EarlierLogs
<1>2. ASSUME NEW i \in 1..n PROVE log[i] \in RunSet
  <2>1. log[i] \in [run : 1..MaxRuns, size : Sizes]
    BY <1>1
  <2>2. PICK k \in 1..MaxRuns, z \in Sizes : log[i] = [run |-> k, size |-> z]
    BY <2>1
  <2>3. k \in Int /\ z \in Nat
    BY BootAssumption
  <2> QED
    BY <2>2, <2>3 DEF RunSet
<1>3. n \in Nat
  BY BootAssumption
<1>4. log \in Seq(RunSet) /\ Len(log) = n
  <2>1. log \in [1..n -> RunSet]
    BY <1>1, <1>2
  <2> QED
    BY <1>3, <2>1
<1>5. \A i \in 1..n : log[i].run = i
  BY <1>1 DEF Init, EarlierLogs
<1>6. Numbered(log) /\ latest \in Nat
  BY <1>3, <1>4, <1>5 DEF Init, Numbered
<1> QED
  BY <1>4, <1>6, EmptySeq DEF Init, LogInv, Read, Rotated

(* Nobody else touches the log while a daemon rotates it. *)
LEMMA LogAlone ==
    ASSUME IInv, NEW d \in Daemons, pc[d] \notin Gone
    PROVE  \A e \in Daemons \ {d} : pc[e] \in Gone
BY DEF IInv, OneDaemon, Alive

LEMMA LogQuiet ==
    ASSUME LogInv, UNCHANGED logs,
           \A d \in Daemons : pc'[d] \in {"write", "start"} => pc'[d] = pc[d]
    PROVE  LogInv'
BY DEF LogInv, logs, Numbered, Read, Rotated

LEMMA ReadLogInv ==
    ASSUME IInv, LogInv, NEW d \in Daemons, ReadLog(d)
    PROVE  LogInv'
<1> USE DEF LogInv
<1>1. /\ pc[d] = "read" /\ data' = [data EXCEPT ![d] = log] /\ UNCHANGED latest
      /\ data'[d] = log
  BY DEF ReadLog
<1>2. \A e \in Daemons \ {d} : pc'[e] = pc[e] /\ pc'[e] \in Gone
  BY <1>1, LogAlone DEF ReadLog, Goto, IInv, Gone
<1>3. CASE log = <<>> \/ Trimmed(log) = log
  <2>1. pc'[d] = "start" /\ UNCHANGED log
    BY <1>3 DEF ReadLog, Goto, IInv
  <2>2. \/ log = <<>>
        \/ \E i \in 1..Len(log) : /\ log = Left(log, i) /\ Fits(log, i)
                                  /\ \A j \in 1..Len(log) : Fits(log, j) => i <= j
    BY <1>3, TrimmedFits
  <2>3. Rotated'
    BY <1>1, <1>2, <2>1, <2>2 DEF Rotated, Gone
  <2>4. Numbered(log)' /\ Read'
    BY <1>1, <1>2, <2>1 DEF Numbered, Read, Gone
  <2> QED
    BY <1>1, <2>1, <2>3, <2>4
<1>4. CASE ~(log = <<>> \/ Trimmed(log) = log)
  <2>1. pc'[d] = "write" /\ log' = <<>> /\ log # <<>>
    BY <1>4 DEF ReadLog, Goto, IInv
  <2>2. Read'
    BY <1>1, <1>2, <2>1 DEF Numbered, Read, Gone
  <2>3. Numbered(log)' /\ log' \in Seq(RunSet)
    BY <2>1, EmptySeq DEF Numbered
  <2>4. Rotated'
    BY <1>2, <2>1 DEF Rotated, Gone
  <2> QED
    BY <1>1, <2>2, <2>3, <2>4
<1> QED
  BY <1>3, <1>4

LEMMA WriteLogInv ==
    ASSUME IInv, LogInv, NEW d \in Daemons, WriteLog(d)
    PROVE  LogInv'
<1> USE DEF LogInv
<1>1. /\ pc[d] = "write" /\ pc'[d] = "start" /\ UNCHANGED <<data, latest>>
      /\ log' = Trimmed(data[d])
  BY DEF WriteLog, Goto, IInv
<1>2. \A e \in Daemons \ {d} : pc'[e] \in Gone
  BY <1>1, LogAlone DEF WriteLog, Goto, IInv, Gone
<1>3. PICK D \in Seq(RunSet) : D = data[d] /\ D # <<>> /\ Numbered(D)
  BY <1>1 DEF Read
<1>4. PICK i \in 1..Len(D) : /\ log' = Left(D, i) /\ Fits(D, i)
                             /\ \A j \in 1..Len(D) : Fits(D, j) => i <= j
  BY <1>1, <1>3, TrimmedFits
<1>5. PICK n \in Nat : n = Len(D) /\ i \in Nat /\ i >= 1 /\ i <= n
  OBVIOUS
<1>6. /\ log' \in Seq(RunSet) /\ Len(log') = n - i + 1
      /\ \A k \in 1..(n - i + 1) : log'[k] = D[i + k - 1]
  <2>1. \A k \in i..n : D[k] \in RunSet
    BY <1>5
  <2> QED
    BY <1>4, <1>5, <2>1, SubSeqProperties DEF Left
<1>7. ASSUME NEW k \in 1..(n - i + 1) PROVE log'[k].run = latest - (n - i + 1) + k
  <2>1. i + k - 1 \in 1..n
    BY <1>5
  <2>2. D[i + k - 1].run = latest - n + (i + k - 1)
    BY <1>3, <1>5, <2>1 DEF Numbered
  <2> QED
    BY <1>5, <1>6, <2>2
<1>8. Numbered(log)'
  BY <1>1, <1>6, <1>7 DEF Numbered
<1>9. Rotated'
  BY <1>1, <1>2, <1>3, <1>4 DEF Rotated, Gone
<1>10. Read'
  BY <1>1, <1>2 DEF Read, Gone
<1> QED
  BY <1>1, <1>6, <1>8, <1>9, <1>10

LEMMA LogStartInv ==
    ASSUME IInv, LogInv, NEW d \in Daemons, LogStart(d)
    PROVE  LogInv'
<1> USE DEF LogInv
<1>1. /\ pc[d] = "start" /\ pc'[d] = "load" /\ UNCHANGED data /\ latest' = latest + 1
      /\ log' = Append(log, [run |-> latest + 1, size |-> 1])
  BY DEF LogStart, Goto, IInv
<1>2. \A e \in Daemons \ {d} : pc'[e] \in Gone
  BY <1>1, LogAlone DEF LogStart, Goto, IInv, Gone
<1>3. PICK n \in Nat : n = Len(log)
  OBVIOUS
<1>4. [run |-> latest + 1, size |-> 1] \in RunSet
  BY DEF RunSet
<1>5. /\ log' \in Seq(RunSet) /\ Len(log') = n + 1
      /\ \A i \in 1..n : log'[i] = log[i]
      /\ log'[n + 1].run = latest + 1
  BY <1>1, <1>3, <1>4, AppendProperties
<1>6. ASSUME NEW i \in 1..(n + 1) PROVE log'[i].run = (latest + 1) - (n + 1) + i
  <2>1. CASE i = n + 1
    BY <1>5, <2>1
  <2>2. CASE i # n + 1
    <3>1. i \in 1..n
      BY <2>2
    <3>2. log[i].run = latest - n + i
      BY <1>3, <3>1 DEF Numbered
    <3> QED
      BY <1>5, <3>1, <3>2
  <2> QED
    BY <2>1, <2>2
<1>7. Numbered(log)'
  BY <1>1, <1>5, <1>6 DEF Numbered
<1>8. Read' /\ Rotated'
  BY <1>1, <1>2 DEF Read, Rotated, Gone
<1> QED
  BY <1>1, <1>5, <1>7, <1>8

LEMMA LogGrowsInv ==
    ASSUME IInv, LogInv, NEW d \in Daemons, Log(d)
    PROVE  LogInv'
<1> USE DEF LogInv
<1>1. pc[d] = "serve" /\ UNCHANGED <<pc, data, latest>> /\ log # <<>>
  BY DEF Log
<1>2. \A e \in Daemons : pc'[e] \notin {"write", "start"}
  BY <1>1, LogAlone DEF Gone
<1>3. PICK n \in Nat : n = Len(log) /\ n > 0 /\ n \in 1..Len(log)
  BY <1>1, EmptySeq
<1>4. PICK size \in Sizes : log' = [log EXCEPT ![n].size = size]
  BY <1>3 DEF Log
<1>5. PICK last \in RunSet : log' = [log EXCEPT ![n] = last] /\ last.run = log[n].run
  <2>1. PICK r \in RunSet : r = log[n]
    BY <1>3
  <2>2. PICK s \in Nat : s = size
    BY BootAssumption
  <2>3. [r EXCEPT !.size = s] \in RunSet /\ [r EXCEPT !.size = s].run = r.run
    BY DEF RunSet
  <2> QED
    BY <1>4, <2>1, <2>2, <2>3
<1>6. /\ log' \in Seq(RunSet) /\ Len(log') = n
      /\ \A i \in 1..n : log'[i] = IF i = n THEN last ELSE log[i]
  <2>1. log \in Seq(RunSet)
    OBVIOUS
  <2>2. /\ [log EXCEPT ![n] = last] \in Seq(RunSet)
        /\ Len([log EXCEPT ![n] = last]) = Len(log)
        /\ \A i \in 1..Len(log) : [log EXCEPT ![n] = last][i] = IF i = n THEN last ELSE log[i]
    BY <1>3, <2>1, ExceptSeq
  <2> QED
    BY <1>3, <1>5, <2>2
<1>7. \A i \in 1..n : log'[i].run = log[i].run
  BY <1>5, <1>6
<1>8. Numbered(log)'
  BY <1>1, <1>3, <1>6, <1>7 DEF Numbered
<1>9. Read' /\ Rotated'
  BY <1>2 DEF Read, Rotated
<1> QED
  BY <1>1, <1>6, <1>8, <1>9

LEMMA LogStep ==
    ASSUME ~Overlap, IInv, LogInv, [Next]_vars
    PROVE  LogInv'
<1> DEFINE Quiet == \A e \in Daemons : pc'[e] \in {"write", "start"} => pc'[e] = pc[e]
<1>1. CASE Launch \/ Connect \/ Save \/ Quit \/ PowerFails \/ UNCHANGED vars
  <2>1. CASE Launch
    <3>1. UNCHANGED logs
      BY <2>1 DEF Launch
    <3>2. CASE Runs
      BY <2>1, <3>1, <3>2, LogQuiet DEF Launch
    <3>3. CASE ~Runs
      <4>1. PICK d \in Daemons : pc' = [pc EXCEPT ![d] = "read"]
        BY <2>1, <3>3 DEF Launch
      <4>2. Quiet
        BY <4>1 DEF IInv
      <4> QED
        BY <3>1, <4>2, LogQuiet
    <3> QED
      BY <3>2, <3>3
  <2>2. CASE PowerFails
    <3>1. UNCHANGED logs /\ Quiet
      BY <2>2 DEF PowerFails
    <3> QED
      BY <3>1, LogQuiet
  <2>3. CASE Connect \/ Save \/ Quit \/ UNCHANGED vars
    BY <2>3, LogQuiet DEF Connect, Save, Quit, vars
  <2> QED
    BY <1>1, <2>1, <2>2, <2>3
<1>2. ASSUME NEW d \in Daemons, \/ LoadConfig(d) \/ Unlink(d) \/ Listen(d) \/ CreatePid(d)
                               \/ WritePid(d) \/ Signal(d) \/ Stop(d) \/ Crash(d)
      PROVE  LogInv'
  <2>1. UNCHANGED logs /\ Quiet
    BY <1>2 DEF LoadConfig, Unlink, Listen, CreatePid, WritePid, Signal, Stop, CmdStop,
                CloseListener, RemovePid, RemoveSock, Crash, Goto, IInv
  <2> QED
    BY <2>1, LogQuiet
<1>3. ASSUME NEW d \in Daemons, ReadLog(d) \/ WriteLog(d) \/ LogStart(d) \/ Log(d)
      PROVE  LogInv'
  BY <1>3, ReadLogInv, WriteLogInv, LogStartInv, LogGrowsInv
<1> QED
  BY <1>1, <1>2, <1>3 DEF Next, Start

Ends(runs) == {SubSeq(runs, i, Len(runs)) : i \in 1..(Len(runs) + 1)}

Good(runs) ==
    {end \in Ends(runs) : Len(end) <= MaxRuns - 1 /\ (Bytes(end) <= MaxBytes \/ Len(end) <= 1)}

LEMMA EndLength ==
    ASSUME NEW runs \in Seq(RunSet), NEW i \in 1..(Len(runs) + 1)
    PROVE  Len(SubSeq(runs, i, Len(runs))) = Len(runs) - i + 1
<1>1. \A k \in i..Len(runs) : runs[k] \in RunSet
  OBVIOUS
<1> QED
  BY <1>1, SubSeqProperties

(* That end is the longest of the ends that fit, in the words of the property *)
LEMMA LongestEnd ==
    ASSUME NEW runs \in Seq(RunSet), NEW i \in 1..Len(runs), Fits(runs, i),
           \A j \in 1..Len(runs) : Fits(runs, j) => i <= j
    PROVE  Left(runs, i) \in Good(runs) /\ \A end \in Good(runs) : Len(end) <= Len(Left(runs, i))
<1>1. PICK n \in Nat, m \in Nat : n = Len(runs) /\ m = MaxRuns /\ m > 1
  BY BootAssumption
<1>2. Left(runs, i) \in Ends(runs) /\ Len(Left(runs, i)) = n - i + 1
  BY <1>1, EndLength DEF Left, Ends
<1>3. Left(runs, i) \in Good(runs)
  BY <1>1, <1>2 DEF Fits, Good
<1>4. ASSUME NEW end \in Good(runs) PROVE Len(end) <= Len(Left(runs, i))
  <2>1. PICK j \in 1..(n + 1) : end = SubSeq(runs, j, n)
    BY <1>1 DEF Good, Ends
  <2>2. Len(end) = n - j + 1
    BY <1>1, <2>1, EndLength
  <2>3. j \in 1..n => Fits(runs, j)
    BY <1>1, <2>1, <2>2 DEF Fits, Left, Good
  <2>4. i <= j
    BY <1>1, <2>3
  <2> QED
    BY <1>1, <1>2, <2>2, <2>4
<1> QED
  BY <1>3, <1>4

LEMMA NoRuns == <<>> \in Good(<<>>) /\ \A end \in Good(<<>>) : Len(end) <= Len(<<>>)
<1>1. <<>> \in Seq(RunSet) /\ Len(<<>>) = 0
  BY EmptySeq
<1>2. SubSeq(<<>>, 1, 0) = <<>>
  BY SubSeqEmpty
<1>3. \A i \in 1..1 : i = 1
  OBVIOUS
<1>4. Ends(<<>>) = {<<>>}
  <2>1. 1..(Len(<<>>) + 1) = {1}
    BY <1>1
  <2> QED
    BY <1>1, <1>2, <2>1, Zenon DEF Ends
<1>5. 0 <= MaxRuns - 1
  BY BootAssumption
<1> QED
  BY <1>1, <1>4, <1>5 DEF Good

(* The log ends with the latest run and has those before it without a gap,  *)
(* and RotateLog leaves the longest end that is short enough, wherever the  *)
(* rotations before it were cut off.                                        *)
THEOREM LogAlwaysRotated == ASSUME ~Overlap PROVE Spec => []LogRotated
<1>1. LogInv => LogRotated
  <2> SUFFICES ASSUME LogInv PROVE LogRotated
    OBVIOUS
  <2>1. \A i \in DOMAIN log : log[i].run = latest - Len(log) + i
    BY DEF LogInv, Numbered
  <2>2. ASSUME NEW d \in Daemons, pc[d] = "start"
        PROVE  log \in Good(data[d]) /\ \A end \in Good(data[d]) : Len(end) <= Len(log)
    <3>1. PICK D \in Seq(RunSet) : D = data[d]
      BY DEF LogInv
    <3>2. CASE D = <<>> /\ log = <<>>
      BY <3>1, <3>2, NoRuns
    <3>3. ASSUME NEW i \in 1..Len(D), log = Left(D, i), Fits(D, i),
                 \A j \in 1..Len(D) : Fits(D, j) => i <= j
          PROVE  log \in Good(D) /\ \A end \in Good(D) : Len(end) <= Len(log)
      BY <3>3, LongestEnd
    <3> QED
      BY <2>2, <3>1, <3>2, <3>3 DEF LogInv, Rotated
  <2> QED
    BY <2>1, <2>2 DEF LogRotated, Good, Ends
<1>2. IInv /\ LogInv /\ [Next]_vars => LogInv'
  BY LogStep
<1> QED
  BY <1>1, <1>2, LogInit, Always, PTL DEF Spec
=============================================================================
