-------------------------------- MODULE Boot --------------------------------
(***************************************************************************)
(* The life of the daemon: launch.sh starts it unless the pid file names a *)
(* live process, the daemon rotates its log, loads the configuration, then *)
(* takes over the socket path and writes the pid file; a signal stops it   *)
(* and the files are removed. It can die between any two of these steps:   *)
(* then both files stay, and only a power failure clears /tmp. The UI that *)
(* launch.sh becomes tries to connect a few times.                         *)
(*                                                                         *)
(* Assumed: a process id is not used again before /tmp is cleared, and the *)
(* UI's tries last longer than the daemon takes to start.                  *)
(***************************************************************************)
EXTENDS Integers, SequencesExt

CONSTANTS
    Daemons,   \* the process ids of the daemons that can be started, a bound
    Tries,     \* how often the UI tries to connect (10 in the code)
    Failures,  \* bound on the crashes and power failures
    Overlap,   \* whether launch.sh may run while a daemon starts or stops
    MaxRuns,   \* logMaxRuns
    MaxBytes,  \* logMaxBytes
    Sizes,     \* the sizes a run can grow to in the log
    None       \* no process

ASSUME BootAssumption ==
    /\ None \notin Daemons
    /\ {Tries, Failures, MaxBytes} \subseteq Nat /\ MaxRuns \in Nat \ {0, 1}
    /\ Overlap \in BOOLEAN
    /\ Sizes \subseteq Nat /\ 1 \in Sizes

VARIABLES
    pc,        \* where each daemon is
    sock,      \* the daemon that bound the socket at control.sock
    pidFile,   \* the process daemon.pid names, {} for an empty file
    ui,        \* where launch.sh or the UI it becomes is
    tries,     \* how often it has tried to connect
    readable,  \* config.json can be loaded
    log,       \* Cast.service.txt: the number and the size of each run
    data,      \* what each daemon's RotateLog has read of it
    latest,    \* the number of the run that last started
    failures,  \* how many crashes and power failures there were
    disturbed  \* the daemon was hurt, or could not start, since this launch

files  == <<sock, pidFile>>
screen == <<ui, tries, disturbed>>
logs   == <<log, data, latest>>
vars   == <<pc, files, screen, readable, logs, failures>>

Starting == {"read", "write", "start", "load", "unlink", "listen", "create", "pid"}
Stopping == {"stop", "close", "rmpid", "rmsock"}
Gone     == {"none", "dead"}

Alive == {d \in Daemons : pc[d] \notin Gone}

(* The process has the socket open: connecting to the path succeeds. *)
Listening(d) == pc[d] \in {"create", "pid", "serve", "stop", "close"}

-----------------------------------------------------------------------------
(* RotateLog *)

Bytes(runs) == FoldSeq(LAMBDA run, sum : run.size + sum, 0, runs)

(* The last MaxRuns - 1 begin here. *)
Newest(runs) == IF Len(runs) > MaxRuns - 1 THEN Len(runs) - (MaxRuns - 1) + 1 ELSE 1

(* Mutant: the loop can remove the only run left. *)
Trimmed_All(runs) ==
    LET left(i) == SubSeq(runs, i, Len(runs))
    IN  left(Min({i \in Newest(runs)..(Len(runs) + 1) : Bytes(left(i)) <= MaxBytes}))

(* The loop removes the first of the newest runs until they are short       *)
(* enough or there is no other.                                             *)
Trimmed(runs) ==
    LET left(i) == SubSeq(runs, i, Len(runs))
    IN  left(Min({i \in Newest(runs)..Len(runs) : Bytes(left(i)) <= MaxBytes \/ i = Len(runs)}))

(* A log that earlier daemons have left. *)
EarlierLogs ==
    {runs \in UNION {[1..n -> [run : 1..MaxRuns, size : Sizes]] : n \in 0..MaxRuns} :
        /\ \A i \in DOMAIN runs : runs[i].run = i
        /\ Len(runs) > 2 => Bytes(Front(runs)) <= MaxBytes}

Init ==
    /\ pc = [d \in Daemons |-> "none"]
    /\ sock = None /\ pidFile = None
    /\ ui = "off" /\ tries = 0
    /\ readable = TRUE
    /\ log \in EarlierLogs /\ data = [d \in Daemons |-> <<>>] /\ latest = Len(log)
    /\ failures = 0 /\ disturbed = FALSE

-----------------------------------------------------------------------------
(* launch.sh and the UI *)

(* Mutant: launch.sh starts a daemon whatever the pid file says. *)
Runs_NotAsked == FALSE

(* The file is there, and kill -0 finds the process. *)
Runs == pidFile \in Alive

Launch ==
    /\ ui = "off"
    /\ Overlap \/ \A d \in Daemons : pc[d] \in Gone \cup {"serve"}
    /\ \E d \in Daemons : pc[d] = "none"
    /\ IF Runs THEN UNCHANGED pc
               ELSE pc' = [pc EXCEPT ![CHOOSE d \in Daemons : pc[d] = "none"] = "read"]
    /\ ui' = "connect" /\ tries' = 0 /\ disturbed' = ~readable
    /\ UNCHANGED <<files, readable, logs, failures>>

(* The last try is made when no daemon is starting any more. *)
Connect ==
    /\ ui = "connect"
    /\ IF sock # None /\ Listening(sock)
         THEN ui' = "connected" /\ UNCHANGED tries
         ELSE /\ tries + 1 = Tries => \A d \in Daemons : pc[d] \notin Starting
              /\ tries' = tries + 1
              /\ ui' = IF tries' = Tries THEN "alone" ELSE ui
    /\ UNCHANGED <<pc, files, disturbed, readable, logs, failures>>

(* The UI saves its settings: Settings has the steps. *)
Save ==
    /\ ui \in {"connected", "alone"}
    /\ readable' = TRUE
    /\ UNCHANGED <<pc, files, screen, logs, failures>>

Quit ==
    /\ ui \in {"connected", "alone"}
    /\ ui' = "off" /\ tries' = 0 /\ disturbed' = FALSE
    /\ UNCHANGED <<pc, files, readable, logs, failures>>

-----------------------------------------------------------------------------
(* The daemon starts *)

Goto(d, from, to) == pc[d] = from /\ pc' = [pc EXCEPT ![d] = to]

ReadLog(d) ==
    /\ pc[d] = "read"
    /\ data' = [data EXCEPT ![d] = log]
    /\ IF log = <<>> \/ Trimmed(log) = log
         THEN Goto(d, "read", "start") /\ UNCHANGED log
         ELSE Goto(d, "read", "write") /\ log' = <<>>  \* os.WriteFile truncates
    /\ UNCHANGED <<latest, files, screen, readable, failures>>

WriteLog(d) ==
    /\ Goto(d, "write", "start")
    /\ log' = Trimmed(data[d])
    /\ UNCHANGED <<data, latest, files, screen, readable, failures>>

(* The line that splitRuns knows a run by. *)
LogStart(d) ==
    /\ Goto(d, "start", "load")
    /\ latest' = latest + 1
    /\ log' = Append(log, [run |-> latest', size |-> 1])
    /\ UNCHANGED <<data, files, screen, readable, failures>>

LoadConfig(d) ==
    /\ pc[d] = "load"
    /\ pc' = [pc EXCEPT ![d] = IF readable THEN "unlink" ELSE "dead"]
    /\ UNCHANGED <<files, screen, readable, logs, failures>>

(* Mutant: what a dead daemon left at the path stays. *)
Unlink_Not(d) ==
    /\ Goto(d, "unlink", "listen")
    /\ UNCHANGED <<files, screen, readable, logs, failures>>

Unlink(d) ==
    /\ Goto(d, "unlink", "listen")
    /\ sock' = None
    /\ UNCHANGED <<pidFile, screen, readable, logs, failures>>

(* Binding fails where something is at the path, and the daemon exits. *)
Listen(d) ==
    /\ IF sock = None THEN Goto(d, "listen", "create") /\ sock' = d
                      ELSE Goto(d, "listen", "dead") /\ UNCHANGED sock
    /\ UNCHANGED <<pidFile, screen, readable, logs, failures>>

CreatePid(d) ==
    /\ Goto(d, "create", "pid")
    /\ pidFile' = {}
    /\ UNCHANGED <<sock, screen, readable, logs, failures>>

(* Mutant: the process id is not written. *)
WritePid_Empty(d) ==
    /\ Goto(d, "pid", "serve")
    /\ UNCHANGED <<files, screen, readable, logs, failures>>

WritePid(d) ==
    /\ Goto(d, "pid", "serve")
    /\ pidFile' = d
    /\ UNCHANGED <<sock, screen, readable, logs, failures>>

Start(d) == \/ ReadLog(d) \/ WriteLog(d) \/ LogStart(d) \/ LoadConfig(d)
            \/ Unlink(d) \/ Listen(d) \/ CreatePid(d) \/ WritePid(d)

(* What the daemon logs while it serves. *)
Log(d) ==
    /\ pc[d] = "serve" /\ log # <<>> /\ log[Len(log)].size = 1
    /\ \E size \in Sizes : log' = [log EXCEPT ![Len(log)].size = size]
    /\ UNCHANGED <<pc, data, latest, files, screen, readable, failures>>

-----------------------------------------------------------------------------
(* The daemon ends *)

(* SIGTERM, from deploy.sh through the pid file or from the system. *)
Signal(d) ==
    /\ Goto(d, "serve", "stop")
    /\ disturbed' = TRUE
    /\ UNCHANGED <<files, ui, tries, readable, logs, failures>>

CmdStop(d) ==
    /\ Goto(d, "stop", "close")
    /\ UNCHANGED <<files, screen, readable, logs, failures>>

(* Closing the listener removes whatever is at the path. *)
CloseListener(d) ==
    /\ Goto(d, "close", "rmpid")
    /\ sock' = None
    /\ UNCHANGED <<pidFile, screen, readable, logs, failures>>

RemovePid(d) ==
    /\ Goto(d, "rmpid", "rmsock")
    /\ pidFile' = None
    /\ UNCHANGED <<sock, screen, readable, logs, failures>>

RemoveSock(d) ==
    /\ Goto(d, "rmsock", "dead")
    /\ sock' = None
    /\ UNCHANGED <<pidFile, screen, readable, logs, failures>>

Stop(d) == CmdStop(d) \/ CloseListener(d) \/ RemovePid(d) \/ RemoveSock(d)

(* What a save that is cut short can make of config.json: Settings. *)
Torn(saving) == IF saving THEN {readable, FALSE} ELSE {readable}

(* A kill, a panic, or a signal before signal.Notify. *)
Crash(d) ==
    /\ d \in Alive /\ failures < Failures
    /\ pc' = [pc EXCEPT ![d] = "dead"]
    /\ disturbed' = TRUE /\ failures' = failures + 1
    /\ readable' \in Torn(pc[d] = "serve" /\ ui = "connected")
    /\ UNCHANGED <<files, ui, tries, logs>>

(* It takes /tmp with it. *)
PowerFails ==
    /\ failures < Failures /\ (Alive # {} \/ ui # "off")
    /\ pc' = [d \in Daemons |-> IF d \in Alive THEN "dead" ELSE pc[d]]
    /\ sock' = None /\ pidFile' = None
    /\ ui' = "off" /\ tries' = 0 /\ disturbed' = FALSE
    /\ readable' \in Torn(ui \in {"connected", "alone"})
    /\ failures' = failures + 1
    /\ UNCHANGED logs

Next ==
    \/ Launch \/ Connect \/ Save \/ Quit
    \/ \E d \in Daemons : Start(d) \/ Log(d) \/ Signal(d) \/ Stop(d) \/ Crash(d)
    \/ PowerFails

Spec == Init /\ [][Next]_vars

-----------------------------------------------------------------------------
(* Properties *)

(* However the daemons before it ended, there is one daemon: the encoder,   *)
(* the port and the files are never shared.                                 *)
OneDaemon == \A d, e \in Alive : d = e

(* A daemon that serves is the one that the pid file names and that the     *)
(* socket leads to, whatever earlier ones left behind or removed late: else *)
(* it could not be stopped, or no UI could ever reach it.                   *)
PidTruth == \A d \in Daemons : pc[d] = "serve" => pidFile = d /\ sock = d

(* The UI gives up only where the daemon was stopped or hurt during the     *)
(* launch, or found a configuration that it cannot read: a stale pid file   *)
(* or socket never keeps it from a daemon.                                  *)
NeverAlone == ui = "alone" => disturbed

(* The log ends with the run that started last and has those before it      *)
(* without a gap, also after a crash in the middle of the rotation; and what*)
(* RotateLog leaves is the longest end of the log that is made of at most   *)
(* MaxRuns - 1 runs and fits, or else the last run alone.                   *)
LogRotated ==
    /\ \A i \in DOMAIN log : log[i].run = latest - Len(log) + i
    /\ \A d \in Daemons :
        LET ends == {SubSeq(data[d], i, Len(data[d])) : i \in 1..(Len(data[d]) + 1)}
            good == {runs \in ends : /\ Len(runs) <= MaxRuns - 1
                                     /\ Bytes(runs) <= MaxBytes \/ Len(runs) <= 1}
        IN  pc[d] = "start" => log \in good /\ \A runs \in good : Len(runs) <= Len(log)
=============================================================================
