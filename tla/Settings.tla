------------------------------ MODULE Settings ------------------------------
(***************************************************************************)
(* The settings: the UI and the daemon each have a copy and both write it  *)
(* to config.json, without a lock and without reading it again. The UI     *)
(* changes its copy, saves it and sends the change; the daemon applies the *)
(* changes in the order they were sent and saves its own copy after each.  *)
(* os.WriteFile truncates the file and then writes at the offset 0, so two *)
(* writers can leave the end of the longer text behind the shorter one,    *)
(* and a power failure can leave the file empty.                           *)
(*                                                                         *)
(* Assumed: writing does not fail, a UI that starts while the daemon is    *)
(* alive gets connected, and it is not started again before the daemon has *)
(* handled what the previous one sent.                                     *)
(***************************************************************************)
EXTENDS Naturals, Sequences, SequencesExt

CONSTANTS
    MaxChanges,  \* bound on the settings the user changes
    MaxFailures  \* bound on the power failures

ASSUME SettingsAssumption == MaxChanges \in Nat /\ MaxFailures \in Nat

VARIABLES
    file,     \* config.json: its state, its size, and what Load makes of it
    upc,      \* where the UI is
    ui,       \* a.cfg
    outbox,   \* the commands it has still to send
    dpc,      \* where the daemon's handler is
    daemon,   \* c.cfg
    inbox,    \* the commands sent and not handled
    chosen,   \* the configurations this UI has shown
    changes,  \* how many settings were changed
    failures  \* how many power failures there were

uivars == <<upc, ui, outbox, chosen, changes>>
vars   == <<file, uivars, dpc, daemon, inbox, failures>>

Options == [
    quality   |-> <<"low", "medium", "high", "ultra">>,
    audio     |-> <<"true", "false">>,
    encoder   |-> <<"auto", "cedar", "ffmpeg">>,
    transport |-> <<"ts", "h264", "rtp">>,
    log_level |-> <<"info", "debug">>]

Names == DOMAIN Options

Defaults == [quality |-> "medium", audio |-> "true", encoder |-> "auto",
             transport |-> "ts", log_level |-> "info"]

(* The length of the text of a configuration, but for what is the same in all. *)
Letters == [low |-> 3, medium |-> 6, high |-> 4, ultra |-> 5, true |-> 4, false |-> 5,
            auto |-> 4, cedar |-> 5, ffmpeg |-> 6, ts |-> 2, h264 |-> 4, rtp |-> 3,
            info |-> 4, debug |-> 5]
Size(cfg) == Letters[cfg.quality] + Letters[cfg.audio] + Letters[cfg.encoder]
             + Letters[cfg.transport] + Letters[cfg.log_level]

Init ==
    /\ file = [state |-> "absent", size |-> 0, cfg |-> Defaults]
    /\ upc = "off" /\ ui = Defaults /\ outbox = <<>>
    /\ dpc = "off" /\ daemon = Defaults /\ inbox = <<>>
    /\ chosen = {} /\ changes = 0 /\ failures = 0

-----------------------------------------------------------------------------
(* config.Save in its two steps, and config.Load, which gives the defaults  *)
(* for a file that is absent or that it cannot read.                        *)

Truncated == [state |-> "bad", size |-> 0, cfg |-> Defaults]

Written(cfg) ==
    IF Size(cfg) >= file.size THEN [state |-> "good", size |-> Size(cfg), cfg |-> cfg]
                              ELSE [file EXCEPT !.state = "bad", !.cfg = Defaults]

Load == file.cfg

-----------------------------------------------------------------------------
(* The UI *)

(* launch.sh starts the daemon unless it is alive; a daemon that cannot     *)
(* load its configuration exits, a UI shows the defaults.                   *)
Launch ==
    /\ upc = "off" /\ dpc \in {"off", "idle"} /\ inbox = <<>>
    /\ IF dpc = "idle" \/ file.state = "bad"
         THEN UNCHANGED <<dpc, daemon>>
         ELSE dpc' = "idle" /\ daemon' = Load
    /\ upc' = "idle" /\ ui' = Load /\ chosen' = {Load}
    /\ UNCHANGED <<file, outbox, inbox, changes, failures>>

(* The next option; the first for a value that is not one of them. *)
Cycle(options, value) ==
    IF Contains(options, value)
      THEN options[((CHOOSE i \in DOMAIN options : options[i] = value) % Len(options)) + 1]
      ELSE options[1]

(* Mutant: the UI leaves the quality alone for RTP. *)
Choose_RtpAsIs(name) ==
    LET value == Cycle(Options[name], ui[name])
        cfg   == [ui EXCEPT ![name] = value]
    IN  IF name = "transport" /\ value = "h264" THEN [cfg EXCEPT !.quality = "ultra"] ELSE cfg

Choose(name) ==
    LET value == Cycle(Options[name], ui[name])
        cfg   == [ui EXCEPT ![name] = value]
    IN  IF name = "transport" /\ value # "ts" THEN [cfg EXCEPT !.quality = "ultra"] ELSE cfg

Commands(name, cfg) ==
    LET set(n) == <<[name |-> n, value |-> cfg[n]]>>
    IN  IF name = "transport" /\ cfg.transport = "h264" THEN set(name) \o set("quality")
                                                        ELSE set(name)

(* The change in memory, and the first step of saving it. *)
Change(name) ==
    /\ upc = "idle" /\ changes < MaxChanges
    /\ changes' = changes + 1
    /\ ui' = Choose(name)
    /\ outbox' = Commands(name, Choose(name))
    /\ chosen' = chosen \cup {Choose(name)}
    /\ file' = Truncated
    /\ upc' = "write"
    /\ UNCHANGED <<dpc, daemon, inbox, failures>>

(* Mutant: the UI leaves writing the file to the daemon. *)
UiWrites_Not ==
    /\ upc = "write"
    /\ upc' = "send"
    /\ UNCHANGED <<file, ui, outbox, chosen, changes, dpc, daemon, inbox, failures>>

UiWrites ==
    /\ upc = "write"
    /\ file' = Written(ui)
    /\ upc' = "send"
    /\ UNCHANGED <<ui, outbox, chosen, changes, dpc, daemon, inbox, failures>>

(* Without a daemon there is no connection, and Send returns an error. *)
UiSends ==
    /\ upc = "send"
    /\ IF outbox = <<>>
         THEN upc' = "idle" /\ UNCHANGED <<outbox, inbox>>
         ELSE /\ outbox' = Tail(outbox)
              /\ inbox' = IF dpc = "off" THEN inbox ELSE Append(inbox, Head(outbox))
              /\ UNCHANGED upc
    /\ UNCHANGED <<file, ui, chosen, changes, dpc, daemon, failures>>

Quit ==
    /\ upc = "idle"
    /\ upc' = "off"
    /\ UNCHANGED <<file, ui, outbox, chosen, changes, dpc, daemon, inbox, failures>>

-----------------------------------------------------------------------------
(* The daemon *)

(* Mutant: only RTP forces the quality, the UI sends it for H.264. *)
Applied_H264AsIs(cmd) ==
    LET cfg == [daemon EXCEPT ![cmd.name] = cmd.value]
    IN  IF cmd.name = "transport" /\ cmd.value = "rtp" THEN [cfg EXCEPT !.quality = "ultra"]
                                                       ELSE cfg

Applied(cmd) ==
    LET cfg == [daemon EXCEPT ![cmd.name] = cmd.value]
    IN  IF cmd.name = "transport" /\ cmd.value # "ts" THEN [cfg EXCEPT !.quality = "ultra"]
                                                      ELSE cfg

(* The restart of the session that may follow is Controller's CheckStreaming. *)
Handle ==
    /\ dpc = "idle" /\ inbox # <<>>
    /\ daemon' = Applied(Head(inbox))
    /\ inbox' = Tail(inbox)
    /\ file' = Truncated
    /\ dpc' = "write"
    /\ UNCHANGED <<uivars, failures>>

DaemonWrites ==
    /\ dpc = "write"
    /\ file' = Written(daemon)
    /\ dpc' = "idle"
    /\ UNCHANGED <<uivars, daemon, inbox, failures>>

-----------------------------------------------------------------------------
PowerFails ==
    /\ upc # "off" \/ dpc # "off"
    /\ failures < MaxFailures
    /\ failures' = failures + 1
    /\ upc' = "off" /\ dpc' = "off"
    /\ outbox' = <<>> /\ inbox' = <<>> /\ chosen' = {}
    /\ UNCHANGED <<file, ui, changes, daemon>>

Next ==
    \/ Launch \/ UiWrites \/ UiSends \/ Quit
    \/ \E name \in Names : Change(name)
    \/ Handle \/ DaemonWrites
    \/ PowerFails

Spec == Init /\ [][Next]_vars

-----------------------------------------------------------------------------
(* Properties *)

Settled == upc = "idle" /\ dpc = "idle" /\ inbox = <<>>

(* When nothing is under way the UI, the daemon and the file agree, however *)
(* their writes were interleaved: each of the UI's saves is followed by the *)
(* daemon's save of the same configuration.                                 *)
Agreement == Settled => ui = daemon /\ file.cfg = ui /\ file.state # "bad"

(* The daemon has, and saves, no combination of settings that the UI has    *)
(* not shown: a change that takes two commands is complete after the first. *)
OnlyChosen == upc # "off" /\ dpc # "off" => daemon \in chosen

(* A file that cannot be read is what a power failure left, and the next    *)
(* change makes it good: outside a save it is found bad only by a UI that   *)
(* shows the defaults and has no daemon.                                    *)
Healed ==
    file.state = "bad" /\ upc = "idle" /\ dpc # "write" /\ inbox = <<>>
        => failures > 0 /\ dpc = "off" /\ ui = Defaults
=============================================================================
