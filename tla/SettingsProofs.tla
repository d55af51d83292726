--------------------------- MODULE SettingsProofs ---------------------------
(***************************************************************************)
(* For any number of changes and of power failures, wherever they fall:    *)
(* what the UI has sent leads the daemon, by configurations that the UI    *)
(* has shown, to the one it shows now; the three copies of the settings    *)
(* agree when nothing is under way; and a file that cannot be read is what *)
(* a power failure left.                                                   *)
(***************************************************************************)
EXTENDS Settings, SequenceTheorems, TLAPS

Configs ==
    [quality : {"low", "medium", "high", "ultra"}, audio : {"true", "false"},
     encoder : {"auto", "cedar", "ffmpeg"}, transport : {"ts", "h264", "rtp"},
     log_level : {"info", "debug"}]

(* The file has the size of its text when it is good, and its last writer's *)
(* text read back is the defaults when it is not.                           *)
FileOK ==
    \/ file = [state |-> "absent", size |-> 0, cfg |-> Defaults]
    \/ \E cfg \in Configs : file = [state |-> "good", size |-> Size(cfg), cfg |-> cfg]
    \/ \E n \in Nat : file = [state |-> "bad", size |-> n, cfg |-> Defaults]

TypeOK ==
    /\ FileOK
    /\ upc \in {"off", "idle", "write", "send"} /\ dpc \in {"off", "idle", "write"}
    /\ ui \in Configs /\ daemon \in Configs /\ chosen \subseteq Configs
    /\ failures \in Nat

(* The rule that both sides apply: H.264 and RTP need the highest quality *)
Forced(name, value, cfg) ==
    IF name = "transport" /\ value # "ts" THEN [cfg EXCEPT !.quality = "ultra"] ELSE cfg

(* What a command makes of a configuration *)
AppliedTo(cfg, cmd) == Forced(cmd.name, cmd.value, [cfg EXCEPT ![cmd.name] = cmd.value])

(* The commands that the daemon has still to handle, sent or not *)
Pending == inbox \o outbox

(* f leads from one configuration to another by the given commands. *)
Leads(f, commands, from, to) ==
    /\ f[0] = from /\ f[Len(commands)] = to
    /\ \A i \in 1..Len(commands) : f[i] = AppliedTo(f[i - 1], commands[i])

(* The pending commands lead the daemon to what the UI shows, by what it    *)
(* has shown.                                                               *)
Path ==
    dpc # "off" => \E f \in [0..Len(Pending) -> chosen] : Leads(f, Pending, daemon, ui)

Values == {"low", "medium", "high", "ultra", "true", "false", "auto", "cedar", "ffmpeg",
           "ts", "h264", "rtp", "info", "debug"}

CommandSet == [name : Names, value : Values]

(* Who has commands to send or to handle *)
Queues ==
    /\ inbox \in Seq(CommandSet) /\ outbox \in Seq(CommandSet)
    /\ upc \in {"off", "idle"} => outbox = <<>>
    /\ upc = "write" => outbox # <<>>
    /\ dpc = "off" => inbox = <<>>

(* With nothing pending the file is the daemon's, or about to be. *)
DaemonSaves ==
    Pending = <<>> =>
        /\ dpc = "idle" => file.cfg = daemon /\ file.state # "bad"
        /\ dpc = "write" => file = Truncated

(* Without a daemon the file is the UI's; it is bad in the middle of a save *)
(* or after a power failure.                                                *)
UiAlone ==
    dpc = "off" =>
        /\ upc = "write" => file = Truncated
        /\ upc = "send" => file.state # "bad"
        /\ upc \in {"off", "idle"} /\ file.state = "bad" => failures > 0
        /\ upc = "idle" /\ file.state = "bad" => ui = Defaults

IInv == TypeOK /\ Queues /\ Path /\ DaemonSaves /\ UiAlone

-----------------------------------------------------------------------------
(* Operators *)

LEMMA SizeIsNat == \A cfg \in Configs : Size(cfg) \in Nat
BY DEF Configs, Size, Letters

(* Cycling stays among the options. *)
LEMMA CycleIsOption ==
    ASSUME NEW S, NEW options \in Seq(S), Len(options) > 0, NEW value
    PROVE  \E i \in 1..Len(options) : Cycle(options, value) = options[i]
<1>1. CASE Contains(options, value)
  <2>1. PICK i \in DOMAIN options : i = CHOOSE j \in DOMAIN options : options[j] = value
    BY <1>1 DEF Contains
  <2>2. i \in Nat /\ Len(options) \in Nat
    BY <2>1
  <2>3. i % Len(options) \in 0..(Len(options) - 1)
    BY <2>2
  <2>4. (i % Len(options)) + 1 \in 1..Len(options)
    BY <2>2, <2>3
  <2> QED
    BY <1>1, <2>1, <2>4 DEF Cycle
<1>2. CASE ~Contains(options, value)
  BY <1>2 DEF Cycle
<1> QED
  BY <1>1, <1>2

(* A value of a setting can be set, and the rule can be applied. *)
LEMMA SetAndForced ==
    ASSUME NEW cfg \in Configs
    PROVE  /\ [cfg EXCEPT !.quality = "ultra"] \in Configs
           /\ [cfg EXCEPT !.quality = "ultra"].quality = "ultra"
           /\ [cfg EXCEPT !.quality = "ultra"].transport = cfg.transport
           /\ cfg.quality = "ultra" => [cfg EXCEPT !.quality = "ultra"] = cfg
BY DEF Configs

LEMMA SetIsConfig ==
    ASSUME NEW cfg \in Configs, NEW name \in Names, NEW value,
           \E i \in 1..Len(Options[name]) : value = Options[name][i]
    PROVE  [cfg EXCEPT ![name] = value] \in Configs /\ [cfg EXCEPT ![name] = value][name] = value
<1>1. CASE name = "quality"
  <2>1. value \in {"low", "medium", "high", "ultra"}
    BY <1>1 DEF Options
  <2> QED
    BY <1>1, <2>1 DEF Configs
<1>2. CASE name = "audio"
  <2>1. value \in {"true", "false"}
    BY <1>2 DEF Options
  <2> QED
    BY <1>2, <2>1 DEF Configs
<1>3. CASE name = "encoder"
  <2>1. value \in {"auto", "cedar", "ffmpeg"}
    BY <1>3 DEF Options
  <2> QED
    BY <1>3, <2>1 DEF Configs
<1>4. CASE name = "log_level"
  <2>1. value \in {"info", "debug"}
    BY <1>4 DEF Options
  <2> QED
    BY <1>4, <2>1 DEF Configs
<1>5. CASE name = "transport"
  <2>1. value \in {"ts", "h264", "rtp"}
    BY <1>5 DEF Options
  <2> QED
    BY <1>5, <2>1 DEF Configs
<1> QED
  BY <1>1, <1>2, <1>3, <1>4, <1>5 DEF Names, Options

(* What the daemon makes of the commands for a change is what the UI shows, *)
(* after the first and after all of them.                                   *)
LEMMA CommandsLead ==
    ASSUME NEW name \in Names, ui \in Configs
    PROVE  /\ Choose(name) \in Configs
           /\ Commands(name, Choose(name)) \in Seq(CommandSet)
           /\ Len(Commands(name, Choose(name))) > 0
           /\ AppliedTo(ui, Commands(name, Choose(name))[1]) = Choose(name)
           /\ \A i \in 2..Len(Commands(name, Choose(name))) :
                 AppliedTo(Choose(name), Commands(name, Choose(name))[i]) = Choose(name)
<1> DEFINE value == Cycle(Options[name], ui[name])
           cfg   == [ui EXCEPT ![name] = value]
<1>0. Options[name] \in Seq(Values) /\ Len(Options[name]) > 0
  <2>1. name \in {"quality", "audio", "encoder", "transport", "log_level"}
    BY DEF Names, Options
  <2>2. Options["quality"] \in Seq(Values) /\ Len(Options["quality"]) > 0
    BY DEF Options, Values
  <2>3. Options["audio"] \in Seq(Values) /\ Len(Options["audio"]) > 0
    BY DEF Options, Values
  <2>4. Options["encoder"] \in Seq(Values) /\ Len(Options["encoder"]) > 0
    BY DEF Options, Values
  <2>5. Options["transport"] \in Seq(Values) /\ Len(Options["transport"]) > 0
    BY DEF Options, Values
  <2>6. Options["log_level"] \in Seq(Values) /\ Len(Options["log_level"]) > 0
    BY DEF Options, Values
  <2> QED
    BY <2>1, <2>2, <2>3, <2>4, <2>5, <2>6
<1>1. \E i \in 1..Len(Options[name]) : value = Options[name][i]
  BY <1>0, CycleIsOption
<1>2. cfg \in Configs /\ cfg[name] = value
  BY <1>1, SetIsConfig
<1>3. Choose(name) = Forced(name, value, cfg)
  BY DEF Choose, Forced
<1>4. Forced(name, value, cfg) \in Configs
  BY <1>2, SetAndForced DEF Forced
<1> DEFINE first  == [name |-> name, value |-> Choose(name)[name]]
           second == [name |-> "quality", value |-> Choose(name).quality]
<1>5. Choose(name)[name] = value
  BY <1>2, <1>3, SetAndForced DEF Forced
<1>6. AppliedTo(ui, first) = Choose(name)
  BY <1>3, <1>5 DEF AppliedTo
<1>7. first \in CommandSet /\ second \in CommandSet
  <2>1. Choose(name).quality \in Values
    BY <1>3, <1>4 DEF Configs, Values
  <2>2. value \in Values
    BY <1>0, <1>1
  <2>3. name \in Names /\ "quality" \in Names
    BY DEF Names, Options
  <2> QED
    BY <1>5, <2>1, <2>2, <2>3 DEF CommandSet
<1>8. CASE name = "transport" /\ Choose(name).transport = "h264"
  <2>1. Commands(name, Choose(name)) = <<first>> \o <<second>>
    BY <1>8 DEF Commands
  <2>2. AppliedTo(Choose(name), second) = Choose(name)
    <3>1. Choose(name).quality = "ultra"
      BY <1>2, <1>3, <1>5, <1>8, SetAndForced DEF Forced
    <3> QED
      BY <1>3, <1>4, <3>1, SetAndForced DEF AppliedTo, Forced
  <2> HIDE DEF first, second, value, cfg
  <2>3. <<first>> \in Seq(CommandSet) /\ <<second>> \in Seq(CommandSet)
    BY <1>7
  <2>4. /\ <<first>> \o <<second>> \in Seq(CommandSet)
        /\ Len(<<first>> \o <<second>>) = 2
        /\ (<<first>> \o <<second>>)[1] = first
        /\ (<<first>> \o <<second>>)[2] = second
    BY <2>3, ConcatProperties
  <2>5. \A i \in 2..2 : AppliedTo(Choose(name), (<<first>> \o <<second>>)[i]) = Choose(name)
    BY <2>2, <2>4
  <2> QED
    BY <1>3, <1>4, <1>6, <2>1, <2>4, <2>5
<1>9. CASE ~(name = "transport" /\ Choose(name).transport = "h264")
  <2>1. Commands(name, Choose(name)) = <<first>>
    BY <1>9 DEF Commands
  <2> HIDE DEF first, value, cfg
  <2>2. /\ <<first>> \in Seq(CommandSet) /\ Len(<<first>>) = 1 /\ <<first>>[1] = first
    BY <1>7
  <2>3. 2..Len(<<first>>) = {}
    BY <2>2
  <2> QED
    BY <1>3, <1>4, <1>6, <2>1, <2>2, <2>3
<1> QED
  BY <1>8, <1>9

(* Sending moves a command from one queue to the other. *)
LEMMA SendKeeps ==
    ASSUME NEW S, NEW s \in Seq(S), NEW t \in Seq(S), t # <<>>
    PROVE  /\ Append(s, Head(t)) \in Seq(S) /\ Tail(t) \in Seq(S)
           /\ Append(s, Head(t)) \o Tail(t) = s \o t
<1>1. /\ Head(t) \in S /\ Tail(t) \in Seq(S) /\ Len(Tail(t)) = Len(t) - 1
      /\ \A i \in 1..Len(Tail(t)) : Tail(t)[i] = t[i + 1]
      /\ Head(t) = t[1] /\ Len(t) \in Nat \ {0} /\ Len(s) \in Nat
  BY HeadTailProperties, EmptySeq, LenProperties
<1>0. PICK u : u = Append(s, Head(t))
  OBVIOUS
<1>2. /\ u \in Seq(S) /\ Len(u) = Len(s) + 1 /\ u[Len(s) + 1] = t[1]
      /\ \A i \in 1..Len(s) : u[i] = s[i]
  BY <1>0, <1>1, AppendProperties
<1>3. /\ u \o Tail(t) \in Seq(S) /\ Len(u \o Tail(t)) = Len(s) + Len(t)
      /\ \A i \in 1..(Len(s) + Len(t)) :
            (u \o Tail(t))[i] = IF i <= Len(s) + 1 THEN u[i] ELSE Tail(t)[i - (Len(s) + 1)]
  <2>1. Len(u) + Len(Tail(t)) = Len(s) + Len(t)
    BY <1>1, <1>2
  <2>2. u \in Seq(S) /\ Tail(t) \in Seq(S)
    BY <1>1, <1>2
  <2>3. /\ u \o Tail(t) \in Seq(S) /\ Len(u \o Tail(t)) = Len(u) + Len(Tail(t))
        /\ \A i \in 1..(Len(u) + Len(Tail(t))) :
              (u \o Tail(t))[i] = IF i <= Len(u) THEN u[i] ELSE Tail(t)[i - Len(u)]
    BY <2>2, ConcatProperties
  <2>4. Len(u) = Len(s) + 1
    BY <1>2
  <2> QED
    BY <2>1, <2>3, <2>4
<1>4. /\ s \o t \in Seq(S) /\ Len(s \o t) = Len(s) + Len(t)
      /\ \A i \in 1..(Len(s) + Len(t)) :
            (s \o t)[i] = IF i <= Len(s) THEN s[i] ELSE t[i - Len(s)]
  BY ConcatProperties
<1>5. ASSUME NEW i \in 1..(Len(s) + Len(t)) PROVE (u \o Tail(t))[i] = (s \o t)[i]
  <2>1. CASE i <= Len(s)
    BY <1>1, <1>2, <1>3, <1>4, <2>1
  <2>2. CASE i = Len(s) + 1
    BY <1>1, <1>2, <1>3, <1>4, <2>2
  <2>3. CASE i > Len(s) + 1
    <3>1. i - (Len(s) + 1) \in 1..Len(Tail(t))
      BY <1>1, <2>3
    <3> QED
      BY <1>1, <1>3, <1>4, <2>3, <3>1
  <2>4. i \in Nat /\ Len(s) \in Nat
    OBVIOUS
  <2>5. i <= Len(s) \/ i = Len(s) + 1 \/ i > Len(s) + 1
    BY <2>4
  <2> QED
    BY <2>1, <2>2, <2>3, <2>5
<1>6. u \o Tail(t) = s \o t
  BY <1>3, <1>4, <1>5, SeqEqual
<1> QED
  BY <1>0, <1>1, <1>2, <1>6

(* Handling takes the first command of those that are pending. *)
LEMMA HandleTakes ==
    ASSUME NEW S, NEW s \in Seq(S), NEW t \in Seq(S), s # <<>>
    PROVE  /\ Tail(s) \in Seq(S)
           /\ Len(s \o t) \in Nat /\ Len(s \o t) > 0 /\ (s \o t)[1] = Head(s)
           /\ Len(Tail(s) \o t) = Len(s \o t) - 1
           /\ \A i \in 1..(Len(s \o t) - 1) : (Tail(s) \o t)[i] = (s \o t)[i + 1]
<1>1. /\ Tail(s) \in Seq(S) /\ Len(Tail(s)) = Len(s) - 1
      /\ \A i \in 1..Len(Tail(s)) : Tail(s)[i] = s[i + 1]
      /\ Head(s) = s[1] /\ Len(s) \in Nat \ {0} /\ Len(t) \in Nat
  BY HeadTailProperties, EmptySeq, LenProperties
<1>2. /\ Len(s \o t) = Len(s) + Len(t)
      /\ \A i \in 1..(Len(s) + Len(t)) :
            (s \o t)[i] = IF i <= Len(s) THEN s[i] ELSE t[i - Len(s)]
  BY ConcatProperties
<1>3. /\ Len(Tail(s) \o t) = Len(s) - 1 + Len(t)
      /\ \A i \in 1..(Len(s) - 1 + Len(t)) :
            (Tail(s) \o t)[i] = IF i <= Len(s) - 1 THEN Tail(s)[i] ELSE t[i - (Len(s) - 1)]
  BY <1>1, ConcatProperties
<1>4. ASSUME NEW i \in 1..(Len(s) + Len(t) - 1) PROVE (Tail(s) \o t)[i] = (s \o t)[i + 1]
  <2>1. CASE i <= Len(s) - 1
    BY <1>1, <1>2, <1>3, <2>1
  <2>2. CASE i > Len(s) - 1
    BY <1>1, <1>2, <1>3, <2>2
  <2> QED
    BY <1>1, <2>1, <2>2
<1> QED
  BY <1>1, <1>2, <1>3, <1>4

-----------------------------------------------------------------------------
(* The file *)

(* Whoever writes leaves the file with a size it can be read by, and a file *)
(* that was truncated for it good.                                          *)
LEMMA WrittenFits ==
    ASSUME FileOK, NEW cfg \in Configs, file' = Written(cfg)
    PROVE  /\ FileOK'
           /\ file = Truncated => file'.cfg = cfg /\ file'.state = "good"
<1>1. Size(cfg) \in Nat /\ file.size \in Nat
  BY SizeIsNat DEF FileOK
<1>2. CASE Size(cfg) >= file.size
  BY <1>2 DEF Written, FileOK
<1>3. CASE ~(Size(cfg) >= file.size)
  <2>1. file' = [file EXCEPT !.state = "bad", !.cfg = Defaults]
    BY <1>3 DEF Written
  <2>2. file' = [state |-> "bad", size |-> file.size, cfg |-> Defaults]
    BY <2>1 DEF FileOK
  <2>3. file # Truncated
    BY <1>1, <1>3 DEF Truncated
  <2> QED
    BY <1>1, <2>2, <2>3 DEF FileOK
<1> QED
  BY <1>2, <1>3

LEMMA FileFacts ==
    ASSUME FileOK
    PROVE  /\ file.cfg \in Configs
           /\ file.state = "bad" => file.cfg = Defaults
<1>1. Defaults \in Configs
  BY DEF Defaults, Configs
<1> QED
  BY <1>1 DEF FileOK

LEMMA TruncatedOK ==
    /\ file' = Truncated => FileOK'
    /\ Truncated.state = "bad"
BY DEF Truncated, FileOK

-----------------------------------------------------------------------------
(* The UI *)

LEMMA NothingPending ==
    ASSUME Queues
    PROVE  /\ Pending \in Seq(CommandSet) /\ Len(Pending) \in Nat
           /\ Pending = <<>> <=> inbox = <<>> /\ outbox = <<>>
           /\ outbox = <<>> => Pending = inbox
<1>1. inbox \in Seq(CommandSet) /\ outbox \in Seq(CommandSet)
  BY DEF Queues
<1>2. Pending \in Seq(CommandSet)
  BY <1>1, ConcatProperties DEF Pending
<1>3. Pending = <<>> <=> inbox = <<>> /\ outbox = <<>>
  <2>1. Pending = <<>> => Len(inbox) + Len(outbox) = 0
    BY <1>1, ConcatProperties, EmptySeq DEF Pending
  <2>2. Len(inbox) \in Nat /\ Len(outbox) \in Nat
    BY <1>1
  <2>3. Len(inbox) = 0 => inbox = <<>>
    BY <1>1, EmptySeq
  <2>4. Len(outbox) = 0 => outbox = <<>>
    BY <1>1, EmptySeq
  <2>5. inbox = <<>> /\ outbox = <<>> => Pending = <<>>
    BY <1>1, ConcatEmptySeq DEF Pending
  <2> QED
    BY <2>1, <2>2, <2>3, <2>4, <2>5
<1>4. outbox = <<>> => Pending = inbox
  BY <1>1, ConcatEmptySeq DEF Pending
<1> QED
  BY <1>2, <1>3, <1>4

(* What the UI and the daemon both load when they start, and the UI alone   *)
(* when the daemon lives: the same in each case.                            *)
LEMMA LaunchInv ==
    ASSUME IInv, Launch
    PROVE  IInv'
<1> USE DEF IInv
<1>1. /\ inbox = <<>> /\ outbox = <<>> /\ inbox' = <<>> /\ outbox' = <<>>
      /\ upc = "off" /\ upc' = "idle" /\ UNCHANGED <<file, failures>>
      /\ ui' = file.cfg /\ chosen' = {file.cfg}
  BY DEF Launch, Queues, Load
<1>2. Pending = <<>> /\ Pending' = <<>>
  BY <1>1 DEF Pending, Queues
<1>3. file.cfg \in Configs /\ (file.state = "bad" => file.cfg = Defaults)
  BY FileFacts DEF TypeOK
<1>4. \/ dpc = "idle" /\ dpc' = "idle" /\ daemon' = daemon /\ daemon = file.cfg
         /\ file.state # "bad"
      \/ dpc = "off" /\ dpc' = "off" /\ daemon' = daemon /\ file.state = "bad"
      \/ dpc' = "idle" /\ daemon' = file.cfg /\ file.state # "bad"
  BY <1>2 DEF Launch, Load, DaemonSaves
<1>5. TypeOK'
  BY <1>1, <1>3, <1>4 DEF TypeOK, FileOK
<1>6. Queues'
  BY <1>1, <1>4 DEF Queues
<1>7. Path'
  <2>1. CASE dpc' = "off"
    BY <2>1 DEF Path
  <2>2. CASE dpc' # "off"
    <3> DEFINE f == [i \in 0..0 |-> file.cfg]
    <3>1. daemon' = file.cfg /\ ui' = file.cfg
      BY <1>1, <1>4, <2>2
    <3>2. f \in [0..Len(Pending') -> chosen'] /\ Leads(f, Pending', daemon', ui')
      BY <1>1, <1>2, <3>1 DEF Leads
    <3> QED
      BY <3>2 DEF Path, Leads
  <2> QED
    BY <2>1, <2>2
<1>8. DaemonSaves'
  BY <1>1, <1>4 DEF DaemonSaves
<1>9. UiAlone'
  BY <1>1, <1>3, <1>4 DEF UiAlone
<1> QED
  BY <1>5, <1>6, <1>7, <1>8, <1>9

(* A step that leaves the copies, the queues and the daemon alone *)
LEMMA PathStays ==
    ASSUME Path, UNCHANGED <<inbox, outbox, chosen, ui, daemon, dpc>>
    PROVE  Path'
BY DEF Path, Pending

LEMMA UiWritesInv ==
    ASSUME IInv, UiWrites
    PROVE  IInv'
<1> USE DEF IInv
<1>1. FileOK' /\ (file = Truncated => file'.state = "good")
  BY WrittenFits DEF UiWrites, TypeOK
<1>2. Path'
  BY PathStays DEF UiWrites
<1>3. TypeOK' /\ Queues'
  BY <1>1 DEF UiWrites, TypeOK, Queues
<1>4. Pending' # <<>>
  BY <1>3, NothingPending DEF UiWrites, Queues, Pending
<1>5. DaemonSaves' /\ UiAlone'
  BY <1>1, <1>4 DEF UiWrites, DaemonSaves, UiAlone
<1> QED
  BY <1>2, <1>3, <1>5

LEMMA QuitInv ==
    ASSUME IInv, Quit
    PROVE  IInv'
<1> USE DEF IInv
<1>1. Path'
  BY PathStays DEF Quit
<1>2. TypeOK'
  BY DEF Quit, TypeOK, FileOK
<1>3. Queues' /\ DaemonSaves' /\ UiAlone'
  BY DEF Quit, Queues, DaemonSaves, UiAlone, Pending
<1> QED
  BY <1>1, <1>2, <1>3

(* The commands for a change lead from what the UI showed to what it shows. *)
LEMMA ChangePath ==
    ASSUME IInv, NEW name \in Names, Change(name), dpc # "off"
    PROVE  Path'
<1> USE DEF IInv
<1>1. PICK cmds, new : cmds = Commands(name, Choose(name)) /\ new = Choose(name)
  OBVIOUS
<1>2. /\ cmds \in Seq(CommandSet) /\ Len(cmds) \in Nat /\ Len(cmds) > 0
      /\ AppliedTo(ui, cmds[1]) = new
      /\ \A i \in 2..Len(cmds) : AppliedTo(new, cmds[i]) = new
  BY <1>1, CommandsLead DEF TypeOK
<1>3. /\ outbox = <<>> /\ outbox' = cmds /\ inbox' = inbox /\ inbox \in Seq(CommandSet)
      /\ ui' = new /\ chosen' = chosen \cup {new} /\ daemon' = daemon
  BY <1>1 DEF Change, Queues
<1>4. PICK n \in Nat : n = Len(inbox)
  BY <1>3
<1>5. /\ Len(Pending') = n + Len(cmds)
      /\ \A i \in 1..(n + Len(cmds)) :
            Pending'[i] = IF i <= n THEN inbox[i] ELSE cmds[i - n]
  BY <1>2, <1>3, <1>4, ConcatProperties DEF Pending
<1>6. Pending = inbox
  BY <1>3, NothingPending
<1>7. PICK f \in [0..n -> chosen] :
         /\ f[0] = daemon /\ f[n] = ui
         /\ \A i \in 1..n : f[i] = AppliedTo(f[i - 1], inbox[i])
  BY <1>4, <1>6 DEF Path, Leads
<1>8. PICK g \in [0..(n + Len(cmds)) -> chosen'] :
         \A i \in 0..(n + Len(cmds)) : g[i] = IF i <= n THEN f[i] ELSE new
  <2> DEFINE h == [i \in 0..(n + Len(cmds)) |-> IF i <= n THEN f[i] ELSE new]
  <2>1. \A i \in 0..(n + Len(cmds)) : (IF i <= n THEN f[i] ELSE new) \in chosen'
    BY <1>3
  <2>2. h \in [0..(n + Len(cmds)) -> chosen']
    BY <2>1
  <2> QED
    BY <2>2
<1>9. g[0] = daemon /\ g[n + Len(cmds)] = new
  BY <1>2, <1>7, <1>8
<1>10. ASSUME NEW i \in 1..(n + Len(cmds)) PROVE g[i] = AppliedTo(g[i - 1], Pending'[i])
  <2>1. i \in Nat /\ i - 1 \in Nat /\ g[i] = (IF i <= n THEN f[i] ELSE new)
        /\ g[i - 1] = (IF i - 1 <= n THEN f[i - 1] ELSE new)
    BY <1>2, <1>8
  <2>2. CASE i <= n
    BY <1>5, <1>7, <2>1, <2>2
  <2>3. CASE i = n + 1
    <3>1. Pending'[i] = cmds[1] /\ g[i - 1] = ui /\ g[i] = new
      BY <1>5, <1>7, <2>1, <2>3
    <3> QED
      BY <1>2, <3>1
  <2>4. CASE i > n + 1
    <3>1. Pending'[i] = cmds[i - n] /\ g[i - 1] = new /\ g[i] = new
      BY <1>5, <2>1, <2>4
    <3>2. i - n \in 2..Len(cmds)
      BY <1>2, <2>1, <2>4
    <3> QED
      BY <1>2, <3>1, <3>2
  <2>5. i <= n \/ i = n + 1 \/ i > n + 1
    BY <2>1
  <2> QED
    BY <2>2, <2>3, <2>4, <2>5
<1>11. Leads(g, Pending', daemon', ui')
  BY <1>3, <1>5, <1>9, <1>10 DEF Leads
<1> QED
  BY <1>5, <1>11 DEF Path

LEMMA ChangeInv ==
    ASSUME IInv, NEW name \in Names, Change(name)
    PROVE  IInv'
<1> USE DEF IInv
<1>1. /\ Choose(name) \in Configs /\ outbox' \in Seq(CommandSet) /\ outbox' # <<>>
      /\ FileOK' /\ UNCHANGED <<dpc, daemon, inbox, failures>>
      /\ ui' = Choose(name) /\ chosen' = chosen \cup {Choose(name)}
      /\ file' = Truncated /\ upc' = "write"
  <2>1. outbox' \in Seq(CommandSet) /\ Len(outbox') > 0 /\ Choose(name) \in Configs
    BY CommandsLead DEF Change, TypeOK
  <2>2. outbox' # <<>>
    BY <2>1, EmptySeq
  <2> QED
    BY <2>1, <2>2, TruncatedOK DEF Change
<1>2. TypeOK'
  BY <1>1 DEF TypeOK
<1>3. Queues'
  BY <1>1 DEF Queues
<1>4. Path'
  <2>1. CASE dpc = "off"
    BY <1>1, <2>1 DEF Path
  <2> QED
    BY <2>1, ChangePath
<1>5. Pending' # <<>>
  <2>1. inbox' \in Seq(CommandSet) /\ outbox' \in Seq(CommandSet) /\ outbox' # <<>>
    BY <1>1, <1>3 DEF Queues
  <2> QED
    BY <2>1, ConcatEqualIffEmpty DEF Pending
<1>6. DaemonSaves' /\ UiAlone'
  BY <1>1, <1>5 DEF DaemonSaves, UiAlone
<1> QED
  BY <1>2, <1>3, <1>4, <1>6

(* With a daemon, sending leaves the pending commands as they are; without  *)
(* one they are lost, and nobody else has a copy they should have changed.  *)
LEMMA UiSendsInv ==
    ASSUME IInv, UiSends
    PROVE  IInv'
<1> USE DEF IInv
<1>1. /\ upc = "send" /\ upc' \in {"send", "idle"}
      /\ UNCHANGED <<file, ui, chosen, dpc, daemon, failures>>
      /\ upc' = "idle" => outbox' = <<>>
      /\ inbox \in Seq(CommandSet) /\ outbox \in Seq(CommandSet)
  BY DEF UiSends, Queues
<1>2. /\ inbox' \in Seq(CommandSet) /\ outbox' \in Seq(CommandSet)
      /\ dpc # "off" => Pending' = Pending
      /\ dpc = "off" => inbox' = inbox
  <2>1. CASE outbox = <<>>
    BY <1>1, <2>1 DEF UiSends, Pending
  <2>2. CASE outbox # <<>>
    <3>1. /\ outbox' = Tail(outbox)
          /\ inbox' = IF dpc = "off" THEN inbox ELSE Append(inbox, Head(outbox))
      BY <2>2 DEF UiSends
    <3>2. /\ Append(inbox, Head(outbox)) \in Seq(CommandSet)
          /\ Tail(outbox) \in Seq(CommandSet)
          /\ Append(inbox, Head(outbox)) \o Tail(outbox) = inbox \o outbox
      BY <1>1, <2>2, SendKeeps
    <3> QED
      BY <1>1, <3>1, <3>2 DEF Pending
  <2> QED
    BY <2>1, <2>2
<1>3. TypeOK'
  BY <1>1 DEF TypeOK, FileOK
<1>4. Queues'
  BY <1>1, <1>2 DEF Queues
<1>5. Path'
  BY <1>1, <1>2 DEF Path
<1>6. DaemonSaves'
  BY <1>1, <1>2 DEF DaemonSaves, Truncated
<1>7. UiAlone'
  BY <1>1 DEF UiAlone
<1> QED
  BY <1>3, <1>4, <1>5, <1>6, <1>7

-----------------------------------------------------------------------------
(* The daemon *)

(* It takes one step on the path. *)
LEMMA HandlePath ==
    ASSUME IInv, Handle
    PROVE  Path' /\ daemon' \in Configs
<1> USE DEF IInv
<1>1. /\ dpc = "idle" /\ inbox # <<>> /\ daemon' = Applied(Head(inbox))
      /\ inbox' = Tail(inbox) /\ UNCHANGED <<ui, outbox, chosen>>
      /\ inbox \in Seq(CommandSet) /\ outbox \in Seq(CommandSet)
  BY DEF Handle, Queues, uivars
<1>2. PICK n \in Nat : n = Len(Pending) /\ n > 0
  BY <1>1, HandleTakes DEF Pending
<1>3. /\ Pending[1] = Head(inbox) /\ Len(Pending') = n - 1
      /\ \A i \in 1..(n - 1) : Pending'[i] = Pending[i + 1]
  BY <1>1, <1>2, HandleTakes DEF Pending
<1>4. PICK f \in [0..n -> chosen] :
         /\ f[0] = daemon /\ f[n] = ui
         /\ \A i \in 1..n : f[i] = AppliedTo(f[i - 1], Pending[i])
  BY <1>1, <1>2 DEF Path, Leads
<1>5. daemon' = f[1]
  <2>1. Applied(Head(inbox)) = AppliedTo(daemon, Head(inbox))
    BY DEF Applied, AppliedTo, Forced
  <2>2. f[1] = AppliedTo(f[0], Pending[1])
    BY <1>2, <1>4
  <2> QED
    BY <1>1, <1>3, <1>4, <2>1, <2>2
<1>6. PICK g \in [0..(n - 1) -> chosen] : \A i \in 0..(n - 1) : g[i] = f[i + 1]
  <2> DEFINE h == [i \in 0..(n - 1) |-> f[i + 1]]
  <2>1. \A i \in 0..(n - 1) : f[i + 1] \in chosen
    BY <1>2
  <2>2. h \in [0..(n - 1) -> chosen]
    BY <2>1
  <2> QED
    BY <2>2
<1>7. g[0] = daemon' /\ g[n - 1] = ui
  BY <1>2, <1>4, <1>5, <1>6
<1>8. ASSUME NEW i \in 1..(n - 1) PROVE g[i] = AppliedTo(g[i - 1], Pending'[i])
  <2>1. i \in 0..(n - 1) /\ i - 1 \in 0..(n - 1) /\ i + 1 \in 1..n /\ (i - 1) + 1 = i
        /\ (i + 1) - 1 = i
    BY <1>2
  <2>2. g[i] = f[i + 1] /\ g[i - 1] = f[i]
    BY <1>6, <2>1
  <2>3. f[i + 1] = AppliedTo(f[i], Pending[i + 1])
    BY <1>4, <2>1
  <2> QED
    BY <1>3, <2>2, <2>3
<1>9. Leads(g, Pending', daemon', ui')
  BY <1>1, <1>3, <1>7, <1>8 DEF Leads
<1>10. Path'
  BY <1>1, <1>3, <1>9 DEF Path
<1>11. daemon' \in Configs
  BY <1>2, <1>5 DEF TypeOK
<1> QED
  BY <1>10, <1>11

LEMMA HandleInv ==
    ASSUME IInv, Handle
    PROVE  IInv'
<1> USE DEF IInv
<1>1. Path' /\ daemon' \in Configs
  BY HandlePath
<1>2. /\ dpc = "idle" /\ dpc' = "write" /\ file' = Truncated /\ FileOK'
      /\ UNCHANGED <<upc, ui, outbox, chosen, failures>>
  BY TruncatedOK DEF Handle, uivars
<1>3. TypeOK'
  BY <1>1, <1>2 DEF TypeOK
<1>4. Queues'
  BY <1>2, HandleTakes DEF Handle, Queues
<1>5. DaemonSaves' /\ UiAlone'
  BY <1>2 DEF DaemonSaves, UiAlone
<1> QED
  BY <1>1, <1>3, <1>4, <1>5

LEMMA DaemonWritesInv ==
    ASSUME IInv, DaemonWrites
    PROVE  IInv'
<1> USE DEF IInv
<1>1. /\ dpc = "write" /\ dpc' = "idle"
      /\ UNCHANGED <<upc, ui, outbox, chosen, inbox, daemon, failures>>
  BY DEF DaemonWrites, uivars
<1>2. FileOK' /\ (file = Truncated => file'.cfg = daemon /\ file'.state = "good")
  BY WrittenFits DEF DaemonWrites, TypeOK
<1>3. TypeOK' /\ Queues'
  BY <1>1, <1>2 DEF TypeOK, Queues
<1>4. Path'
  BY <1>1 DEF Path, Pending
<1>5. DaemonSaves' /\ UiAlone'
  BY <1>1, <1>2 DEF DaemonSaves, UiAlone, Pending
<1> QED
  BY <1>3, <1>4, <1>5

LEMMA PowerInv ==
    ASSUME IInv, PowerFails
    PROVE  IInv'
<1> USE DEF IInv
<1>1. TypeOK' /\ Queues'
  BY EmptySeq DEF PowerFails, TypeOK, Queues, FileOK
<1>2. Path' /\ DaemonSaves'
  BY DEF PowerFails, Path, DaemonSaves
<1>3. UiAlone'
  BY DEF PowerFails, UiAlone, TypeOK
<1> QED
  BY <1>1, <1>2, <1>3

-----------------------------------------------------------------------------
LEMMA NextInv ==
    ASSUME IInv, [Next]_vars
    PROVE  IInv'
<1>1. CASE UNCHANGED vars
  <2>1. TypeOK' /\ Queues' /\ DaemonSaves' /\ UiAlone'
    BY <1>1 DEF IInv, vars, uivars, TypeOK, FileOK, Queues, DaemonSaves, UiAlone, Pending,
                Truncated
  <2>2. Path'
    BY <1>1, PathStays DEF IInv, vars, uivars
  <2> QED
    BY <2>1, <2>2 DEF IInv
<1>2. ASSUME NEW name \in Names, Change(name) PROVE IInv'
  BY <1>2, ChangeInv
<1> QED
  BY <1>1, <1>2, LaunchInv, UiWritesInv, UiSendsInv, QuitInv, HandleInv, DaemonWritesInv,
     PowerInv DEF Next

LEMMA Always == Spec => []IInv
<1>1. Init => IInv
  BY EmptySeq DEF Init, IInv, TypeOK, FileOK, Queues, Path, DaemonSaves, UiAlone, Defaults,
                  Configs
<1>2. IInv /\ [Next]_vars => IInv'
  BY NextInv
<1> QED
  BY <1>1, <1>2, PTL DEF Spec

(* When nothing is under way the UI, the daemon and the file agree, after   *)
(* any number of changes, wherever the power failed before.                 *)
THEOREM CopiesAgree == Spec => []Agreement
<1>1. IInv => Agreement
  <2> SUFFICES ASSUME IInv, Settled PROVE ui = daemon /\ file.cfg = ui /\ file.state # "bad"
    BY DEF Agreement
  <2>1. Pending = <<>>
    BY NothingPending DEF IInv, Settled, Queues
  <2>2. ui = daemon
    BY <2>1, EmptySeq DEF IInv, Settled, Path, Leads
  <2> QED
    BY <2>1, <2>2 DEF IInv, Settled, DaemonSaves
<1> QED
  BY <1>1, Always, PTL

(* The daemon never has a combination of settings that the UI has not shown.*)
THEOREM DaemonOnlyChosen == Spec => []OnlyChosen
<1>1. IInv => OnlyChosen
  <2> SUFFICES ASSUME IInv, dpc # "off" PROVE daemon \in chosen
    BY DEF OnlyChosen
  <2>1. PICK f \in [0..Len(Pending) -> chosen] : f[0] = daemon
    BY DEF IInv, Path, Leads
  <2>2. Len(Pending) \in Nat
    BY NothingPending DEF IInv
  <2> QED
    BY <2>1, <2>2
<1> QED
  BY <1>1, Always, PTL

(* Only a power failure leaves a file that cannot be read, and the next     *)
(* change of a setting heals it.                                            *)
THEOREM AlwaysHealed == Spec => []Healed
<1>1. IInv => Healed
  <2> SUFFICES ASSUME IInv, file.state = "bad", upc = "idle", dpc # "write", inbox = <<>>
               PROVE  failures > 0 /\ dpc = "off" /\ ui = Defaults
    BY DEF Healed
  <2>1. Pending = <<>>
    BY NothingPending DEF IInv, Queues
  <2>2. dpc = "off"
    BY <2>1 DEF IInv, TypeOK, DaemonSaves
  <2> QED
    BY <2>2 DEF IInv, UiAlone
<1> QED
  BY <1>1, Always, PTL
=============================================================================
