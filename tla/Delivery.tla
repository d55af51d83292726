------------------------------ MODULE Delivery ------------------------------
(***************************************************************************)
(* What a media player is told and what it is given. It browses the        *)
(* content directory, reads from it an address and a MIME type, and asks   *)
(* for that address, or for one it remembers. The daemon decides how to    *)
(* answer from the settings as they are at that time: once when it lists   *)
(* the stream, and twice while it creates an encoder, since GetEncoder     *)
(* (internal/cast/controller.go) leaves c.mu between reading the transport *)
(* and reading the preferred encoder.                                      *)
(*                                                                         *)
(* Formats are named by their MIME types. One player is enough: players    *)
(* meet only where StreamServer models it, at the encoder they compete for.*)
(***************************************************************************)
EXTENDS Integers, Sequences

CONSTANTS
    Natives,  \* the sizes of the screen
    Paths     \* the registered paths a player may ask for, by their endings

ASSUME DeliveryAssumption ==
    /\ Natives \subseteq (Nat \ {0}) \X (Nat \ {0})
    /\ Paths \subseteq {"ts", "sdp", "h264", "other"}

VARIABLES
    cfg,       \* *c.cfg
    device,    \* the screen, and whether Cedar passes its probe
    known,     \* the objects of the directory the player has been given
    manifest,  \* the stream as the player last read it in the directory
    steady,    \* history: the transport has not changed since
    pc,        \* where the player's request is
    path,      \* the path it asks for
    half,      \* what GetEncoder has read first
    due,       \* history: the format promised to the request it makes
    answer     \* the answer to its last request

request == <<pc, path, half, due, answer>>
browser == <<known, manifest, steady>>
vars    == <<cfg, device, browser, request>>

Qualities  == {"low", "medium", "high", "ultra"}
Encoders   == {"auto", "cedar", "ffmpeg"}
Transports == {"ts", "h264", "rtp"}
Configs    == [quality : Qualities, audio : BOOLEAN,
               encoder : Encoders, transport : Transports]
Objects    == {"0", "video_folder", "live_stream"}

NoManifest == [path |-> "none", mime |-> "none"]
NoHalf     == [quality |-> "none", audio |-> FALSE, transport |-> "none"]
NoAnswer   == [of |-> "none"]

Init ==
    /\ cfg \in Configs
    /\ device \in [native : Natives, cedar : BOOLEAN]
    /\ known = {"0"} /\ manifest = NoManifest /\ steady = FALSE
    /\ pc = "idle" /\ path = "none" /\ half = NoHalf
    /\ due = "any" /\ answer = NoAnswer

-----------------------------------------------------------------------------
(* Settings: the commands of HandleCommand that write *c.cfg *)

(* set-transport; the UI sends the quality it implies after it as well *)
SetTransport(t) ==
    /\ cfg' = [cfg EXCEPT !.transport = t,
                          !.quality = IF t = "ts" THEN @ ELSE "ultra"]
    /\ steady' = (steady /\ t = cfg.transport)
    /\ UNCHANGED <<device, known, manifest, request>>

SetOther ==
    /\ \/ \E q \in Qualities : cfg' = [cfg EXCEPT !.quality = q]
       \/ cfg' = [cfg EXCEPT !.audio = ~@]
       \/ \E e \in Encoders : cfg' = [cfg EXCEPT !.encoder = e]
    /\ UNCHANGED <<device, browser, request>>

-----------------------------------------------------------------------------
(* The content directory *)

(* GetContentType, and the address that goes with it *)
ResolveStreamURLAndMIME ==
    [ts   |-> [path |-> "ts",   mime |-> "video/mp2t"],
     h264 |-> [path |-> "h264", mime |-> "video/h264"],
     rtp  |-> [path |-> "sdp",  mime |-> "application/sdp"]][cfg.transport]

(* The objects a Browse returns. The metadata of the root are the folder's. *)
Returned(id, metadata) ==
    IF metadata
      THEN IF id = "live_stream" THEN {"live_stream"} ELSE {"video_folder"}
      ELSE [n \in Objects |-> CASE n = "0"            -> {"video_folder"}
                                [] n = "video_folder" -> {"live_stream"}
                                [] OTHER              -> {}][id]

(* A player browses objects it has been given. *)
Browse(id, metadata) ==
    /\ pc = "idle" /\ id \in known
    /\ answer' = [of |-> "browse", objects |-> Returned(id, metadata)]
    /\ known' = known \cup answer'.objects
    /\ IF "live_stream" \in answer'.objects
         THEN manifest' = ResolveStreamURLAndMIME /\ steady' = TRUE
         ELSE UNCHANGED <<manifest, steady>>
    /\ UNCHANGED <<cfg, device, pc, path, half, due>>

-----------------------------------------------------------------------------
(* Presets *)

(* (n + 15) &^ 15 *)
Align16(n) == ((n + 15) \div 16) * 16

(* presets: what the software encoder is asked for; <<0, 0>> is the native size *)
Presets ==
    [low    |-> [size |-> <<480, 270>>, fps |-> 15, kbps |-> 500],
     medium |-> [size |-> <<640, 360>>, fps |-> 30, kbps |-> 900],
     high   |-> [size |-> <<0, 0>>,     fps |-> 30, kbps |-> 1500],
     ultra  |-> [size |-> <<480, 270>>, fps |-> 15, kbps |-> 1200]]

(* cedarQualityParams *)
CedarQualityParams ==
    [low    |-> [fps |-> 15, gop |-> 8,  kbps |-> 500],
     medium |-> [fps |-> 30, gop |-> 15, kbps |-> 900],
     high   |-> [fps |-> 30, gop |-> 15, kbps |-> 1500],
     ultra  |-> [fps |-> 15, gop |-> 1,  kbps |-> 1200]]

(* Mutant: an entry copied and not adapted. *)
CedarSPSPPS_Copied ==
    [size \in {<<480, 272>>, <<1280, 720>>} |-> <<66, 64, 30, 244, 15, 4, 114>>]

(* cedarSPSPPS: the sequence parameter sets, from the profile on *)
CedarSPSPPS ==
    [size \in {<<480, 272>>, <<640, 368>>, <<1280, 720>>} |->
        CASE size = <<480, 272>>  -> <<66, 64, 30, 244, 15, 4, 114>>
          [] size = <<640, 368>>  -> <<66, 64, 30, 244, 15, 4, 114>>
          [] size = <<1280, 720>> -> <<66, 64, 31, 150, 84, 2, 128, 45, 200>>]

CedarSize == <<Align16(device.native[1]), Align16(device.native[2])>>

(* gop := max(1, p.fps/2), and only key frames for ultra *)
SoftwareGop(quality) ==
    IF quality = "ultra" \/ Presets[quality].fps < 2 THEN 1
                                                     ELSE Presets[quality].fps \div 2

-----------------------------------------------------------------------------
(* GetEncoder *)

(* The first critical section, and ProbeALSA: alsa tells if a device opens. *)
ReadSettings(alsa) ==
    /\ pc = "get"
    /\ half' = [quality   |-> IF cfg.transport = "rtp" THEN "high" ELSE cfg.quality,
                audio     |-> cfg.audio /\ alsa /\ cfg.transport = "ts",
                transport |-> cfg.transport]
    /\ due' = IF steady /\ path = manifest.path THEN manifest.mime ELSE "any"
    /\ pc' = "half"
    /\ UNCHANGED <<cfg, device, browser, path, answer>>

(* Mutant: RTP does not insist on the hardware encoder. *)
Preference_AsSet == cfg.encoder

(* The second critical section *)
Preference == IF half.transport = "rtp" THEN "cedar" ELSE cfg.encoder

(* NewCedarEncoder succeeds: the probe does and CedarPresetFor does. *)
CedarWorks == device.cedar /\ CedarSize \in DOMAIN CedarSPSPPS

CedarEncoder ==
    [by    |-> "cedar",
     body  |-> [ts |-> "video/mp2t", h264 |-> "video/h264",
                rtp |-> "application/sdp"][half.transport],
     size  |-> CedarSize,
     fps   |-> CedarQualityParams[half.quality].fps,
     kbps  |-> CedarQualityParams[half.quality].kbps,
     gop   |-> CedarQualityParams[half.quality].gop,
     audio |-> FALSE]

(* NewFFmpegEncoder and BuildArgs *)
FFmpegEncoder ==
    [by    |-> "exec",
     body  |-> IF half.transport = "h264" THEN "video/h264" ELSE "video/mp2t",
     size  |-> IF Presets[half.quality].size = <<0, 0>> THEN device.native
                                                        ELSE Presets[half.quality].size,
     fps   |-> Presets[half.quality].fps,
     kbps  |-> Presets[half.quality].kbps,
     gop   |-> SoftwareGop(half.quality),
     audio |-> half.audio]

NewEncoderFails == Preference = "cedar" /\ ~CedarWorks

(* NewEncoderWithPreference *)
NewEncoder ==
    IF Preference # "ffmpeg" /\ CedarWorks THEN CedarEncoder ELSE FFmpegEncoder

-----------------------------------------------------------------------------
(* handler *)

(* An encoder that does not tell has the type of a transport stream. *)
EncoderType(encoder) ==
    IF encoder.by = "cedar" THEN encoder.body ELSE "video/mp2t"

(* Mutant: nobody is redirected. *)
Redirects_Never(encoder) == FALSE

Redirects(encoder) == path = "ts" /\ EncoderType(encoder) = "application/sdp"

(* Mutant: the address decides the type, whatever the encoder produces. *)
HeaderType_ByPath(encoder) ==
    IF path = "sdp" THEN "application/sdp" ELSE "video/mp2t"

(* The Content-Type of the response *)
HeaderType(encoder) ==
    IF path = "sdp" THEN "application/sdp"
    ELSE IF EncoderType(encoder) = "application/sdp" THEN "video/mp2t"
    ELSE EncoderType(encoder)

(* A session description is written in place of the stream of an encoder   *)
(* that has one; the stream is discarded. On another path Start writes it. *)
Body(encoder) ==
    IF path = "sdp" /\ encoder.body # "application/sdp" THEN "nothing" ELSE encoder.body

Get(p) ==
    /\ pc = "idle"
    /\ path' = p
    /\ answer' = NoAnswer
    /\ due' = "any"
    /\ pc' = "get"
    /\ UNCHANGED <<cfg, device, browser, half>>

Respond ==
    /\ pc = "half"
    /\ IF NewEncoderFails
         THEN answer' = [of |-> "stream", status |-> 500, half |-> half]
         ELSE IF Redirects(NewEncoder)
         THEN answer' = [of |-> "stream", status |-> 307, half |-> half]
         ELSE answer' = [of |-> "stream", status |-> 200, half |-> half, encoder |-> NewEncoder,
                         type |-> HeaderType(NewEncoder), body |-> Body(NewEncoder)]
    /\ pc' = IF answer'.status = 307 THEN "redirected" ELSE "idle"
    /\ half' = NoHalf
    /\ UNCHANGED <<cfg, device, browser, path, due>>

(* The player follows the redirection. *)
Follow ==
    /\ pc = "redirected"
    /\ path' = "sdp"
    /\ answer' = NoAnswer
    /\ due' = "any"
    /\ pc' = "get"
    /\ UNCHANGED <<cfg, device, browser, half>>

Next ==
    \/ \E t \in Transports : SetTransport(t)
    \/ SetOther
    \/ \E id \in Objects, metadata \in BOOLEAN : Browse(id, metadata)
    \/ \E p \in Paths : Get(p)
    \/ \E alsa \in BOOLEAN : ReadSettings(alsa)
    \/ Respond
    \/ Follow

Spec == Init /\ [][Next]_vars

-----------------------------------------------------------------------------
(* The sequence parameter set as a decoder reads it: ITU-T H.264, 7.3.2.1.1 *)

Bit(bytes, i) == (bytes[(i \div 8) + 1] \div <<128, 64, 32, 16, 8, 4, 2, 1>>[(i % 8) + 1]) % 2

(* An unsigned Exp-Golomb number that starts at bit i, and where it ends *)
Zeros(bytes, i) == CHOOSE z \in 0..15 :
    /\ Bit(bytes, i + z) = 1
    /\ \A k \in 0..(z - 1) : Bit(bytes, i + k) = 0
Golomb(bytes, i) ==
    LET z == Zeros(bytes, i)
        sum[k \in 0..z] == IF k = 0 THEN 1 ELSE 2 * sum[k - 1] + Bit(bytes, i + z + k)
    IN  sum[z] - 1
Past(bytes, i) == i + 2 * Zeros(bytes, i) + 1

(* After the profile and the level: five numbers, a flag, width and height *)
FrameSize(bytes) ==
    LET past(i) == Past(bytes, i)
        width   == past(past(past(past(past(24))))) + 1
    IN  <<16 * (Golomb(bytes, width) + 1), 16 * (Golomb(bytes, past(width)) + 1)>>

-----------------------------------------------------------------------------
(* Properties *)

Streamed == answer.of = "stream" /\ answer.status = 200

(* A player that asks for the address it read in the directory, with the    *)
(* transport unchanged since, is sent the format the directory announced,   *)
(* by whichever encoder; the hardware's answer says so in its header too.   *)
BodyAsAnnounced ==
    Streamed /\ due # "any" =>
        /\ answer.body = due
        /\ answer.encoder.by = "cedar" => answer.type = due

(* A player that only knows the address of the transport stream, from a     *)
(* bookmark or from before a change of the transport, is never sent a       *)
(* session description as a video: it is redirected to one.                 *)
StaleAddressServed ==
    Streamed /\ path = "ts" => answer.body # "application/sdp"

(* Whatever is changed between the two reads of GetEncoder, the encoder     *)
(* that the second chooses suits the transport and the quality of the first:*)
(* only the hardware sends RTP, audio is captured only for a transport      *)
(* stream, and either encoder runs at the rates of that quality, for which  *)
(* the two have a table each.                                               *)
TornReadHarmless ==
    Streamed =>
        LET rates == CedarQualityParams[answer.half.quality]
        IN  /\ answer.half.transport = "rtp" => answer.encoder.by = "cedar"
            /\ answer.encoder.audio => answer.encoder.body = "video/mp2t"
            /\ answer.encoder.fps = rates.fps /\ answer.encoder.kbps = rates.kbps

(* The parameter sets the hardware encoder sends ahead of its frames        *)
(* describe frames of the size it encodes, and these cover the screen with  *)
(* less than a macroblock to spare: for every size of the table but one,    *)
(* whose entry is the copy of another and tells a decoder 480x272, although *)
(* the table says that all its entries were verified on the hardware.       *)
SizeDescribed ==
    Streamed /\ answer.encoder.by = "cedar" =>
        /\ FrameSize(CedarSPSPPS[answer.encoder.size]) =
             IF answer.encoder.size = <<640, 368>> THEN <<480, 272>> ELSE answer.encoder.size
        /\ \A i \in 1..2 : answer.encoder.size[i] - device.native[i] \in 0..15
=============================================================================
