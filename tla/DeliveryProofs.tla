--------------------------- MODULE DeliveryProofs ---------------------------
(***************************************************************************)
(* For screens of any size and players that ask for any paths: whatever    *)
(* settings are changed between browsing, asking and the two reads of      *)
(* GetEncoder, the player is sent what the directory announced, or what an *)
(* address it remembers can be answered with, by an encoder that suits     *)
(* what was read first; and the hardware's parameter sets, read bit by bit *)
(* as a decoder does, describe the size it encodes, but for the one entry  *)
(* that is the copy of another.                                            *)
(***************************************************************************)
EXTENDS Delivery, TLAPS

(* The addresses and the formats that go with a transport *)
PathOf == [ts |-> "ts",         h264 |-> "h264",       rtp |-> "sdp"]
MimeOf == [ts |-> "video/mp2t", h264 |-> "video/h264", rtp |-> "application/sdp"]

(* What the player has read is still so, if it may rely on it. *)
Informed ==
    /\ cfg \in Configs
    /\ steady => /\ manifest.path = PathOf[cfg.transport]
                 /\ manifest.mime = MimeOf[cfg.transport]

(* Between its reads GetEncoder has read settings that belong together, and *)
(* what was promised is what their transport is announced as.               *)
HalfRead ==
    pc = "half" =>
        /\ half.quality \in Qualities /\ half.transport \in Transports
        /\ half.audio => half.transport = "ts"
        /\ due # "any" => path = PathOf[half.transport] /\ due = MimeOf[half.transport]

(* Until it is answered a request has no answer. *)
Unanswered == pc \in {"get", "half", "redirected"} => ~Streamed

Promises == BodyAsAnnounced /\ StaleAddressServed /\ TornReadHarmless

IInv == Informed /\ HalfRead /\ Unanswered /\ Promises

-----------------------------------------------------------------------------
LEMMA InitInv == Init => IInv
  BY DEF Init, IInv, Informed, HalfRead, Unanswered, Promises, BodyAsAnnounced,
         StaleAddressServed, TornReadHarmless, Streamed, NoAnswer

(* Without a stream there is nothing to be kept. *)
LEMMA NoStream == ~Streamed => Promises
  BY DEF Promises, BodyAsAnnounced, StaleAddressServed, TornReadHarmless

(* The hardware encoder produces what its transport is announced as, at the *)
(* rates of its quality.                                                    *)
LEMMA Hardware ==
    ASSUME half.quality \in Qualities, half.transport \in Transports
    PROVE  /\ CedarEncoder.by = "cedar" /\ ~CedarEncoder.audio
           /\ CedarEncoder.body = MimeOf[half.transport]
           /\ CedarEncoder.fps = CedarQualityParams[half.quality].fps
           /\ CedarEncoder.kbps = CedarQualityParams[half.quality].kbps
  BY DEF CedarEncoder, MimeOf, Transports

(* So does the software encoder for the transports it knows. *)
LEMMA Software ==
    ASSUME half.quality \in Qualities, half.transport \in Transports
    PROVE  /\ FFmpegEncoder.by = "exec" /\ (FFmpegEncoder.audio => half.audio)
           /\ half.transport # "rtp" => FFmpegEncoder.body = MimeOf[half.transport]
           /\ FFmpegEncoder.body # "application/sdp"
           /\ FFmpegEncoder.fps = CedarQualityParams[half.quality].fps
           /\ FFmpegEncoder.kbps = CedarQualityParams[half.quality].kbps
<1>1. /\ Presets[half.quality].fps = CedarQualityParams[half.quality].fps
      /\ Presets[half.quality].kbps = CedarQualityParams[half.quality].kbps
  BY DEF Presets, CedarQualityParams, Qualities
<1>2. half.transport # "rtp" => FFmpegEncoder.body = MimeOf[half.transport]
  BY DEF FFmpegEncoder, MimeOf, Transports
<1> QED
  BY <1>1, <1>2 DEF FFmpegEncoder

(* Whichever is chosen at the second read, RTP gets the hardware. *)
LEMMA Chosen ==
    ASSUME ~NewEncoderFails
    PROVE  /\ NewEncoder = CedarEncoder \/ NewEncoder = FFmpegEncoder
           /\ half.transport = "rtp" => NewEncoder = CedarEncoder
  BY DEF NewEncoderFails, NewEncoder, Preference

LEMMA RespondInv == ASSUME IInv, Respond PROVE IInv'
<1> USE DEF IInv
<1>1. Informed' /\ HalfRead' /\ path' = path /\ due' = due /\ pc' # "half" /\ pc' # "get"
  BY DEF Respond, Informed, HalfRead, browser
<1>2. /\ half.quality \in Qualities /\ half.transport \in Transports
      /\ half.audio => half.transport = "ts"
      /\ due # "any" => path = PathOf[half.transport] /\ due = MimeOf[half.transport]
  BY DEF Respond, HalfRead
<1>3. CASE NewEncoderFails \/ Redirects(NewEncoder)
  <2>1. ~Streamed'
    BY <1>3 DEF Respond, Streamed
  <2>2. Promises'
    BY <2>1, NoStream, PTL
  <2> QED
    BY <1>1, <2>1, <2>2 DEF Unanswered
<1>4. CASE ~NewEncoderFails /\ ~Redirects(NewEncoder)
  <2> DEFINE e == NewEncoder
  <2>1. answer' = [of |-> "stream", status |-> 200, half |-> half, encoder |-> e,
                   type |-> HeaderType(e), body |-> Body(e)]
    BY <1>4 DEF Respond
  <2>2. pc' = "idle"
    BY <1>4, <2>1 DEF Respond
  <2>3. /\ e.by = "cedar" => ~e.audio /\ e.body = MimeOf[half.transport]
        /\ e.by # "cedar" => /\ half.transport # "rtp" /\ (e.audio => half.audio)
                             /\ e.body = MimeOf[half.transport]
        /\ e.fps = CedarQualityParams[half.quality].fps
        /\ e.kbps = CedarQualityParams[half.quality].kbps
    BY <1>2, <1>4, Chosen, Hardware, Software
  <2>4. ~Redirects(e)
    BY <1>4
  <2> HIDE DEF e
  <2>5. e.body = MimeOf[half.transport]
    BY <2>3
  <2>6. BodyAsAnnounced'
    <3>1. CASE due = "any"
      BY <1>1, <3>1 DEF BodyAsAnnounced
    <3>2. CASE due # "any"
      <4>1. Body(e) = due
        BY <1>2, <2>5, <3>2 DEF Body, PathOf, MimeOf, Transports
      <4>2. e.by = "cedar" => HeaderType(e) = due
        BY <1>2, <2>5, <3>2 DEF HeaderType, EncoderType, PathOf, MimeOf, Transports
      <4> QED
        BY <1>1, <2>1, <4>1, <4>2 DEF BodyAsAnnounced
    <3> QED
      BY <3>1, <3>2
  <2>7. StaleAddressServed'
    <3>1. path = "ts" => Body(e) # "application/sdp"
      <4>1. CASE e.by = "cedar"
        BY <2>4, <4>1 DEF Redirects, EncoderType, Body
      <4>2. CASE e.by # "cedar"
        BY <1>2, <2>3, <4>2 DEF Body, MimeOf, Transports
      <4> QED
        BY <4>1, <4>2
    <3> QED
      BY <1>1, <2>1, <3>1 DEF StaleAddressServed
  <2>8. TornReadHarmless'
    <3>1. e.audio => e.body = "video/mp2t"
      BY <1>2, <2>3 DEF MimeOf
    <3>2. half.transport = "rtp" => e.by = "cedar"
      BY <2>3
    <3>3. answer'.half = half /\ answer'.encoder = e
      BY <2>1
    <3> QED
      BY <2>3, <3>1, <3>2, <3>3 DEF TornReadHarmless, CedarQualityParams
  <2> QED
    BY <1>1, <2>2, <2>6, <2>7, <2>8 DEF Unanswered, Promises
<1> QED
  BY <1>3, <1>4

(* What does not touch the request touches nothing that was promised. *)
LEMMA AnswerKept ==
    ASSUME IInv, UNCHANGED request, Informed'
    PROVE  IInv'
  BY DEF IInv, request, HalfRead, Unanswered, Promises, BodyAsAnnounced, StaleAddressServed,
         TornReadHarmless, Streamed

(* Every other step leaves the answer alone or takes it away. *)
LEMMA OtherInv ==
    ASSUME IInv, [Next]_vars, ~Respond
    PROVE  IInv'
<1> USE DEF IInv, browser, request
<1>1. ASSUME NEW t \in Transports, SetTransport(t) PROVE IInv'
  <2>1. UNCHANGED <<manifest, request>> /\ cfg'.transport = t /\ cfg' \in Configs
    BY <1>1 DEF SetTransport, Informed, Configs, Qualities
  <2>2. steady' => steady /\ t = cfg.transport
    BY <1>1 DEF SetTransport
  <2>3. Informed'
    BY <2>1, <2>2 DEF Informed
  <2> QED
    BY <2>1, <2>3, AnswerKept
<1>2. ASSUME SetOther PROVE IInv'
  <2>1. UNCHANGED <<manifest, steady, request>>
    BY <1>2 DEF SetOther
  <2>2. cfg' \in Configs /\ cfg'.transport = cfg.transport
    BY <1>2 DEF SetOther, Informed, Configs
  <2>3. Informed'
    BY <2>1, <2>2 DEF Informed
  <2> QED
    BY <2>1, <2>3, AnswerKept
<1>3. ASSUME NEW id \in Objects, NEW m \in BOOLEAN, Browse(id, m) PROVE IInv'
  <2>1. ~Streamed'
    BY <1>3 DEF Browse, Streamed
  <2>2. Promises'
    BY <2>1, NoStream, PTL
  <2>3. Informed'
    BY <1>3 DEF Browse, Informed, ResolveStreamURLAndMIME, PathOf, MimeOf, Configs, Transports
  <2> QED
    BY <1>3, <2>1, <2>2, <2>3 DEF Browse, HalfRead, Unanswered
<1>4. ASSUME (\E p \in Paths : Get(p)) \/ Follow PROVE IInv'
  <2>1. ~Streamed'
    BY <1>4 DEF Get, Follow, Streamed, NoAnswer
  <2>2. Promises'
    BY <2>1, NoStream, PTL
  <2> QED
    BY <1>4, <2>1, <2>2 DEF Get, Follow, Informed, HalfRead, Unanswered
<1>5. ASSUME NEW alsa \in BOOLEAN, ReadSettings(alsa) PROVE IInv'
  <2>1. ~Streamed'
    BY <1>5 DEF ReadSettings, Unanswered, Streamed
  <2>2. Promises'
    BY <2>1, NoStream, PTL
  <2>3. HalfRead'
    BY <1>5 DEF ReadSettings, HalfRead, Informed, Configs, Qualities, Transports
  <2> QED
    BY <1>5, <2>1, <2>2, <2>3 DEF ReadSettings, Informed, Unanswered
<1>6. ASSUME UNCHANGED vars PROVE IInv'
  BY <1>6, AnswerKept DEF vars, Informed
<1> QED
  BY <1>1, <1>2, <1>3, <1>4, <1>5, <1>6 DEF Next

LEMMA Inductive == Spec => []IInv
<1>1. IInv /\ [Next]_vars => IInv'
  BY RespondInv, OtherInv
<1> QED
  BY InitInv, <1>1, PTL DEF Spec

(* What a player reads in the directory is what it is sent, whatever        *)
(* settings other than the transport change meanwhile.                      *)
THEOREM AnnouncedIsSent == Spec => []BodyAsAnnounced
<1>1. IInv => BodyAsAnnounced
  BY DEF IInv, Promises
<1> QED
  BY <1>1, Inductive, PTL

(* No player that asks for the transport stream is sent a session           *)
(* description in its place.                                                *)
THEOREM StaleAlwaysServed == Spec => []StaleAddressServed
<1>1. IInv => StaleAddressServed
  BY DEF IInv, Promises
<1> QED
  BY <1>1, Inductive, PTL

(* Leaving the lock between its two reads does GetEncoder no harm. *)
THEOREM TornReadsHarmless == Spec => []TornReadHarmless
<1>1. IInv => TornReadHarmless
  BY DEF IInv, Promises
<1> QED
  BY <1>1, Inductive, PTL

-----------------------------------------------------------------------------
(* The parameter sets: what a decoder reads from them. *)

(* A code begins with as many zeros as there are before its first one. *)
LEMMA ZerosAre ==
    ASSUME NEW bytes, NEW i \in Nat, NEW z \in 0..15,
           Bit(bytes, i + z) = 1, \A k \in 0..(z - 1) : Bit(bytes, i + k) = 0
    PROVE  Zeros(bytes, i) = z
<1> DEFINE Is(y) == Bit(bytes, i + y) = 1 /\ \A k \in 0..(y - 1) : Bit(bytes, i + k) = 0
<1>1. ASSUME NEW y \in 0..15, Is(y) PROVE y = z
  <2>1. CASE y < z
    BY <1>1, <2>1
  <2>2. CASE z < y
    BY <1>1, <2>2
  <2> QED
    BY <2>1, <2>2
<1>2. Zeros(bytes, i) = CHOOSE y \in 0..15 : Is(y)
  BY DEF Zeros
<1>3. Is(z)
  OBVIOUS
<1> HIDE DEF Is
<1> QED
  BY <1>1, <1>2, <1>3

(* The numbers that a code of z zeros, a one and z bits passes through *)
Sums(bytes, i, z, sum) ==
    sum = [k \in 0..z |-> IF k = 0 THEN 1 ELSE 2 * sum[k - 1] + Bit(bytes, i + z + k)]

(* The number is the last of them, less one. *)
LEMMA GolombIs ==
    ASSUME NEW bytes, NEW i \in Nat, NEW z \in 0..15, Zeros(bytes, i) = z,
           NEW f, Sums(bytes, i, z, f)
    PROVE  \E sum : Sums(bytes, i, z, sum) /\ Golomb(bytes, i) = sum[z] - 1
<1>1. Golomb(bytes, i) = (CHOOSE sum : Sums(bytes, i, z, sum))[z] - 1
  BY DEF Golomb, Sums
<1> QED
  BY <1>1

(* The eight bits of a byte *)
Octet(bytes, i, b) ==
    /\ Bit(bytes, i) = (b \div 128) % 2
    /\ Bit(bytes, i + 1) = (b \div 64) % 2
    /\ Bit(bytes, i + 2) = (b \div 32) % 2
    /\ Bit(bytes, i + 3) = (b \div 16) % 2
    /\ Bit(bytes, i + 4) = (b \div 8) % 2
    /\ Bit(bytes, i + 5) = (b \div 4) % 2
    /\ Bit(bytes, i + 6) = (b \div 2) % 2
    /\ Bit(bytes, i + 7) = b % 2

LEMMA OctetOf ==
    ASSUME NEW bytes, NEW i \in Nat, NEW b \in Nat, i % 8 = 0, bytes[(i \div 8) + 1] = b
    PROVE  Octet(bytes, i, b)
<1> DEFINE w == <<128, 64, 32, 16, 8, 4, 2, 1>>
<1>1. ASSUME NEW r \in 0..7 PROVE Bit(bytes, i + r) = (b \div w[r + 1]) % 2
  <2>1. (i + r) \div 8 = i \div 8 /\ (i + r) % 8 = r
    OBVIOUS
  <2> QED
    BY <2>1 DEF Bit
<1>2. /\ w[1] = 128 /\ w[2] = 64 /\ w[3] = 32 /\ w[4] = 16
      /\ w[5] = 8 /\ w[6] = 4 /\ w[7] = 2 /\ w[8] = 1
  OBVIOUS
<1>3. i + 0 = i /\ b \div 1 = b
  OBVIOUS
<1> HIDE DEF w
<1> QED
  BY <1>1, <1>2, <1>3 DEF Octet

(* The parameter sets of 480x272 *)
Small == <<66, 64, 30, 244, 15, 4, 114>>

LEMMA SmallBytes ==
    /\ Octet(Small, 24, 244)
    /\ Octet(Small, 32, 15)
    /\ Octet(Small, 40, 4)
    /\ Octet(Small, 48, 114)
<1>1. Small[(24 \div 8) + 1] = 244
  BY DEF Small
<1>2. Small[(32 \div 8) + 1] = 15
  BY DEF Small
<1>3. Small[(40 \div 8) + 1] = 4
  BY DEF Small
<1>4. Small[(48 \div 8) + 1] = 114
  BY DEF Small
<1> QED
  BY <1>1, <1>2, <1>3, <1>4, OctetOf

LEMMA SmallSize == FrameSize(Small) = <<480, 272>>
<1> USE SmallBytes DEF Octet
<1>1. Zeros(Small, 24) = 0
  BY ZerosAre
<1>2. Zeros(Small, 25) = 0
  BY ZerosAre
<1>3. Zeros(Small, 26) = 0
  BY ZerosAre
<1>4. Zeros(Small, 27) = 0
  BY ZerosAre
<1>5. Zeros(Small, 28) = 1
  <2>1. \A k \in 0..(1 - 1) : Bit(Small, 28 + k) = 0
    OBVIOUS
  <2> QED
    BY <2>1, ZerosAre
<1>6. Zeros(Small, 32) = 4
  <2>1. \A k \in 0..(4 - 1) : Bit(Small, 32 + k) = 0
    OBVIOUS
  <2> QED
    BY <2>1, ZerosAre
<1>7. Zeros(Small, 41) = 4
  <2>1. \A k \in 0..(4 - 1) : Bit(Small, 41 + k) = 0
    OBVIOUS
  <2> QED
    BY <2>1, ZerosAre
<1>8. Golomb(Small, 32) = 29
  <2> DEFINE f == [k \in 0..4 |-> <<1, 3, 7, 15, 30>>[k + 1]]
  <2>1. Sums(Small, 32, 4, f)
    BY DEF Sums
  <2> HIDE DEF f
  <2>2. PICK sum : Sums(Small, 32, 4, sum) /\ Golomb(Small, 32) = sum[4] - 1
    BY <1>6, <2>1, GolombIs
  <2>3. sum[0] = 1 /\ sum[1] = 3 /\ sum[2] = 7 /\ sum[3] = 15 /\ sum[4] = 30
    BY <2>2 DEF Sums
  <2> QED
    BY <2>2, <2>3
<1>9. Golomb(Small, 41) = 16
  <2> DEFINE f == [k \in 0..4 |-> <<1, 2, 4, 8, 17>>[k + 1]]
  <2>1. Sums(Small, 41, 4, f)
    BY DEF Sums
  <2> HIDE DEF f
  <2>2. PICK sum : Sums(Small, 41, 4, sum) /\ Golomb(Small, 41) = sum[4] - 1
    BY <1>7, <2>1, GolombIs
  <2>3. sum[0] = 1 /\ sum[1] = 2 /\ sum[2] = 4 /\ sum[3] = 8 /\ sum[4] = 17
    BY <2>2 DEF Sums
  <2> QED
    BY <2>2, <2>3
<1>10. /\ Past(Small, 24) = 25 /\ Past(Small, 25) = 26 /\ Past(Small, 26) = 27
       /\ Past(Small, 27) = 28 /\ Past(Small, 28) = 31 /\ Past(Small, 32) = 41
  BY <1>1, <1>2, <1>3, <1>4, <1>5, <1>6 DEF Past
<1> QED
  BY <1>8, <1>9, <1>10 DEF FrameSize

(* The parameter sets of 1280x720 *)
Large == <<66, 64, 31, 150, 84, 2, 128, 45, 200>>

LEMMA LargeBytes ==
    /\ Octet(Large, 24, 150)
    /\ Octet(Large, 32, 84)
    /\ Octet(Large, 40, 2)
    /\ Octet(Large, 48, 128)
    /\ Octet(Large, 56, 45)
    /\ Octet(Large, 64, 200)
<1>1. Large[(24 \div 8) + 1] = 150
  BY DEF Large
<1>2. Large[(32 \div 8) + 1] = 84
  BY DEF Large
<1>3. Large[(40 \div 8) + 1] = 2
  BY DEF Large
<1>4. Large[(48 \div 8) + 1] = 128
  BY DEF Large
<1>5. Large[(56 \div 8) + 1] = 45
  BY DEF Large
<1>6. Large[(64 \div 8) + 1] = 200
  BY DEF Large
<1> QED
  BY <1>1, <1>2, <1>3, <1>4, <1>5, <1>6, OctetOf

LEMMA LargeSize == FrameSize(Large) = <<1280, 720>>
<1> USE LargeBytes DEF Octet
<1>1. Zeros(Large, 24) = 0
  BY ZerosAre
<1>2. Zeros(Large, 25) = 2
  <2>1. \A k \in 0..(2 - 1) : Bit(Large, 25 + k) = 0
    OBVIOUS
  <2> QED
    BY <2>1, ZerosAre
<1>3. Zeros(Large, 30) = 0
  BY ZerosAre
<1>4. Zeros(Large, 31) = 2
  <2>1. \A k \in 0..(2 - 1) : Bit(Large, 31 + k) = 0
    OBVIOUS
  <2> QED
    BY <2>1, ZerosAre
<1>5. Zeros(Large, 36) = 1
  <2>1. \A k \in 0..(1 - 1) : Bit(Large, 36 + k) = 0
    OBVIOUS
  <2> QED
    BY <2>1, ZerosAre
<1>6. Zeros(Large, 40) = 6
  <2>1. \A k \in 0..(6 - 1) : Bit(Large, 40 + k) = 0
    OBVIOUS
  <2> QED
    BY <2>1, ZerosAre
<1>7. Zeros(Large, 53) = 5
  <2>1. \A k \in 0..(5 - 1) : Bit(Large, 53 + k) = 0
    OBVIOUS
  <2> QED
    BY <2>1, ZerosAre
<1>8. Golomb(Large, 40) = 79
  <2> DEFINE f == [k \in 0..6 |-> <<1, 2, 5, 10, 20, 40, 80>>[k + 1]]
  <2>1. Sums(Large, 40, 6, f)
    BY DEF Sums
  <2> HIDE DEF f
  <2>2. PICK sum : Sums(Large, 40, 6, sum) /\ Golomb(Large, 40) = sum[6] - 1
    BY <1>6, <2>1, GolombIs
  <2>3. /\ sum[0] = 1 /\ sum[1] = 2 /\ sum[2] = 5 /\ sum[3] = 10
        /\ sum[4] = 20 /\ sum[5] = 40 /\ sum[6] = 80
    BY <2>2 DEF Sums
  <2> QED
    BY <2>2, <2>3
<1>9. Golomb(Large, 53) = 44
  <2> DEFINE f == [k \in 0..5 |-> <<1, 2, 5, 11, 22, 45>>[k + 1]]
  <2>1. Sums(Large, 53, 5, f)
    BY DEF Sums
  <2> HIDE DEF f
  <2>2. PICK sum : Sums(Large, 53, 5, sum) /\ Golomb(Large, 53) = sum[5] - 1
    BY <1>7, <2>1, GolombIs
  <2>3. /\ sum[0] = 1 /\ sum[1] = 2 /\ sum[2] = 5 /\ sum[3] = 11
        /\ sum[4] = 22 /\ sum[5] = 45
    BY <2>2 DEF Sums
  <2> QED
    BY <2>2, <2>3
<1>10. /\ Past(Large, 24) = 25 /\ Past(Large, 25) = 30 /\ Past(Large, 30) = 31
       /\ Past(Large, 31) = 36 /\ Past(Large, 36) = 39 /\ Past(Large, 40) = 53
  BY <1>1, <1>2, <1>3, <1>4, <1>5, <1>6 DEF Past
<1> QED
  BY <1>8, <1>9, <1>10 DEF FrameSize

(* The table, by the sizes it has *)
LEMMA Table ==
    /\ DOMAIN CedarSPSPPS = {<<480, 272>>, <<640, 368>>, <<1280, 720>>}
    /\ CedarSPSPPS[<<480, 272>>] = Small
    /\ CedarSPSPPS[<<640, 368>>] = Small
    /\ CedarSPSPPS[<<1280, 720>>] = Large
  BY DEF CedarSPSPPS, Small, Large

(* What a decoder reads from each entry: the second is a copy of the first. *)
LEMMA Described ==
    ASSUME NEW size \in DOMAIN CedarSPSPPS
    PROVE  FrameSize(CedarSPSPPS[size]) =
             IF size = <<640, 368>> THEN <<480, 272>> ELSE size
<1>1. CASE size = <<480, 272>>
  <2>1. size # <<640, 368>>
    BY <1>1
  <2> QED
    BY <1>1, <2>1, Table, SmallSize
<1>2. CASE size = <<640, 368>>
  BY <1>2, Table, SmallSize
<1>3. CASE size = <<1280, 720>>
  <2>1. size # <<640, 368>>
    BY <1>3
  <2> QED
    BY <1>3, <2>1, Table, LargeSize
<1> QED
  BY <1>1, <1>2, <1>3, Table

(* The screen stays what it is, and the hardware encoder is only chosen for *)
(* sizes that are in the table.                                             *)
Fitting ==
    /\ device.native \in Natives
    /\ Streamed /\ answer.encoder.by = "cedar" =>
         answer.encoder.size = CedarSize /\ CedarSize \in DOMAIN CedarSPSPPS

LEMMA FittingStep ==
    ASSUME Fitting, Unanswered, [Next]_vars
    PROVE  Fitting'
<1>1. device' = device /\ CedarSize' = CedarSize
  BY DEF Next, SetTransport, SetOther, Browse, Get, ReadSettings, Respond, Follow, vars,
         CedarSize
<1>2. CASE Respond
  <2>1. Streamed' => /\ ~NewEncoderFails /\ ~Redirects(NewEncoder)
                     /\ answer'.encoder = NewEncoder
    BY <1>2 DEF Respond, Streamed
  <2>2. NewEncoder.by = "cedar" =>
          NewEncoder.size = CedarSize /\ CedarSize \in DOMAIN CedarSPSPPS
    BY DEF NewEncoder, CedarWorks, CedarEncoder, FFmpegEncoder
  <2> QED
    BY <1>1, <2>1, <2>2 DEF Fitting
<1>3. CASE ~Respond
  <2>1. ASSUME (\E t \in Transports : SetTransport(t)) \/ SetOther \/ UNCHANGED vars
        PROVE  answer' = answer
    BY <2>1 DEF SetTransport, SetOther, vars, request
  <2>2. ASSUME \E alsa \in BOOLEAN : ReadSettings(alsa) PROVE answer' = answer
    BY <2>2 DEF ReadSettings
  <2>3. ASSUME \/ \E id \in Objects, m \in BOOLEAN : Browse(id, m)
               \/ (\E p \in Paths : Get(p)) \/ Follow
        PROVE  ~Streamed'
    BY <2>3 DEF Browse, Get, Follow, Streamed, NoAnswer
  <2>4. answer' = answer \/ ~Streamed'
    BY <1>3, <2>1, <2>2, <2>3 DEF Next
  <2>5. Streamed' => answer' = answer /\ Streamed
    BY <2>4 DEF Streamed
  <2> QED
    BY <1>1, <2>5 DEF Fitting
<1> QED
  BY <1>2, <1>3

(* The size that is encoded covers the screen with less than a macroblock   *)
(* to spare.                                                                *)
LEMMA Covers ==
    ASSUME device.native \in Natives, NEW i \in 1..2
    PROVE  CedarSize[i] - device.native[i] \in 0..15
<1>1. PICK w \in Nat, h \in Nat : device.native = <<w, h>>
  BY DeliveryAssumption
<1>2. \A n \in Nat : ((n + 15) \div 16) * 16 - n \in 0..15
  OBVIOUS
<1>3. CedarSize = <<Align16(w), Align16(h)>>
  BY <1>1 DEF CedarSize
<1>4. Align16(w) - w \in 0..15 /\ Align16(h) - h \in 0..15
  BY <1>2 DEF Align16
<1> QED
  BY <1>1, <1>3, <1>4

(* On a screen of any size decoders are told the size of the frames that   *)
(* they are sent, or 480x272 in place of 640x368.                           *)
THEOREM SizeAlwaysDescribed == Spec => []SizeDescribed
<1>1. Init => Fitting
  BY DEF Init, Fitting, Streamed, NoAnswer
<1>2. IInv /\ Fitting /\ [Next]_vars => Fitting'
  BY FittingStep DEF IInv
<1>3. Fitting => SizeDescribed
  <2> SUFFICES ASSUME Fitting, Streamed, answer.encoder.by = "cedar"
               PROVE  SizeDescribed
    BY DEF SizeDescribed
  <2>1. device.native \in Natives /\ answer.encoder.size = CedarSize
        /\ CedarSize \in DOMAIN CedarSPSPPS
    BY DEF Fitting
  <2>2. FrameSize(CedarSPSPPS[CedarSize]) =
          IF CedarSize = <<640, 368>> THEN <<480, 272>> ELSE CedarSize
    BY <2>1, Described
  <2> QED
    BY <2>1, <2>2, Covers DEF SizeDescribed
<1> QED
  BY <1>1, <1>2, <1>3, Inductive, PTL DEF Spec
=============================================================================
