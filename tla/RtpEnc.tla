------------------------------- MODULE RtpEnc -------------------------------
(***************************************************************************)
(* From a frame to RTP packets: the loop of rtsp_tx_video over the NAL     *)
(* units that rtsp_find_h264_h265_nalu of utils.c finds, and the encoders  *)
(* of rtp_enc.c, one packet a step.  A frame is a sequence of bytes, made  *)
(* of start codes and units; sizes of packets leave out the RTP header.    *)
(* The base64 encoder of utils.c is checked on the same inputs.            *)
(***************************************************************************)
EXTENDS Integers, Sequences, SequencesExt

CONSTANTS
    Units,     \* the sequences of NAL units, or of audio frames, to send
    Caps,      \* pktsiz - RTPHDR_SIZE
    NbPkts,    \* packets that the caller provides
    Codecs     \* a subset of {"h264", "h265", "aac", "g711"}

VARIABLES
    codec, cap,
    units,     \* what is to be sent
    frame,     \* the same as the bytes of a frame
    start,     \* bytes of frame consumed
    rest,      \* the unit being encoded, <<>> between two
    first,     \* count = 0 in the encoder
    pkts,      \* the packets so far
    pc         \* "next", "enc", "sent" or "failed"

vars == <<codec, cap, units, frame, start, rest, first, pkts, pc>>

Video == {"h264", "h265"}
NalHdrLen == IF codec = "h264" THEN 1 ELSE 2
\* Bytes in front of the payload of a fragment or of an AAC packet.
Extra == CASE codec = "h264" -> 2 [] codec = "h265" -> 3
           [] codec = "aac" -> 4 [] OTHER -> 0

\* 3 or 4 where a start code begins, 0 elsewhere.
Code(b, i) ==
    CASE i + 2 <= Len(b) /\ SubSeq(b, i, i + 2) = <<0, 0, 1>> -> 3
      [] i + 3 <= Len(b) /\ SubSeq(b, i, i + 3) = <<0, 0, 0, 1>> -> 4
      [] OTHER -> 0

\* rtsp_find_h264_h265_nalu: the place and the size of the first unit, with
\* its start code; size 0 when there is none, or nothing follows its code.
FindNalu(b) ==
    LET codes == {i \in DOMAIN b : Code(b, i) # 0}
        at    == Min(codes)
        next  == {i \in codes : i >= at + Code(b, at)}
    IN  IF codes = {} \/ at + Code(b, at) > Len(b) THEN [at |-> 0, size |-> 0]
        ELSE [at |-> at,
              size |-> (IF next = {} THEN Len(b) + 1 ELSE Min(next)) - at]

WithCodes(us) ==
    FlattenSeq([i \in DOMAIN us |->
        (IF i = 1 THEN <<0, 0, 0, 1>> ELSE <<0, 0, 1>>) \o us[i]])

Init ==
    /\ codec \in Codecs /\ cap \in Caps /\ units \in Units
    /\ frame = IF codec \in Video THEN WithCodes(units) ELSE FlattenSeq(units)
    /\ start = 0 /\ rest = <<>> /\ first = TRUE
    /\ pkts = <<>> /\ pc = "next"

\* rtp_enc_aac drops the 7 bytes of an ADTS header, which may be all there is.
Adts(b) == codec = "aac" /\ Len(b) > 1 /\ b[1] = 255 /\ b[2] \div 16 = 15
Bare(b) == IF Adts(b) THEN SubSeq(b, 8, Len(b)) ELSE b

\* The loop of rtsp_tx_video finds the next unit, without its start code; an
\* audio frame is one unit.  Nothing is sent of a frame with an empty unit.
NextUnit ==
    /\ pc = "next"
    /\ LET left == SubSeq(frame, start + 1, Len(frame))
           nal  == FindNalu(left)
           body == IF codec \in Video
                   THEN SubSeq(left, nal.at + Code(left, nal.at), nal.at + nal.size - 1)
                   ELSE Bare(left)
       IN  IF left = <<>> \/ Len(pkts) = NbPkts \/ (codec \in Video /\ nal.size = 0)
           THEN pc' = "sent" /\ UNCHANGED <<start, rest, first>>
           ELSE IF body = <<>>
           THEN pc' = "failed" /\ UNCHANGED <<start, rest, first>>
           ELSE /\ pc' = "enc" /\ rest' = body /\ first' = TRUE
                /\ start' = IF codec \in Video THEN start + nal.at + nal.size - 1
                            ELSE Len(frame)
    /\ UNCHANGED <<codec, cap, units, frame, pkts>>

\* rtp_enc_h264, rtp_enc_h265: s and e are the bits of the FU header.
VideoPacketOff(r) ==                                             \* mutant
    LET body == IF first THEN SubSeq(r, NalHdrLen + 1, Len(r)) ELSE r
        mark == ~first /\ Len(body) < cap - Extra
        n    == IF mark THEN Len(body) ELSE cap - Extra
    IN  IF first /\ Len(r) <= cap
        THEN [pkt |-> [m |-> TRUE, fu |-> FALSE, s |-> FALSE, e |-> FALSE, data |-> r],
              rest |-> <<>>]
        ELSE [pkt |-> [m |-> mark, fu |-> TRUE, s |-> first, e |-> mark,
                       data |-> SubSeq(body, 1, n)],
              rest |-> SubSeq(body, n + 1, Len(body))]
VideoPacket(r) ==
    LET body == IF first THEN SubSeq(r, NalHdrLen + 1, Len(r)) ELSE r
        mark == ~first /\ Len(body) <= cap - Extra
        n    == IF mark THEN Len(body) ELSE cap - Extra
    IN  IF first /\ Len(r) <= cap
        THEN [pkt |-> [m |-> TRUE, fu |-> FALSE, s |-> FALSE, e |-> FALSE, data |-> r],
              rest |-> <<>>]
        ELSE [pkt |-> [m |-> mark, fu |-> TRUE, s |-> first, e |-> mark,
                       data |-> SubSeq(body, 1, n)],
              rest |-> SubSeq(body, n + 1, Len(body))]

\* rtp_enc_aac marks the last packet of a frame, rtp_enc_g711 the first packet
\* of the stream.
AudioPacket(r) ==
    LET last == Len(r) <= cap - Extra
        n    == IF last THEN Len(r) ELSE cap - Extra
    IN  [pkt |-> [m |-> IF codec = "aac" THEN last ELSE pkts = <<>>,
                  fu |-> FALSE, s |-> FALSE, e |-> FALSE, data |-> SubSeq(r, 1, n)],
         rest |-> SubSeq(r, n + 1, Len(r))]

Encode ==
    /\ pc = "enc"
    /\ LET p == IF codec \in Video THEN VideoPacket(rest) ELSE AudioPacket(rest)
       IN  /\ pkts' = Append(pkts, p.pkt)
           /\ rest' = p.rest
           /\ pc' = IF p.rest = <<>> \/ Len(pkts) + 1 = NbPkts THEN "next" ELSE "enc"
    /\ first' = FALSE
    /\ UNCHANGED <<codec, cap, units, frame, start>>

Next == NextUnit \/ Encode

Spec == Init /\ [][Next]_vars /\ WF_vars(Next)

----------------------------------------------------------------------------
\* base64_encode as numbers below 64, 64 for "=".
Base64(in) ==
    LET n == Len(in)
        g == IF n = 0 THEN 0 ELSE (n - 1) \div 3      \* bytes_remaining > 3
        word(i) == in[3*i + 1] * 65536 + in[3*i + 2] * 256 + in[3*i + 3]
        r == n - 3 * g
        bits == FoldLeft(LAMBDA a, x : a * 256 + x, 0, SubSeq(in, 3 * g + 1, n))
        chars == (8 * r + 5) \div 6
    IN  [k \in 1..4*g |-> (word((k-1) \div 4) \div 64 ^ (3 - ((k-1) % 4))) % 64]
        \o [k \in 1..chars |->
               LET shift == 8 * r - 6 * (k - 1)       \* i_shift
               IN  ((bits * 64) \div (2 ^ shift)) % 64]
        \o [k \in 1 .. ((4 - chars) % 4) |-> 64]

\* The same by definition: the j-th digit is six bits of the string.
Base64Ref(in) ==
    LET n == Len(in)
        bit(i) == IF i < 8 * n THEN (in[(i \div 8) + 1] \div 2 ^ (7 - (i % 8))) % 2 ELSE 0
        digit(j) == FoldLeft(LAMBDA a, k : 2 * a + bit(6 * j + k), 0, <<0, 1, 2, 3, 4, 5>>)
    IN  [j \in 1 .. 4 * ((n + 2) \div 3) |->
            IF 6 * (j - 1) < 8 * n THEN digit(j - 1) ELSE 64]

----------------------------------------------------------------------------
\* What a receiver makes of the packets: a fragment with s opens a unit with
\* the header it carries, the others continue it.
Received ==
    FoldLeft(LAMBDA us, p : IF codec = "g711" \/ codec = "aac"
                            THEN IF us = <<>> THEN <<p.data>>
                                 ELSE [us EXCEPT ![1] = @ \o p.data]
                            ELSE IF ~p.fu THEN Append(us, p.data)
                            ELSE IF p.s THEN Append(us, <<"hdr">> \o p.data)
                            ELSE [us EXCEPT ![Len(us)] = @ \o p.data],
             <<>>, pkts)

\* A unit as the receiver should see it; the header bytes of a fragmented one
\* travel in the FU header.
Expected(u) == IF codec \in Video /\ Len(u) > cap
               THEN <<"hdr">> \o SubSeq(u, NalHdrLen + 1, Len(u)) ELSE u

\* An empty unit at the end of a frame is no unit to FindNalu.
Sent == IF codec \in Video
        THEN LET full == SelectSeq(units, LAMBDA u : u # <<>>)
             IN  [i \in DOMAIN full |-> Expected(full[i])]
        ELSE IF Bare(frame) = <<>> THEN <<>> ELSE <<Bare(frame)>>

\* No packet is larger than its buffer, and unless the packets run out or a
\* unit is empty, the receiver gets every unit, complete, with one start and
\* one end bit, and the marker on its last packet.
Reassembles ==
    /\ \A i \in DOMAIN pkts :
          Len(pkts[i].data) + (IF pkts[i].fu \/ codec = "aac" THEN Extra ELSE 0) <= cap
    /\ pc = "sent" /\ Len(pkts) < NbPkts =>
          /\ Received = Sent
          /\ codec \in Video => \A i \in DOMAIN pkts :
                /\ pkts[i].m <=> ~pkts[i].fu \/ pkts[i].e
                /\ pkts[i].m <=> (i = Len(pkts) \/ ~pkts[i+1].fu \/ pkts[i+1].s)

\* base64_encode, which fills the SDP, agrees with the definition of base64.
Base64Right ==
    pkts = <<>> /\ pc = "next" => \A i \in DOMAIN units : Base64(units[i]) = Base64Ref(units[i])
============================================================================
