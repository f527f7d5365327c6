----------------------------- MODULE VampsPacket ------------------------------
(***************************************************************************)
(* The video packet of one sector and how vamps rewrites it (vamps.c:      *)
(* check_video_packet, gen_video_packet).  The requantized elementary      *)
(* stream of a GOP is put back into the packets it came from; a packet     *)
(* that is not filled is completed by a padding packet, or by stuffing     *)
(* bytes in its header when a padding packet does not fit.  The output of  *)
(* vamps is a program stream that vamps itself must accept again.          *)
(*                                                                         *)
(* A sector is 14 bytes of pack header, then a video packet: 6 bytes of    *)
(* start code and length, 3 of flags, hdr optional header bytes (ptr [8]), *)
(* es bytes of video; then pad bytes of padding packet.                    *)
(***************************************************************************)
EXTENDS Integers

CONSTANTS SECT,         \* SECT_SIZE
          Byte,         \* 256: what ptr [8] can hold is hdr % Byte
          MaxHeader     \* bound: largest optional header considered

ASSUME PacketAssumption ==
    /\ SECT \in Nat /\ Byte \in Nat /\ MaxHeader \in Nat
    /\ MaxHeader + 6 < Byte
    /\ 23 + MaxHeader + 6 + 6 < SECT

VARIABLES flags,   \* ptr [7] & 0xc0, 192 if the packet has time stamps
          hdr,     \* ptr [8], length of the optional header
          es,      \* video bytes
          pad,     \* length of the padding packet, 0 if there is none
          unplaced \* video bytes gen_video_packet() was given and did not place

packetVars == <<flags, hdr, es, pad, unplaced>>

\* Length of the video packet, as its length field says plus 6.
PacketLength == 6 + 3 + hdr + es

\* check_video_packet() does not end in fatal(): a padding packet is looked for
\* only if more than its 6 bytes of header are missing, and then all is filled.
Accepted == IF 14 + PacketLength < SECT - 6
              THEN pad >= 6 /\ 14 + PacketLength + pad = SECT
              ELSE 14 + PacketLength = SECT

\* The optional header is kept if it holds time stamps, else its bytes are
\* available to video.
KeptHeader == IF flags = 192 THEN hdr ELSE 0
DataLength == SECT - (14 + 6 + 3 + KeptHeader)           \* data_length

PacketInit == /\ flags \in {0, 192} /\ hdr \in 0 .. MaxHeader
        /\ es \in 1 .. SECT /\ pad \in {0} \cup 6 .. SECT
        /\ Accepted
        /\ unplaced = 0

\* Mutant: the stuffing is not added to the header's length.
StuffedPacketShort(avail) ==
    /\ avail < DataLength /\ ~(avail < DataLength - 6)
    /\ hdr' = KeptHeader
    /\ es' = avail /\ pad' = 0

\* gen_video_packet() with avail bytes of requantized video at hand.
FullPacket(avail) ==
    /\ avail >= DataLength
    /\ hdr' = KeptHeader /\ es' = DataLength /\ pad' = 0

ShortPacket(avail) ==
    /\ avail < DataLength - 6
    /\ hdr' = KeptHeader /\ es' = avail
    /\ pad' = (DataLength - (avail + 6)) + 6

StuffedPacket(avail) ==
    /\ avail < DataLength /\ ~(avail < DataLength - 6)
    /\ hdr' = (KeptHeader + (DataLength - avail)) % Byte
    /\ es' = avail /\ pad' = 0

Generate(avail) ==
    /\ \/ FullPacket(avail) \/ ShortPacket(avail) \/ StuffedPacket(avail)
    /\ unplaced' = avail - es'
    /\ UNCHANGED flags

\* The sector goes through vamps, whose output may go through vamps again.  A
\* header stuffed beyond the bound is the end of the behaviour considered.
Rewrite == /\ hdr <= MaxHeader
           /\ \E avail \in 1 .. SECT : Generate(avail)
Retired == hdr > MaxHeader /\ UNCHANGED packetVars

PacketNext == Rewrite \/ Retired

PacketSpec == PacketInit /\ [][PacketNext]_packetVars

-------------------------------------------------------------------------------
PacketTypeOK == /\ flags \in {0, 192} /\ hdr \in 0 .. Byte - 1
          /\ es \in 1 .. SECT /\ pad \in {0} \cup 6 .. SECT
          /\ unplaced \in Nat

\* A packet takes all the bytes at hand unless it is full, and has room for what
\* it holds already: VampsStream's Content <= Room, by which no video is lost.
FillsUp == /\ unplaced > 0 => es = DataLength /\ pad = 0
           /\ es <= DataLength

\* A rewritten sector is exactly full and passes vamps' own checks, however many
\* bytes there were to place: also at the boundaries where 0 to 7 bytes are
\* missing and a padding packet, stuffing or neither is due; and it is filled.
Rewritable == Accepted /\ FillsUp

===============================================================================
