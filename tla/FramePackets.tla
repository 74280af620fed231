----------------------------- MODULE FramePackets -----------------------------
(***************************************************************************)
(* How the video sender thread cuts an encoded frame into packets          *)
(* (stream.cpp, videoBroadcastThread and fec::encode), and the audio       *)
(* sender thread its samples into blocks of four (audioBroadcastThread).   *)
(*                                                                         *)
(* A frame is at most four FEC blocks of equally long shards; a shard is   *)
(* one packet.  The client knows of a block what its packets say: the      *)
(* number of data shards, the percentage, its own index, the sequence      *)
(* number.  Shards are counted here, not their bytes; the sizes are real.  *)
(***************************************************************************)
EXTENDS Integers, FiniteSets

CONSTANTS
  Payloads,     (* sizes of encoded frames                                 *)
  PacketSizes,  (* packetsize, as clients ask for it                       *)
  Percentages,  (* fec_percentage of the configuration                     *)
  MinParities,  (* minRequiredFecPackets, as clients ask for it: a size_t  *)
  MaxFrames,    (* bound: frames, and blocks of audio                      *)
  SeqWrap       (* audio sequence numbers; 2^16 in the code                *)

ASSUME SizesAssumption ==
  /\ Payloads \subseteq Nat \ {0} /\ MaxFrames \in Nat
  /\ PacketSizes \subseteq Int
  /\ Percentages \subseteq 1..255 /\ MinParities \subseteq Nat
ASSUME WrapAssumption == SeqWrap \in Nat /\ SeqWrap > 0 /\ SeqWrap % 4 = 0

VARIABLES
  stream,     (* packet size, percentage, minimum and encryption            *)
  cut,        (* the frame being sent: size on the wire, blocks, percentage *)
  block,      (* the next block of it; blocks = none is being sent          *)
  seq,        (* lowseq of the sender thread                                *)
  lowseq,     (* session->video.lowseq                                      *)
  iv,         (* session->video.gcm_iv_counter                              *)
  sent,       (* what the client is told of the block sent last             *)
  packets,    (* history: data packets of this frame sent so far            *)
  spent,      (* history: the IVs below it have been used                   *)
  reused,     (* history: one was used again                                *)
  frames,     (* frames so far                                              *)
  audioSeq, slots, base, parity  (* sequenceNumber, shards_p, fecHeader, the parity sent last *)

videoVars == <<stream, cut, block, seq, lowseq, iv, sent, packets, spent, reused, frames>>
audioVars == <<audioSeq, slots, base, parity>>
packetVars == <<videoVars, audioVars>>

NoConfig == [packetsize |-> 0]
NoBlock == [data |-> 0]

-----------------------------------------------------------------------------
(* Sizes of the structures in front of a payload: frame header, packet     *)
(* header, the part of it RTP and padding take.                            *)
FrameHeader == 8
PacketHeader == 32
RtpHeader == 16
NvHeader == 16
MaxShards == 255
MaxBlocks == 4

CeilDiv(a, b) == (a + b - 1) \div b
Least(a, b) == IF a < b THEN a ELSE b

(* Variants a slip would give: FEC taken as a share of the whole block,    *)
(* the frame header forgotten, the minimum raised without the percentage,  *)
(* the last block cut like the others, an IV per lowseq.                   *)
MaxDataBug(percentage) == MaxShards - (MaxShards * percentage) \div 1000
LastPayloadLenBug(payload, packetsize) == payload % (packetsize - NvHeader)
FecEncodeBug(length, bs, percentage, minimum) ==
  LET data == CeilDiv(length, bs)
      asked == CeilDiv(data * percentage, 100)
  IN [data |-> data, shards |-> data + (IF asked < minimum THEN minimum ELSE asked),
      percentage |-> percentage]
BlockLengthBug(f, x) == f.aligned
UseIvsBug(n) ==
  IF ~stream.cipher THEN UNCHANGED <<iv, spent, reused>>
  ELSE /\ iv' = lowseq + n
       /\ reused' = (reused \/ iv < spent)
       /\ spent' = IF iv + n > spent THEN iv + n ELSE spent

BlockSize(packetsize) == packetsize + RtpHeader
(* concat_and_insert(): a packet header in front of every slice.           *)
Slices(framed, slice) == CeilDiv(framed, slice)
OnWire(payload, packetsize) ==
  LET framed == payload + FrameHeader
  IN framed + Slices(framed, BlockSize(packetsize) - PacketHeader) * PacketHeader
LastPayloadLen(payload, packetsize) ==
  LET rest == (payload + FrameHeader) % (packetsize - NvHeader)
  IN IF rest = 0 THEN packetsize - NvHeader ELSE rest

(* The number of data shards a block may have, the blocks a frame needs,   *)
(* and how long all but the last of them are.                              *)
MaxData(percentage) == (MaxShards * 100) \div (100 + percentage)
BlocksNeeded(size, percentage, bs) == CeilDiv(size, MaxData(percentage) * bs)
AlignedSize(size, blocks, bs) == CeilDiv(size \div blocks, bs) * bs
BlockLength(f, x) ==
  IF x = f.blocks - 1 THEN f.size - x * f.aligned ELSE f.aligned

(* fec::encode().                                                          *)
FecEncode(length, bs, percentage, minimum) ==
  LET data == CeilDiv(length, bs)
      asked == CeilDiv(data * percentage, 100)
      raised == asked < minimum /\ percentage # 0
  IN [data |-> data,
      shards |-> data + (IF raised THEN minimum ELSE asked),
      percentage |-> IF raised THEN (100 * minimum) \div data ELSE percentage]

(* The bit fields of fecInfo: index << 12, data << 22, percentage << 4.    *)
FecInfoFits(s) == s.shards <= 1024 /\ s.data < 1024 /\ s.percentage < 256
(* "Encoder produced a frame too large to send!"                           *)
TooLarge(f, bs) == f.aligned \div bs >= 1024

(* What the client makes of fecInfo (RtpVideoQueue.c).                     *)
ClientParity(s) == CeilDiv(s.data * s.percentage, 100)

-----------------------------------------------------------------------------
Idle == cut.blocks = block

(* A bound of the instance: the configuration is chosen once.              *)
ChooseStream ==
  /\ stream = NoConfig
  /\ \E p \in PacketSizes, c \in Percentages, m \in MinParities, e \in BOOLEAN :
       stream' = [packetsize |-> p, percentage |-> c, minimum |-> m, cipher |-> e]
  /\ UNCHANGED <<cut, block, seq, lowseq, iv, sent, packets, spent, reused, frames, audioVars>>

(* The head of the loop, up to the split into blocks.  Of packets as small *)
(* as their headers no frame is made: the lengths are taken modulo zero or *)
(* wrap, which ends the stream, if not the host, outside this model.       *)
TakeFrame(payload) ==
  LET bs == BlockSize(stream.packetsize)
      size == OnWire(payload, stream.packetsize)
      needed == BlocksNeeded(size, stream.percentage, bs)
      blocks == Least(needed, MaxBlocks)
  IN
  /\ stream # NoConfig /\ stream.packetsize > NvHeader /\ Idle /\ frames < MaxFrames
  /\ cut' = [payload |-> payload, size |-> size, blocks |-> blocks,
               percentage |-> IF needed > MaxBlocks THEN 0 ELSE stream.percentage,
               aligned |-> AlignedSize(size, blocks, bs),
               last |-> LastPayloadLen(payload, stream.packetsize)]
  /\ block' = 0 /\ seq' = lowseq /\ packets' = 0 /\ sent' = NoBlock
  /\ frames' = frames + 1
  /\ UNCHANGED <<stream, lowseq, iv, spent, reused, audioVars>>

(* One IV for each shard.                                                  *)
UseIvs(n) ==
  IF ~stream.cipher THEN UNCHANGED <<iv, spent, reused>>
  ELSE /\ iv' = iv + n
       /\ reused' = (reused \/ iv < spent)
       /\ spent' = IF iv + n > spent THEN iv + n ELSE spent

SendBlock ==
  LET s == FecEncode(BlockLength(cut, block), BlockSize(stream.packetsize),
                     cut.percentage, stream.minimum)
  IN
  /\ ~Idle
  /\ sent' = [data |-> s.data, shards |-> s.shards, percentage |-> s.percentage,
              index |-> block, blocks |-> cut.blocks, seq |-> seq]
  /\ packets' = packets + s.data
  /\ UseIvs(s.shards)
  /\ block' = block + 1 /\ seq' = seq + s.shards
  /\ lowseq' = IF block + 1 = cut.blocks THEN seq' ELSE lowseq
  /\ UNCHANGED <<stream, cut, frames, audioVars>>

(* An exception, before a block is encoded or with one shard of it sent:   *)
(* the rest of the frame is dropped, and lowseq not stored.                *)
Throw ==
  /\ ~Idle
  /\ \E n \in {0, 1} : UseIvs(n)
  /\ cut' = [cut EXCEPT !.blocks = 0] /\ block' = 0
  /\ packets' = 0 /\ sent' = NoBlock
  /\ UNCHANGED <<stream, seq, lowseq, frames, audioVars>>

(* A packet of audio; after the fourth of a block, its parity.  A failed   *)
(* send is not noticed: the block goes on.                                 *)
SendAudio ==
  LET slot == audioSeq % 4 IN
  /\ stream # NoConfig /\ frames = 0 /\ audioSeq < SeqWrap
  /\ slots' = [slots EXCEPT ![slot] = audioSeq]
  /\ audioSeq' = (audioSeq + 1) % SeqWrap
  /\ base' = IF slot = 0 THEN audioSeq ELSE base
  /\ parity' = IF (audioSeq + 1) % 4 = 0
               THEN [base |-> base', shards |-> {slots'[k] : k \in 0..3}]
               ELSE parity
  /\ UNCHANGED videoVars

PacketInit ==
  /\ stream = NoConfig /\ cut = [blocks |-> 0] /\ block = 0
  /\ seq = 0 /\ lowseq = 0 /\ iv = 0 /\ sent = NoBlock
  /\ packets = 0 /\ spent = 0 /\ reused = FALSE /\ frames = 0
  /\ audioSeq = 0 /\ slots = [k \in 0..3 |-> 0] /\ base = 0
  /\ parity = [base |-> 0, shards |-> 0..3]

PacketNext ==
  \/ ChooseStream
  \/ \E p \in Payloads : TakeFrame(p)
  \/ SendBlock
  \/ Throw
  \/ SendAudio

PacketSpec == PacketInit /\ [][PacketNext]_packetVars
-----------------------------------------------------------------------------
(* The domains of the variables.                                           *)
PacketTypeOK ==
  /\ stream = NoConfig \/ stream \in
       [packetsize : PacketSizes, percentage : Percentages, minimum : MinParities, cipher : BOOLEAN]
  /\ cut.blocks \in 0..MaxBlocks /\ block \in 0..cut.blocks
  /\ {seq, lowseq, iv, packets, spent} \subseteq Nat
  /\ reused \in BOOLEAN /\ frames \in 0..MaxFrames
  /\ audioSeq \in 0..SeqWrap - 1 /\ base \in 0..SeqWrap - 1
  /\ slots \in [0..3 -> 0..SeqWrap - 1]

(* The client can decode every block from what its packets say: there is   *)
(* data in it, and as many packets as the numbers go on; if it asks for no *)
(* more than two parity packets, as Moonlight does, the number of parity   *)
(* shards it computes is the one sent, no block has more shards than the   *)
(* code allows, and the fields hold their values unless the frame was      *)
(* reported as too large.                                                  *)
BlockIsDecodable ==
  sent # NoBlock =>
    /\ sent.data >= 1 /\ sent.seq + sent.shards = seq
    /\ stream.minimum <= 2 =>
         /\ sent.shards - sent.data = ClientParity(sent)
         /\ sent.percentage # 0 => sent.shards <= MaxShards
         /\ TooLarge(cut, BlockSize(stream.packetsize)) \/ FecInfoFits(sent)

(* The blocks of a frame are the whole frame, and lastPayloadLen is what   *)
(* its last packet carries.                                                *)
FrameIsWhole ==
  sent # NoBlock /\ Idle =>
    LET bs == BlockSize(stream.packetsize) IN
    /\ packets = CeilDiv(cut.size, bs)
    /\ cut.last = cut.size - (packets - 1) * bs - PacketHeader
    /\ lowseq = seq

(* No IV encrypts two packets, also when a frame was dropped half-way and  *)
(* its sequence numbers are used again.                                    *)
IvsAreFresh == ~reused

(* Parity of audio is announced for the four packets it was computed from. *)
ParityOfItsBlock == parity.shards = {parity.base + k : k \in 0..3}

(* What the client needs to put frames and samples together again.         *)
FramesArrive == BlockIsDecodable /\ FrameIsWhole /\ IvsAreFresh /\ ParityOfItsBlock
===============================================================================
