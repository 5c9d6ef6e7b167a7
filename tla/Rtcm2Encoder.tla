---------------------------- MODULE Rtcm2Encoder ----------------------------
(***************************************************************************)
(* Rtcm2Encoder (rtcm2.py, with parity.py and bits.py): a message becomes  *)
(* 24-bit data words, a word gets six parity bits that depend on the last  *)
(* two bits of the word before, and its 30 bits travel in five bytes.      *)
(* Bits are 0 or 1, most significant first; a byte is eight of them.       *)
(*                                                                         *)
(* Pseudorange corrections are in millimetres and rates in tenths of a     *)
(* millimetre per second, so both have a fine LSB of 20 and a coarse one   *)
(* of 320; a coordinate is a number of centimetres and a rest of tenths of *)
(* a millimetre.  (Where the quotient of two floats falls next to a tie    *)
(* the code may round it the other way; no property here tells.)           *)
(*                                                                         *)
(* The other end is the receiver of tests/test_rtcm2.py, reduced to one in *)
(* step with the words: it checks each word's parity by a second table,    *)
(* gives up a message with a word that fails, and starts afresh with the   *)
(* next.  It may join between any two messages, and the line between may   *)
(* invert bits.                                                            *)
(***************************************************************************)
EXTENDS Integers, Sequences, FiniteSets

CONSTANTS Messages,     \* what the converter asks to encode
          Noise,        \* bits of a word the line may invert, {} among them
          MaxHits,      \* bound on the words it inverts bits of
          NoMessage

Correction == [prn : Int, prc : Int, rrc : Int, iod : Int, udre : Int]
Type1Message == [type : {1}, station_id : Int, zcount : Int, seq : Int, health : Int,
                 corrections : Seq(Correction)]
Type3Message == [type : {3}, station_id : Int, zcount : Int, seq : Int, health : Int,
                 ecef : [1 .. 3 -> [cm : Int, rest : 0 .. 99]]]

ASSUME EncAssumption ==
  /\ Messages \subseteq Type1Message \cup Type3Message /\ NoMessage \notin Messages
  /\ Noise \subseteq SUBSET (1 .. 30) /\ {} \in Noise /\ MaxHits \in Nat \ {0}

PRC_MAX == 32767
RRC_MAX == 127
LSB == <<20, 320>>      \* PRC_SCALE, RRC_SCALE in our units, by scale + 1

VARIABLES d29, d30,     \* the encoder's _d29, _d30
          wire,         \* words published and not received yet, five bytes each
          sent,         \* the message they are of
          r29, r30,     \* last two bits of the last word received
          words,        \* data words of the message the receiver holds
          lost,         \* a word of it failed
          decoded,      \* the messages it made of those sent, none or one
          clean,        \* ghost: no bit of it, or of the seed before it, inverted
          hits          \* words hit; a join with the wrong seed counts as one

encVars == <<d29, d30, wire, sent, r29, r30, words, lost, decoded, clean, hits>>

-----------------------------------------------------------------------------
Magnitude(x) == IF x < 0 THEN -x ELSE x

\* round(x / lsb): to the nearest, a tie to the even neighbour.
Rounded(x, lsb) ==
  LET q == (2 * x + lsb) \div (2 * lsb) IN
  IF (2 * x + lsb) % (2 * lsb) = 0 /\ q % 2 = 1 THEN q - 1 ELSE q

Clamped(x, max) == IF x > max THEN max ELSE IF x < -max THEN -max ELSE x

Counts(scale, prc, rrc) ==
  [scale |-> scale, prc |-> Rounded(prc, LSB[scale + 1]), rrc |-> Rounded(rrc, LSB[scale + 1])]
CoarseCounts(prc, rrc) ==
  [scale |-> 1, prc |-> Clamped(Rounded(prc, LSB[2]), PRC_MAX), rrc |-> Clamped(Rounded(rrc, LSB[2]), RRC_MAX)]

\* Mutants: the rate is not looked at; the sentinel is a value like others.
encode_prc_rrc_by_prc(prc, rrc) ==
  IF Magnitude(Counts(0, prc, rrc).prc) <= PRC_MAX THEN Counts(0, prc, rrc) ELSE CoarseCounts(prc, rrc)
encode_prc_rrc_whole_field(prc, rrc) ==
  LET c == Counts(0, prc, rrc)
  IN  IF c.prc \in -32768 .. 32767 /\ c.rrc \in -128 .. 127 THEN c ELSE CoarseCounts(prc, rrc)

\* The fine scale if both counts fit, else the coarse one, clamped (which
\* leaves counts that fit as they are).
encode_prc_rrc(prc, rrc) ==
  LET c == Counts(0, prc, rrc)
  IN  IF Magnitude(c.prc) <= PRC_MAX /\ Magnitude(c.rrc) <= RRC_MAX THEN c ELSE CoarseCounts(prc, rrc)

\* write_unsigned and write_signed: n bits, two's complement.
Bits(v, n) == [i \in 1 .. n |-> (v \div 2^(n - i)) % 2]

PREAMBLE == <<0, 1, 1, 0, 0, 1, 1, 0>>

Header(type, m, n_words) ==
  PREAMBLE \o Bits(type, 6) \o Bits(m.station_id, 10) \o Bits(m.zcount, 13)
  \o Bits(m.seq, 3) \o Bits(n_words, 5) \o Bits(m.health, 3)

Record(c) ==
  LET e == encode_prc_rrc(c.prc, c.rrc) IN
  Bits(e.scale, 1) \o Bits(c.udre, 2) \o Bits(c.prn % 32, 5)
  \o Bits(e.prc, 16) \o Bits(e.rrc, 8) \o Bits(c.iod, 8)

\* The blocks of bits, width each, as one sequence.
Joined(blocks, width) ==
  [i \in 1 .. width * Len(blocks) |-> blocks[(i - 1) \div width + 1][((i - 1) % width) + 1]]

NWords(n) == (40 * n + 23) \div 24

\* The first n words of 24 bits, zeros behind the last bit.
DataWords(bits, n) ==
  [k \in 1 .. n |-> [i \in 1 .. 24 |-> IF 24 * (k - 1) + i <= Len(bits) THEN bits[24 * (k - 1) + i] ELSE 0]]

pack_type1_body(m) ==
  LET n == NWords(Len(m.corrections)) IN
  DataWords(Header(1, m, n) \o Joined([i \in DOMAIN m.corrections |-> Record(m.corrections[i])], 40), 2 + n)

\* One coordinate, [cm, rest] with the rest in 0 .. 99 tenths of a millimetre.
Coordinate(c) == IF c.rest > 50 \/ (c.rest = 50 /\ c.cm % 2 = 1) THEN c.cm + 1 ELSE c.cm

\* Its 32 bits, as two halves for the sake of TLC's integers.
CoordinateBits(c) == Bits(Coordinate(c) \div 65536, 16) \o Bits(Coordinate(c) % 65536, 16)

pack_type3_body(m) ==
  DataWords(Header(3, m, 4) \o Joined([i \in 1 .. 3 |-> CoordinateBits(m.ecef[i])], 32), 6)

Body(m) == IF m.type = 1 THEN pack_type1_body(m) ELSE pack_type3_body(m)

Fits(v, n) == v \in 0 .. 2^n - 1
Fits32(v) == v >= -2147483647 - 1 /\ v <= 2147483647

\* What neither of them raises ValueError for.
Packable(m) ==
  /\ Fits(m.station_id, 10) /\ Fits(m.zcount, 13) /\ Fits(m.seq, 3) /\ Fits(m.health, 3)
  /\ m.type = 1 => /\ Fits(NWords(Len(m.corrections)), 5)
                   /\ \A i \in DOMAIN m.corrections : LET c == m.corrections[i] IN
                        c.prn \in 1 .. 32 /\ c.udre \in 0 .. 3 /\ c.iod \in 0 .. 255
  /\ m.type = 3 => \A i \in 1 .. 3 : Fits32(Coordinate(m.ecef[i]))

PARITY_MASKS ==
  << {1, 2, 3, 5, 6, 10, 11, 12, 13, 14, 17, 18, 20, 23},
     {2, 3, 4, 6, 7, 11, 12, 13, 14, 15, 18, 19, 21, 24},
     {1, 3, 4, 5, 7, 8, 12, 13, 14, 15, 16, 19, 20, 22},
     {2, 4, 5, 6, 8, 9, 13, 14, 15, 16, 17, 20, 21, 23},
     {1, 3, 5, 6, 7, 9, 10, 14, 15, 16, 17, 18, 21, 22, 24},
     {3, 5, 6, 8, 9, 10, 11, 13, 15, 19, 22, 23, 24} >>
SEED_IS_D29 == {1, 3, 6}

Ones(bits, at) == Cardinality({i \in at : bits[i] = 1})

\* Whether check j of the receiver fails for a word with noise on it, behind
\* two bits that differ in D29 (e29 = 1) or D30 from those it was encoded behind.
Flaw(j, noise, e29, e30) ==
  ((IF j \in SEED_IS_D29 THEN e29 ELSE e30) + e30 * Cardinality(PARITY_MASKS[j])
   + Cardinality(noise \cap (PARITY_MASKS[j] \cup {24 + j}))) % 2

\* Six parity bits do not find every error: that of a word with noise on it is
\* found, behind any two bits where noise may have been on the word before.
ASSUME NoiseAssumption ==
  \A noise \in Noise \ {{}} : \A e29, e30 \in {0, 1} :
    e29 + e30 = 0 \/ MaxHits > 1 => \E j \in 1 .. 6 : Flaw(j, noise, e29, e30) = 1

\* Mutant: added up, not added modulo two.
parity_bits_sum(data, s29, s30) ==
  [j \in 1 .. 6 |-> (IF j \in SEED_IS_D29 THEN s29 ELSE s30) + Ones(data, PARITY_MASKS[j])]

parity_bits(data, s29, s30) ==
  [j \in 1 .. 6 |-> ((IF j \in SEED_IS_D29 THEN s29 ELSE s30) + Ones(data, PARITY_MASKS[j])) % 2]

\* The 24 bits as transmitted, inverted after a D30 of 1, and their parity.
encode_word(data, s29, s30) ==
  [i \in 1 .. 24 |-> (data[i] + s30) % 2] \o parity_bits(data, s29, s30)

\* Six bits a byte, the first in the lowest place, below the bits 01.
word30_to_bytes(w) == [g \in 1 .. 5 |-> [i \in 1 .. 8 |-> IF i <= 2 THEN i - 1 ELSE w[6 * g + 3 - i]]]

\* The seed in front of each of the words and behind the last: the last two
\* bits of the word before it.
Seeds(data, s29, s30) ==
  LET seed[k \in 0 .. Len(data)] ==
        IF k = 0 THEN <<s29, s30>>
        ELSE LET s == seed[k - 1]
                 w == encode_word(data[k], s[1], s[2])
             IN  <<w[29], w[30]>>
  IN  seed

Encoded(data, seed) ==
  [bytes |-> [k \in 1 .. Len(data) |-> word30_to_bytes(encode_word(data[k], seed[k - 1][1], seed[k - 1][2]))],
   d29 |-> seed[Len(data)][1], d30 |-> seed[Len(data)][2]]

\* Mutant: every message starts from the seed 0, 0.
encode_words_fresh(data) == Encoded(data, Seeds(data, 0, 0))

\* The wire bytes, and the seed the last word leaves behind.
encode_words(data) == Encoded(data, Seeds(data, d29, d30))

-----------------------------------------------------------------------------
\* The receiver's parity table, one row of 32 bits for each parity bit, as
\* halves of 16: the last two bits of the word before, 24 data bits, the rest 0.
HAMMING == << <<47903, 13440>>, <<23951, 39488>>, <<44743, 52480>>,
              <<22371, 59008>>, <<27569, 62272>>, <<35706, 35264>> >>
Covered(j) == {i \in 1 .. 32 : (Bits(HAMMING[j][1], 16) \o Bits(HAMMING[j][2], 16))[i] = 1}

\* The word behind two bits of the one before, with its inversion undone.
Restored(register) ==
  [i \in 1 .. 32 |-> IF i \in 3 .. 26 /\ register[2] = 1 THEN 1 - register[i] ELSE register[i]]

ParityHolds(w) == \A j \in 1 .. 6 : Ones(w, Covered(j)) % 2 = w[26 + j]

\* What a run of bits is worth, as an unsigned and as a signed field.
Unsigned(bits) ==
  LET worth[k \in 0 .. Len(bits)] == IF k = 0 THEN 0 ELSE 2 * worth[k - 1] + bits[k]
  IN  worth[Len(bits)]
Signed(bits) ==
  LET magnitude == [i \in 1 .. Len(bits) - 1 |-> (bits[i + 1] + bits[1]) % 2]
  IN  IF bits[1] = 0 THEN Unsigned(magnitude) ELSE -1 - Unsigned(magnitude)

Decode(data) ==
  LET bits == Joined(data, 24)
      field(at, n) == [i \in 1 .. n |-> bits[at + i]]
      header == [type |-> Unsigned(field(8, 6)), station_id |-> Unsigned(field(14, 10)),
                 zcount |-> Unsigned(field(24, 13)), seq |-> Unsigned(field(37, 3)),
                 health |-> Unsigned(field(45, 3))]
      record(at) ==
        [scale |-> bits[at + 1], udre |-> Unsigned(field(at + 1, 2)), prn |-> Unsigned(field(at + 3, 5)),
         prc |-> Signed(field(at + 8, 16)), rrc |-> Signed(field(at + 24, 8)), iod |-> Unsigned(field(at + 32, 8))]
  IN  [header |-> header,
       records |-> IF header.type = 3 THEN <<>>
                   ELSE [k \in 1 .. (Len(bits) - 48) \div 40 |-> record(48 + 40 * (k - 1))],
       ecef |-> IF header.type = 3 THEN [i \in 1 .. 3 |-> Signed(field(48 + 32 * (i - 1), 32))] ELSE <<>>]

\* The words of a message whose second word, with the N field, is there.
Expected(data) == 2 + Unsigned([i \in 1 .. 5 |-> data[2][16 + i]])

-----------------------------------------------------------------------------
EncInit ==
  /\ d29 = 0 /\ d30 = 0
  /\ wire = <<>> /\ sent = NoMessage
  /\ r29 \in {0, 1} /\ r30 \in {0, 1}
  /\ words = <<>> /\ lost = TRUE /\ decoded = {}
  /\ clean = FALSE /\ hits = IF r29 = d29 /\ r30 = d30 THEN 0 ELSE 1

\* encode_type1 or encode_type3.
encode(m) ==
  /\ wire = <<>>
  /\ Packable(m)
  /\ LET e == encode_words(Body(m)) IN wire' = e.bytes /\ d29' = e.d29 /\ d30' = e.d30
  /\ sent' = m
  /\ words' = <<>> /\ lost' = FALSE /\ decoded' = {}
  /\ clean' = (r29 = d29 /\ r30 = d30)
  /\ UNCHANGED <<r29, r30, hits>>

\* One word reaches the receiver, the bits of noise inverted.
receive(noise) ==
  /\ wire # <<>>
  /\ noise # {} => hits < MaxHits
  /\ hits' = IF noise = {} THEN hits ELSE hits + 1
  /\ clean' = (clean /\ noise = {})
  /\ LET bits == [i \in 1 .. 30 |-> wire[1][(i - 1) \div 6 + 1][8 - ((i - 1) % 6)]]
         word == [i \in 1 .. 30 |-> IF i \in noise THEN 1 - bits[i] ELSE bits[i]]
         w    == Restored(<<r29, r30>> \o word)
         held == Append(words, [i \in 1 .. 24 |-> w[i + 2]])
     IN  /\ r29' = word[29] /\ r30' = word[30]
         /\ lost' = (lost \/ ~ParityHolds(w) \/ (words = <<>> /\ \E i \in 1 .. 8 : w[i + 2] # PREAMBLE[i]))
         /\ IF lost' THEN UNCHANGED <<words, decoded>>
            ELSE /\ words' = held
                 /\ decoded' = IF Len(held) >= 2 /\ Len(held) = Expected(held) THEN {Decode(held)} ELSE decoded
  /\ wire' = Tail(wire)
  /\ UNCHANGED <<d29, d30, sent>>

EncNext == (\E m \in Messages : encode(m)) \/ (\E noise \in Noise : receive(noise))

EncSpec == EncInit /\ [][EncNext]_encVars

-----------------------------------------------------------------------------
Bit == {0, 1}

EncTypeOK ==
  /\ d29 \in Bit /\ d30 \in Bit /\ r29 \in Bit /\ r30 \in Bit
  /\ wire \in Seq([1 .. 5 -> [1 .. 8 -> Bit]])
  /\ sent \in Messages \cup {NoMessage}
  /\ words \in Seq([1 .. 24 -> Bit]) /\ Len(words) <= 33
  /\ lost \in BOOLEAN /\ clean \in BOOLEAN
  /\ hits \in 0 .. MaxHits

Error(v, scale, x) == Magnitude(v * LSB[scale + 1] - x)

\* What a field v stands for outside the fine range: x to half the coarse LSB
\* while x is in the coarse range, and beyond it the largest value of x's sign.
CoarseFor(v, scale, x, max) ==
  IF Magnitude(x) <= max * LSB[2] THEN Error(v, scale, x) <= LSB[2] \div 2
  ELSE scale = 1 /\ v = IF x > 0 THEN max ELSE -max

\* A record that stands for a correction: to half the fine LSB while both of its
\* values are in the fine range.
RecordOf(c, r) ==
  /\ (IF r.prn = 0 THEN 32 ELSE r.prn) = c.prn
  /\ r.udre = c.udre /\ r.iod = c.iod
  /\ IF Magnitude(c.prc) <= PRC_MAX * LSB[1] /\ Magnitude(c.rrc) <= RRC_MAX * LSB[1]
     THEN Error(r.prc, r.scale, c.prc) <= LSB[1] \div 2 /\ Error(r.rrc, r.scale, c.rrc) <= LSB[1] \div 2
     ELSE CoarseFor(r.prc, r.scale, c.prc, PRC_MAX) /\ CoarseFor(r.rrc, r.scale, c.rrc, RRC_MAX)

\* What a receiver takes for a message is the one that was encoded: header,
\* satellites, issues of data, corrections and rates to half an LSB, the base
\* to half a centimetre.  That holds behind any seed, for a receiver that
\* joined with another one, and although the line inverts a few bits of a word:
\* each message it does not get right it drops.
NothingWrongDecoded ==
  \A d \in decoded :
    /\ \A f \in DOMAIN d.header : d.header[f] = sent[f]
    /\ sent.type = 1 =>
         /\ Len(d.records) = Len(sent.corrections)
         /\ \A i \in DOMAIN sent.corrections : RecordOf(sent.corrections[i], d.records[i])
    /\ sent.type = 3 =>
         \A i \in 1 .. 3 : Magnitude(100 * (d.ecef[i] - sent.ecef[i].cm) - sent.ecef[i].rest) <= 50

\* rtcm2.py: "D29*/D30* seed chaining across every word and every message": a
\* message is decoded whenever the seed and all its words arrived undisturbed,
\* Type 3 and Type 1 in any order, whatever happened before.
CleanMessagesDecoded == wire = <<>> /\ clean => decoded # {}

\* docs/conversion.md: the most negative value of each field is reserved, "so
\* the encoder never emits it".
NoSentinelSent ==
  \A d \in decoded : \A i \in DOMAIN d.records : d.records[i].prc # -32768 /\ d.records[i].rrc # -128
=============================================================================
