--------------------------------- MODULE Crc16 ---------------------------------
(***************************************************************************)
(* CustomProtocol::crc16 and check_crc: the table-driven CRC of the ADC    *)
(* board's frames.  A frame is sent with its CRC and received, perhaps     *)
(* damaged on the line; sender and receiver run the same algorithm, a byte *)
(* a step.                                                                 *)
(*                                                                         *)
(* A byte or word is the set of its bits that are one, so that exclusive   *)
(* or is the symmetric difference.                                         *)
(***************************************************************************)
EXTENDS Integers, Sequences

Octets == SUBSET (0..7)
Words == SUBSET (0..15)

CONSTANTS
  Bytes,    \* the bytes sent
  Errors,   \* what the line may change in a byte, as a mask; {} for nothing
  Burst,    \* over how many bits in a row the line is disturbed
  MaxLen    \* bound of the model: the length of a frame without its CRC

ASSUME CrcAssumption ==
  /\ Bytes \subseteq Octets /\ Errors \subseteq Octets
  /\ Burst \in Nat /\ MaxLen \in Nat

VARIABLES
  tx, rx,   \* crcH and crcL over the frame as sent, and as received
  len,      \* bytes so far
  hit,      \* the first damaged bit, from 1; 0 for none
  ref       \* history: the reference CRC of the frame as received

crcVars == <<tx, rx, len, hit, ref>>

Xor(x, y) == (x \ y) \cup (y \ x)

kCrcTableH == <<
    0, 193, 129, 64, 1, 192, 128, 65, 1, 192, 128, 65, 0, 193, 129, 64, 1, 192,
    128, 65, 0, 193, 129, 64, 0, 193, 129, 64, 1, 192, 128, 65, 1, 192, 128,
    65, 0, 193, 129, 64, 0, 193, 129, 64, 1, 192, 128, 65, 0, 193, 129, 64, 1,
    192, 128, 65, 1, 192, 128, 65, 0, 193, 129, 64, 1, 192, 128, 65, 0, 193,
    129, 64, 0, 193, 129, 64, 1, 192, 128, 65, 0, 193, 129, 64, 1, 192, 128,
    65, 1, 192, 128, 65, 0, 193, 129, 64, 0, 193, 129, 64, 1, 192, 128, 65, 1,
    192, 128, 65, 0, 193, 129, 64, 1, 192, 128, 65, 0, 193, 129, 64, 0, 193,
    129, 64, 1, 192, 128, 65, 1, 192, 128, 65, 0, 193, 129, 64, 0, 193, 129,
    64, 1, 192, 128, 65, 0, 193, 129, 64, 1, 192, 128, 65, 1, 192, 128, 65, 0,
    193, 129, 64, 0, 193, 129, 64, 1, 192, 128, 65, 1, 192, 128, 65, 0, 193,
    129, 64, 1, 192, 128, 65, 0, 193, 129, 64, 0, 193, 129, 64, 1, 192, 128,
    65, 0, 193, 129, 64, 1, 192, 128, 65, 1, 192, 128, 65, 0, 193, 129, 64, 1,
    192, 128, 65, 0, 193, 129, 64, 0, 193, 129, 64, 1, 192, 128, 65, 1, 192,
    128, 65, 0, 193, 129, 64, 0, 193, 129, 64, 1, 192, 128, 65, 0, 193, 129,
    64, 1, 192, 128, 65, 1, 192, 128, 65, 0, 193, 129, 64>>

kCrcTableL == <<
    0, 192, 193, 1, 195, 3, 2, 194, 198, 6, 7, 199, 5, 197, 196, 4, 204, 12,
    13, 205, 15, 207, 206, 14, 10, 202, 203, 11, 201, 9, 8, 200, 216, 24, 25,
    217, 27, 219, 218, 26, 30, 222, 223, 31, 221, 29, 28, 220, 20, 212, 213,
    21, 215, 23, 22, 214, 210, 18, 19, 211, 17, 209, 208, 16, 240, 48, 49, 241,
    51, 243, 242, 50, 54, 246, 247, 55, 245, 53, 52, 244, 60, 252, 253, 61,
    255, 63, 62, 254, 250, 58, 59, 251, 57, 249, 248, 56, 40, 232, 233, 41,
    235, 43, 42, 234, 238, 46, 47, 239, 45, 237, 236, 44, 228, 36, 37, 229, 39,
    231, 230, 38, 34, 226, 227, 35, 225, 33, 32, 224, 160, 96, 97, 161, 99,
    163, 162, 98, 102, 166, 167, 103, 165, 101, 100, 164, 108, 172, 173, 109,
    175, 111, 110, 174, 170, 106, 107, 171, 105, 169, 168, 104, 120, 184, 185,
    121, 187, 123, 122, 186, 190, 126, 127, 191, 125, 189, 188, 124, 180, 116,
    117, 181, 119, 183, 182, 118, 114, 178, 179, 115, 177, 113, 112, 176, 80,
    144, 145, 81, 147, 83, 82, 146, 150, 86, 87, 151, 85, 149, 148, 84, 156,
    92, 93, 157, 95, 159, 158, 94, 90, 154, 155, 91, 153, 89, 88, 152, 136, 72,
    73, 137, 75, 139, 138, 74, 78, 142, 143, 79, 141, 77, 76, 140, 68, 132,
    133, 69, 135, 71, 70, 134, 130, 66, 67, 131, 65, 129, 128, 64>>

(* The bits of the number n, and the number that the bits b make.          *)
Bits(n) == {k \in 0..7 : (n \div 2 ^ k) % 2 = 1}

One(b, k) == IF k \in b THEN 2 ^ k ELSE 0

Number(b) ==
  One(b, 0) + One(b, 1) + One(b, 2) + One(b, 3) +
  One(b, 4) + One(b, 5) + One(b, 6) + One(b, 7)

TableH == [b \in Octets |-> Bits(kCrcTableH[Number(b) + 1])]
TableL == [b \in Octets |-> Bits(kCrcTableL[Number(b) + 1])]

Start == [H |-> 0..7, L |-> 0..7]

(* Mutant: crcL from the table of crcH.                                     *)
StepOneTable(crc, b) ==
  LET idx == Xor(crc.H, b) IN [H |-> Xor(crc.L, TableH[idx]), L |-> TableH[idx]]

(* One round of the loop of crc16.                                         *)
Step(crc, b) ==
  LET idx == Xor(crc.H, b) IN [H |-> Xor(crc.L, TableH[idx]), L |-> TableL[idx]]

(* The reference: shift a bit out, fold x^16 + x^15 + x^2 + 1 (reflected)  *)
(* in for every one, as the Modbus CRC is defined.                         *)
Halved(r) == {k \in 0..15 : k + 1 \in r}

Shift(r) == IF 0 \in r THEN Xor(Halved(r), {0, 13, 15}) ELSE Halved(r)

Shift8(r) ==
  Shift(Shift(Shift(Shift(Shift(Shift(Shift(Shift(r))))))))

CrcInit == tx = Start /\ rx = Start /\ len = 0 /\ hit = 0 /\ ref = 0..15

Lowest(e) == CHOOSE k \in e : \A i \in e : k <= i

(* A byte more, its lowest bit first.  Damage stays within Burst bits of   *)
(* the first one hit.                                                      *)
Transfer ==
  /\ len < MaxLen
  /\ len' = len + 1
  /\ \E b \in Bytes, e \in Errors :
       /\ hit' = IF hit = 0 /\ e # {} THEN 8 * len + Lowest(e) + 1 ELSE hit
       /\ \A k \in e : 8 * len + k + 1 < hit' + Burst
       /\ tx' = Step(tx, b)
       /\ rx' = Step(rx, Xor(b, e))
       /\ ref' = Shift8(Xor(ref, Xor(b, e)))

CrcNext == Transfer

CrcSpec == CrcInit /\ [][CrcNext]_crcVars
-----------------------------------------------------------------------------
(* crc16 and, for a frame whose trailer came through, check_crc.           *)

Word(high, low) == low \cup {k \in 8..15 : k - 8 \in high}

Value(crc) == Word(crc.H, crc.L)

(* Mutant: one byte of the two compared.                                   *)
CheckLow == rx.L = tx.L

CheckCrc == Value(rx) = Value(tx)
-----------------------------------------------------------------------------
(* Properties                                                              *)

(* "identical to firmware's crc16.c" (CustomProtocol.cpp:11): the two      *)
(* tables of 256 compute the CRC-16 of Modbus bit by bit; its low byte is  *)
(* the first of the trailer.                                               *)
TablesMatchPolynomial == ref = Word(rx.L, rx.H)

(* A frame damaged in one place - any of up to 16 bits in a row, as the    *)
(* line carries them, over two bytes or three - is never taken for a sound *)
(* one, wherever in the bytes that the CRC covers it is; an undamaged one  *)
(* always is.  Length field and trailer come through unharmed here.        *)
DamageDetected == CheckCrc <=> hit = 0
=============================================================================
