-------------------------------- MODULE Des --------------------------------
(***************************************************************************)
(* The block cipher of src/platform/src/safety/des.c with the conversions  *)
(* of src/platform/src/util/bit.c: the tables as they stand in the code,   *)
(* the key schedule, and the two calls that run sixteen rounds over a      *)
(* static block.  A block is a function from 1..64 to bits, its left half  *)
(* the first 32.                                                           *)
(*                                                                         *)
(* Every round is a step, so that what the calls keep from one round to    *)
(* the next can be stated; the buffers are static and the functions not    *)
(* reentrant, so one caller runs at a time.                                *)
(***************************************************************************)
EXTENDS Integers

CONSTANTS Texts,       \* messages of eight bytes
          SecretKeys,  \* keys of eight bytes
          None         \* no key set, no message decrypted

ASSUME DesAssumption ==
    /\ Texts \subseteq [1 .. 8 -> 0 .. 255]
    /\ SecretKeys \subseteq [1 .. 8 -> 0 .. 255]
    /\ None \notin Texts \cup SecretKeys

IP_Table == <<
    58,50,42,34,26,18,10,2,60,52,44,36,28,20,12,4,62,54,46,38,30,22,14,6,64,56,48,40,32,24,16,8,
    57,49,41,33,25,17,9,1,59,51,43,35,27,19,11,3,61,53,45,37,29,21,13,5,63,55,47,39,31,23,15,7>>

IPR_Table == <<
    40,8,48,16,56,24,64,32,39,7,47,15,55,23,63,31,38,6,46,14,54,22,62,30,37,5,45,13,53,21,61,29,
    36,4,44,12,52,20,60,28,35,3,43,11,51,19,59,27,34,2,42,10,50,18,58,26,33,1,41,9,49,17,57,25>>

E_Table == <<
    32,1,2,3,4,5,4,5,6,7,8,9,8,9,10,11,12,13,12,13,14,15,16,17,16,17,18,19,20,21,20,21,22,23,24,25,24,25,26,27,28,29,28,29,30,31,32,1>>

PC1_Table == <<
    57,49,41,33,25,17,9,1,58,50,42,34,26,18,10,2,59,51,43,35,27,19,11,3,60,52,44,36,
    63,55,47,39,31,23,15,7,62,54,46,38,30,22,14,6,61,53,45,37,29,21,13,5,28,20,12,4>>

PC2_Table == <<
    14,17,11,24,1,5,3,28,15,6,21,10,23,19,12,4,26,8,16,7,27,20,13,2,41,52,31,37,47,55,30,40,51,34,33,48,44,49,39,56,34,53,46,42,50,36,29,32>>

Move_Table == <<1,1,2,2,2,2,2,2,1,2,2,2,2,2,2,1>>

\* Per box, the four rows one after the other.
S_Box == <<
    <<14,4,13,1,2,15,11,8,3,10,6,12,5,9,0,7,0,15,7,4,14,2,13,1,10,6,12,11,9,5,3,8,
      4,1,14,8,13,6,2,11,15,12,9,7,3,10,5,0,15,12,8,2,4,9,1,7,5,11,3,14,10,0,6,13>>,
    <<15,1,8,14,6,11,3,4,9,7,2,13,12,0,5,10,3,13,4,7,15,2,8,14,12,0,1,10,6,9,11,5,
      0,14,7,11,10,4,13,1,5,8,12,6,9,3,2,15,13,8,10,1,3,15,4,2,11,6,7,12,0,5,14,9>>,
    <<10,0,9,14,6,3,15,5,1,13,12,7,11,4,2,8,13,7,0,9,3,4,6,10,2,8,5,14,12,11,15,1,
      13,6,4,9,8,15,3,0,11,1,2,12,5,10,14,7,1,10,13,0,6,9,8,7,4,15,14,3,11,5,2,12>>,
    <<7,13,14,3,0,6,9,10,1,2,8,5,11,12,4,15,13,8,11,5,6,15,0,3,4,7,2,12,1,10,14,9,
      10,6,9,0,12,11,7,13,15,1,3,14,5,2,8,4,3,15,0,6,10,1,13,8,9,4,5,11,12,7,2,14>>,
    <<2,12,4,1,7,10,11,6,8,5,3,15,13,0,14,9,14,11,2,12,4,7,13,1,5,0,15,10,3,9,8,6,
      4,2,1,11,10,13,7,8,15,9,12,5,6,3,0,14,11,8,12,7,1,14,2,13,6,15,0,9,10,4,5,3>>,
    <<12,1,10,15,9,2,6,8,0,13,3,4,14,7,5,11,10,15,4,2,7,12,0,5,6,1,13,14,0,11,3,8,
      9,14,15,5,2,8,12,3,7,0,4,10,1,13,11,6,4,3,2,12,9,5,15,10,11,14,1,7,6,0,8,13>>,
    <<4,11,2,14,15,0,8,13,3,12,9,7,5,10,6,1,13,0,11,7,4,0,1,10,14,3,5,12,2,15,8,6,
      1,4,11,13,12,3,7,14,10,15,6,8,0,5,9,2,6,11,13,8,1,4,10,7,9,5,0,15,14,2,3,12>>,
    <<13,2,8,4,6,15,11,1,10,9,3,14,5,0,12,7,1,15,13,8,10,3,7,4,12,5,6,11,0,14,9,2,
      7,11,4,1,9,12,14,2,0,6,10,13,15,3,5,8,2,1,14,7,4,10,8,13,15,12,9,0,3,5,6,11>>>>

P_Table == <<
    16,7,20,21,29,12,28,17,1,15,23,26,5,18,31,10,2,8,24,14,32,27,3,9,19,13,30,6,22,11,4,25>>

\* What bit i of a byte is worth.
Weight == <<1,2,4,8,16,32,64,128>>
-----------------------------------------------------------------------------
Bits(n) == [1 .. n -> {0, 1}]

ByteToBit(bytes) ==
    [j \in 1 .. 64 |-> (bytes[(j - 1) \div 8 + 1] \div Weight[((j - 1) % 8) + 1]) % 2]

BitToByte(bits) ==
    [i \in 1 .. 8 |->
        bits[8*i-7] + 2 * bits[8*i-6] + 4 * bits[8*i-5] + 8 * bits[8*i-4]
        + 16 * bits[8*i-3] + 32 * bits[8*i-2] + 64 * bits[8*i-1] + 128 * bits[8*i]]

\* The characters '0' to '9' and 'A' to 'F', the lowest bit of a digit first.
Digit(v) == IF v > 9 THEN v + 55 ELSE v + 48
Undigit(c) == IF c <= 57 THEN c - 48 ELSE c - 55

BitToHex(bits) ==
    [i \in 1 .. 16 |->
        Digit(bits[4*i-3] + 2 * bits[4*i-2] + 4 * bits[4*i-1] + 8 * bits[4*i])]

HexToBit(hex) ==
    [j \in 1 .. 64 |-> (Undigit(hex[(j - 1) \div 4 + 1]) \div Weight[((j - 1) % 4) + 1]) % 2]

Xor(a, b) == IF a = b THEN 0 ELSE 1

TableReplace(data, table, n) == [j \in 1 .. n |-> data[table[j]]]

\* Each half of the 56 key bits turned left by step places.
Loop_bit(bits, step) ==
    [j \in 1 .. 56 |-> IF j <= 28 THEN bits[((j - 1 + step) % 28) + 1]
                                  ELSE bits[((j - 29 + step) % 28) + 29]]

\* S boxes: six bits in, four out, the first and last bit choosing the row.
DataCompress(m) ==
    [j \in 1 .. 32 |->
        LET i == (j - 1) \div 4
            r == 2 * m[6*i+1] + m[6*i+6]
            c == 8 * m[6*i+2] + 4 * m[6*i+3] + 2 * m[6*i+4] + m[6*i+5]
        IN  (S_Box[i + 1][16 * r + c + 1] \div Weight[((j - 1) % 4) + 1]) % 2]

F_operate(half, subkey) ==
    LET expanded == TableReplace(half, E_Table, 48)
        mixed == [j \in 1 .. 48 |-> Xor(expanded[j], subkey[j])]
    IN  TableReplace(DataCompress(mixed), P_Table, 32)

Left(block)  == [j \in 1 .. 32 |-> block[j]]
Right(block) == [j \in 1 .. 32 |-> block[j + 32]]
Join(left, right) == [j \in 1 .. 64 |-> IF j <= 32 THEN left[j] ELSE right[j - 32]]
XorHalf(a, b) == [j \in 1 .. 32 |-> Xor(a[j], b[j])]

(* Mutant: the halves are exchanged before the round function, as in the    *)
(* decryption.                                                              *)
EncryptBlockSwapped(block, subkey) ==
    Join(Right(block), XorHalf(F_operate(Left(block), subkey), Left(block)))

\* The body of the loop in each direction.
EncryptBlock(block, subkey) ==
    Join(Right(block), XorHalf(F_operate(Right(block), subkey), Left(block)))
DecryptBlock(block, subkey) ==
    Join(XorHalf(F_operate(Left(block), subkey), Right(block)), Left(block))

KeySchedule(secret) ==
    LET turned[i \in 0 .. 16] ==
            IF i = 0 THEN TableReplace(ByteToBit(secret), PC1_Table, 56)
                     ELSE Loop_bit(turned[i - 1], Move_Table[i])
    IN  [i \in 1 .. 16 |-> TableReplace(turned[i], PC2_Table, 48)]

VARIABLES
    SubKey,       \* the sixteen subkeys
    Message_bit,  \* the static block of the call that runs
    round,        \* the subkey its next round uses
    calling,      \* "no", or the call that runs
    HexMessage,   \* what the last encryption wrote
    TextMessage,  \* what the last decryption of it wrote, or None
    keys,         \* history: the key now, at the last encryption, and at the last decryption
    plain,        \* history: the message last encrypted
    trail         \* history: round -> the block before that round of it

desVars == <<SubKey, Message_bit, round, calling, HexMessage, TextMessage, keys, plain, trail>>

Zero(n) == [j \in 1 .. n |-> 0]

\* The static arrays start at zero: an encryption before any DES_SetKey uses
\* sixteen zero subkeys.
DesInit ==
    /\ SubKey = [i \in 1 .. 16 |-> Zero(48)]
    /\ Message_bit = Zero(64)
    /\ round = 0
    /\ calling = "no"
    /\ HexMessage = None
    /\ TextMessage = None
    /\ keys = [now |-> None, used |-> None, read |-> None]
    /\ plain = None
    /\ trail = [i \in 1 .. 17 |-> Zero(64)]

DES_SetKey(secret) ==
    /\ calling = "no"
    /\ SubKey' = KeySchedule(secret)
    /\ keys' = [now |-> secret, used |-> keys.used, read |-> keys.read]
    /\ UNCHANGED <<Message_bit, round, calling, HexMessage, TextMessage, plain, trail>>

DES_Encryption(text) ==
    /\ calling = "no"
    /\ Message_bit' = TableReplace(ByteToBit(text), IP_Table, 64)
    /\ round' = 1
    /\ calling' = "encryption"
    /\ TextMessage' = None
    /\ keys' = [now |-> keys.now, used |-> keys.now, read |-> keys.read]
    /\ plain' = text
    /\ trail' = [trail EXCEPT ![1] = Message_bit']
    /\ UNCHANGED <<SubKey, HexMessage>>

EncryptionRound ==
    /\ calling = "encryption"
    /\ round <= 16
    /\ Message_bit' = EncryptBlock(Message_bit, SubKey[round])
    /\ round' = round + 1
    /\ trail' = [trail EXCEPT ![round + 1] = Message_bit']
    /\ UNCHANGED <<SubKey, calling, HexMessage, TextMessage, keys, plain>>

EncryptionReturns ==
    /\ calling = "encryption"
    /\ round = 17
    /\ HexMessage' = BitToHex(TableReplace(Message_bit, IPR_Table, 64))
    /\ calling' = "no"
    /\ UNCHANGED <<SubKey, Message_bit, round, TextMessage, keys, plain, trail>>

DES_Decryption ==
    /\ calling = "no"
    /\ HexMessage # None
    /\ Message_bit' = TableReplace(HexToBit(HexMessage), IP_Table, 64)
    /\ round' = 16
    /\ calling' = "decryption"
    /\ UNCHANGED <<SubKey, HexMessage, TextMessage, keys, plain, trail>>

DecryptionRound ==
    /\ calling = "decryption"
    /\ round >= 1
    /\ Message_bit' = DecryptBlock(Message_bit, SubKey[round])
    /\ round' = round - 1
    /\ UNCHANGED <<SubKey, calling, HexMessage, TextMessage, keys, plain, trail>>

DecryptionReturns ==
    /\ calling = "decryption"
    /\ round = 0
    /\ TextMessage' = BitToByte(TableReplace(Message_bit, IPR_Table, 64))
    /\ calling' = "no"
    /\ keys' = [now |-> keys.now, used |-> keys.used, read |-> keys.now]
    /\ UNCHANGED <<SubKey, Message_bit, round, HexMessage, plain, trail>>

DesNext ==
    \/ \E secret \in SecretKeys : DES_SetKey(secret)
    \/ \E text \in Texts : DES_Encryption(text)
    \/ EncryptionRound \/ EncryptionReturns
    \/ DES_Decryption \/ DecryptionRound \/ DecryptionReturns

DesSpec == DesInit /\ [][DesNext]_desVars
-----------------------------------------------------------------------------
DesTypeOK ==
    /\ SubKey \in [1 .. 16 -> Bits(48)]
    /\ Message_bit \in Bits(64)
    /\ round \in 0 .. 17
    /\ calling \in {"no", "encryption", "decryption"}
    /\ HexMessage # None => HexMessage \in [1 .. 16 -> 48 .. 70]
    /\ TextMessage # None => TextMessage \in [1 .. 8 -> 0 .. 255]
    /\ keys \in [{"now", "used", "read"} -> SecretKeys \cup {None}]
    /\ plain \in Texts \cup {None}
    /\ trail \in [1 .. 17 -> Bits(64)]

\* Decrypting what an encryption wrote gives the message back, whatever calls of
\* DES_SetKey came between, provided the key set last is that of the encryption.
RoundTrip == TextMessage # None /\ keys.read = keys.used => TextMessage = plain
=============================================================================
