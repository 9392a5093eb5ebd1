----------------------------- MODULE Checksums -----------------------------
(***************************************************************************)
(* CRC16 and CRC32 (src/utils/crc16.cpp, src/utils/crc32.cpp): checksums   *)
(* kept while bytes are fed to them, each byte by a look into a table.     *)
(* Beside each stands the register of the polynomial division the tables   *)
(* stand for, shifted bit by bit.                                          *)
(*                                                                         *)
(* TLC's numbers have 31 bits: a word of 32 is a pair of halves.           *)
(***************************************************************************)
EXTENDS Naturals, Sequences, Bitwise

CONSTANTS
    Fed,        \* the bytes the model feeds after the first one
    MaxBytes    \* bound on the bytes fed

VARIABLES
    crc16,      \* hiByte and loByte
    crc32,      \* the halves of checksum
    reg16,      \* history: the registers the checksums should agree with
    reg32,
    fed,        \* history: the number of bytes fed
    resumed     \* history: the objects were constructed from their own values

checksumsVars == <<crc16, crc32, reg16, reg32, fed, resumed>>

Octets == 0..255
Half   == 0..65535

hiTable == <<
    0, 193, 129, 64, 1, 192, 128, 65, 1, 192, 128, 65, 0, 193, 129, 64, 1, 192, 128, 65, 0, 193, 129, 64, 0, 193, 129, 64, 1, 192, 128, 65,
    1, 192, 128, 65, 0, 193, 129, 64, 0, 193, 129, 64, 1, 192, 128, 65, 0, 193, 129, 64, 1, 192, 128, 65, 1, 192, 128, 65, 0, 193, 129, 64,
    1, 192, 128, 65, 0, 193, 129, 64, 0, 193, 129, 64, 1, 192, 128, 65, 0, 193, 129, 64, 1, 192, 128, 65, 1, 192, 128, 65, 0, 193, 129, 64,
    0, 193, 129, 64, 1, 192, 128, 65, 1, 192, 128, 65, 0, 193, 129, 64, 1, 192, 128, 65, 0, 193, 129, 64, 0, 193, 129, 64, 1, 192, 128, 65,
    1, 192, 128, 65, 0, 193, 129, 64, 0, 193, 129, 64, 1, 192, 128, 65, 0, 193, 129, 64, 1, 192, 128, 65, 1, 192, 128, 65, 0, 193, 129, 64,
    0, 193, 129, 64, 1, 192, 128, 65, 1, 192, 128, 65, 0, 193, 129, 64, 1, 192, 128, 65, 0, 193, 129, 64, 0, 193, 129, 64, 1, 192, 128, 65,
    0, 193, 129, 64, 1, 192, 128, 65, 1, 192, 128, 65, 0, 193, 129, 64, 1, 192, 128, 65, 0, 193, 129, 64, 0, 193, 129, 64, 1, 192, 128, 65,
    1, 192, 128, 65, 0, 193, 129, 64, 0, 193, 129, 64, 1, 192, 128, 65, 0, 193, 129, 64, 1, 192, 128, 65, 1, 192, 128, 65, 0, 193, 129, 64>>

loTable == <<
    0, 192, 193, 1, 195, 3, 2, 194, 198, 6, 7, 199, 5, 197, 196, 4, 204, 12, 13, 205, 15, 207, 206, 14, 10, 202, 203, 11, 201, 9, 8, 200,
    216, 24, 25, 217, 27, 219, 218, 26, 30, 222, 223, 31, 221, 29, 28, 220, 20, 212, 213, 21, 215, 23, 22, 214, 210, 18, 19, 211, 17, 209, 208, 16,
    240, 48, 49, 241, 51, 243, 242, 50, 54, 246, 247, 55, 245, 53, 52, 244, 60, 252, 253, 61, 255, 63, 62, 254, 250, 58, 59, 251, 57, 249, 248, 56,
    40, 232, 233, 41, 235, 43, 42, 234, 238, 46, 47, 239, 45, 237, 236, 44, 228, 36, 37, 229, 39, 231, 230, 38, 34, 226, 227, 35, 225, 33, 32, 224,
    160, 96, 97, 161, 99, 163, 162, 98, 102, 166, 167, 103, 165, 101, 100, 164, 108, 172, 173, 109, 175, 111, 110, 174, 170, 106, 107, 171, 105, 169, 168, 104,
    120, 184, 185, 121, 187, 123, 122, 186, 190, 126, 127, 191, 125, 189, 188, 124, 180, 116, 117, 181, 119, 183, 182, 118, 114, 178, 179, 115, 177, 113, 112, 176,
    80, 144, 145, 81, 147, 83, 82, 146, 150, 86, 87, 151, 85, 149, 148, 84, 156, 92, 93, 157, 95, 159, 158, 94, 90, 154, 155, 91, 153, 89, 88, 152,
    136, 72, 73, 137, 75, 139, 138, 74, 78, 142, 143, 79, 141, 77, 76, 140, 68, 132, 133, 69, 135, 71, 70, 134, 130, 66, 67, 131, 65, 129, 128, 64>>

table == <<
    <<0, 0>>, <<30471, 12438>>, <<60942, 24876>>, <<39177, 20922>>, <<1901, 50201>>, <<28778, 62607>>, <<59747, 42293>>, <<40548, 38307>>,
    <<3803, 34866>>, <<31196, 47268>>, <<57557, 59678>>, <<38866, 55688>>, <<2486, 19499>>, <<32433, 31933>>, <<59320, 11527>>, <<37055, 7569>>,
    <<7607, 4196>>, <<27312, 8434>>, <<62393, 29000>>, <<33982, 16862>>, <<6874, 54397>>, <<28125, 58603>>, <<62676, 46417>>, <<33747, 34247>>,
    <<4972, 38998>>, <<25707, 43200>>, <<64866, 63866>>, <<35429, 51692>>, <<5121, 23631>>, <<25350, 27865>>, <<64015, 15715>>, <<36104, 3573>>,
    <<15214, 8392>>, <<19561, 4190>>, <<54624, 16868>>, <<41575, 29042>>, <<15363, 58577>>, <<19204, 54343>>, <<53773, 34301>>, <<42250, 46443>>,
    <<13749, 43258>>, <<17074, 39020>>, <<56251, 51670>>, <<44220, 63808>>, <<13016, 27875>>, <<17887, 23669>>, <<56534, 3535>>, <<43985, 15705>>,
    <<9945, 12460>>, <<20958, 58>>, <<51415, 20864>>, <<49104, 24854>>, <<8628, 62645>>, <<22195, 50211>>, <<53178, 38297>>, <<47293, 42255>>,
    <<10242, 47262>>, <<24325, 34824>>, <<50700, 55730>>, <<45323, 59684>>, <<12143, 31879>>, <<22632, 19473>>, <<49505, 7595>>, <<46694, 11581>>,
    <<30428, 16784>>, <<475, 28934>>, <<39122, 8380>>, <<61397, 4138>>, <<29105, 34185>>, <<1718, 46367>>, <<40895, 58533>>, <<59576, 54323>>,
    <<30727, 51618>>, <<3840, 63796>>, <<38409, 43150>>, <<57614, 38936>>, <<32618, 3515>>, <<2157, 15661>>, <<37220, 27799>>, <<58979, 23553>>,
    <<27499, 20980>>, <<7276, 24930>>, <<34149, 12504>>, <<62050, 78>>, <<27654, 38381>>, <<6913, 42363>>, <<33288, 62657>>, <<62735, 50263>>,
    <<26032, 55750>>, <<4791, 59728>>, <<35774, 47338>>, <<64697, 34940>>, <<25309, 7647>>, <<5594, 11593>>, <<36051, 31987>>, <<64468, 19557>>,
    <<19890, 24920>>, <<15029, 20942>>, <<41916, 116>>, <<54459, 12514>>, <<19167, 42305>>, <<15832, 38359>>, <<42193, 50285>>, <<54230, 62715>>,
    <<17257, 59754>>, <<13422, 55804>>, <<44391, 34886>>, <<55904, 47312>>, <<17412, 11635>>, <<13059, 7653>>, <<43530, 19551>>, <<56589, 31945>>,
    <<20485, 28988>>, <<9986, 16810>>, <<48651, 4112>>, <<51468, 8326>>, <<22376, 46373>>, <<8303, 34227>>, <<47462, 54281>>, <<52833, 58527>>,
    <<24286, 63758>>, <<10713, 51608>>, <<45264, 38946>>, <<51159, 43188>>, <<22963, 15639>>, <<11956, 3457>>, <<47037, 23611>>, <<49338, 27821>>,
    <<60856, 33568>>, <<39615, 46006>>, <<950, 57868>>, <<29873, 53914>>, <<60117, 18233>>, <<40402, 30639>>, <<1243, 9749>>, <<29660, 5763>>,
    <<58211, 2834>>, <<37988, 15236>>, <<3437, 27198>>, <<31338, 23208>>, <<58382, 53003>>, <<37641, 65437>>, <<2560, 44583>>, <<32007, 40625>>,
    <<61455, 37700>>, <<34568, 41938>>, <<7681, 62056>>, <<26886, 49918>>, <<63330, 22365>>, <<32869, 26571>>, <<6508, 13937>>, <<28267, 1767>>,
    <<65236, 7030>>, <<35283, 11232>>, <<4314, 31322>>, <<26589, 19148>>, <<63929, 57199>>, <<36542, 61433>>, <<6071, 48707>>, <<24752, 36565>>,
    <<54998, 41960>>, <<41425, 37758>>, <<14552, 49860>>, <<20447, 62034>>, <<53691, 26609>>, <<42684, 22375>>, <<16309, 1757>>, <<18610, 13899>>,
    <<55309, 11226>>, <<44810, 6988>>, <<13827, 19190>>, <<16644, 31328>>, <<57184, 61379>>, <<43111, 57173>>, <<12654, 36591>>, <<18025, 48761>>,
    <<52065, 45964>>, <<48230, 33562>>, <<9583, 53920>>, <<21096, 57910>>, <<52236, 30613>>, <<47883, 18179>>, <<8706, 5817>>, <<21765, 9775>>,
    <<50618, 15294>>, <<45757, 2856>>, <<11188, 23186>>, <<23731, 27140>>, <<49879, 65447>>, <<46544, 53041>>, <<11481, 40587>>, <<23518, 44573>>,
    <<39780, 49840>>, <<60515, 61990>>, <<30058, 41884>>, <<621, 37642>>, <<39945, 1705>>, <<60174, 13887>>, <<29191, 26501>>, <<1280, 22291>>,
    <<38335, 19074>>, <<58040, 31252>>, <<31665, 11182>>, <<3254, 6968>>, <<37586, 36507>>, <<58837, 48653>>, <<31964, 61367>>, <<3035, 57121>>,
    <<34515, 53972>>, <<61908, 57922>>, <<26845, 46072>>, <<8154, 33646>>, <<33214, 5837>>, <<63161, 9819>>, <<28592, 30689>>, <<6327, 18295>>,
    <<34824, 23270>>, <<65295, 27248>>, <<26118, 15306>>, <<4353, 2908>>, <<36709, 40703>>, <<63586, 44649>>, <<24939, 65491>>, <<5740, 53061>>,
    <<40970, 57976>>, <<55053, 53998>>, <<19972, 33620>>, <<14595, 46018>>, <<42855, 9825>>, <<53344, 5879>>, <<18793, 18253>>, <<15982, 30683>>,
    <<44753, 27210>>, <<55766, 23260>>, <<16607, 2918>>, <<14296, 15344>>, <<43452, 44627>>, <<57019, 40645>>, <<18354, 53119>>, <<12469, 65513>>,
    <<48573, 61980>>, <<51898, 49802>>, <<21427, 37680>>, <<9396, 41894>>, <<47824, 13829>>, <<52695, 1683>>, <<21726, 22313>>, <<9177, 26559>>,
    <<45926, 31278>>, <<50273, 19128>>, <<23912, 6914>>, <<10863, 11156>>, <<46091, 48695>>, <<49932, 36513>>, <<23045, 57115>>, <<11522, 61325>>>>

-----------------------------------------------------------------------------
(* The code. *)

Start16 == [hi |-> 255, lo |-> 255]
Start32 == <<65535, 65535>>

UpdateChecksum16Mutant(c, byte) ==  \* hi and lo swapped
    LET index == (c.hi ^^ byte) + 1
    IN  [hi |-> loTable[index], lo |-> c.lo ^^ hiTable[index]]

UpdateChecksum16(c, byte) ==
    LET index == (c.hi ^^ byte) + 1
    IN  [hi |-> c.lo ^^ hiTable[index], lo |-> loTable[index]]

\* (checksum >> 8) ^ table[byte ^ (checksum & 0xFF)]
UpdateChecksum32(c, byte) ==
    LET entry == table[(byte ^^ (c[2] % 256)) + 1]
    IN  <<(c[1] \div 256) ^^ entry[1],
          ((c[1] % 256) * 256 + c[2] \div 256) ^^ entry[2]>>

ToU16Of(c) == c.hi * 256 + c.lo

\* CRC16(value), which ors where it should mask.
CRC16Of(v) == [hi |-> (v \div 256) | 255, lo |-> (v | 255) % 256]

-----------------------------------------------------------------------------
(* The registers: a bit that leaves on the right adds the polynomial. *)

Shift16(r) == IF r % 2 = 1 THEN (r \div 2) ^^ 40961 ELSE r \div 2

Shift32(r) ==
    LET h == r[1] \div 2
        l == r[2] \div 2 + (r[1] % 2) * 32768
    IN  IF r[2] % 2 = 1 THEN <<h ^^ 60856, l ^^ 33568>> ELSE <<h, l>>

Divided16(r, byte) ==
    LET f[n \in 0..8] == IF n = 0 THEN r ^^ byte ELSE Shift16(f[n - 1]) IN f[8]

Divided32(r, byte) ==
    LET f[n \in 0..8] ==
            IF n = 0 THEN <<r[1], r[2] ^^ byte>> ELSE Shift32(f[n - 1])
    IN  f[8]

-----------------------------------------------------------------------------
ChecksumsInit ==
    /\ crc16 = Start16 /\ crc32 = Start32
    /\ reg16 = 65535 /\ reg32 = Start32
    /\ fed = 0
    /\ resumed = FALSE

\* update(): one turn of its loop.  The first byte is any.
Feed(byte) ==
    /\ fed < MaxBytes
    /\ crc16' = UpdateChecksum16(crc16, byte)
    /\ crc32' = UpdateChecksum32(crc32, byte)
    /\ reg16' = Divided16(reg16, byte)
    /\ reg32' = Divided32(reg32, byte)
    /\ fed' = fed + 1
    /\ UNCHANGED resumed

Reset == crc16' = Start16 /\ crc32' = Start32
         /\ reg16' = 65535 /\ reg32' = Start32
         /\ resumed' = FALSE
         /\ UNCHANGED fed

\* The checksums are stored and, later, new objects constructed from them.
Resume ==
    /\ crc16' = CRC16Of(ToU16Of(crc16))
    /\ resumed' = TRUE
    /\ UNCHANGED <<crc32, reg16, reg32, fed>>

ChecksumsNext ==
    \/ \E byte \in IF fed = 0 THEN Octets ELSE Fed : Feed(byte)
    \/ Reset
    \/ Resume

ChecksumsSpec == ChecksumsInit /\ [][ChecksumsNext]_checksumsVars

-----------------------------------------------------------------------------
ChecksumsTypeOK ==
    /\ crc16 \in [hi : Octets, lo : Octets]
    /\ crc32 \in Half \X Half
    /\ reg16 \in Half /\ reg32 \in Half \X Half
    /\ fed \in 0..MaxBytes
    /\ resumed \in BOOLEAN

Match16 == crc16.hi = reg16 % 256 /\ crc16.lo = reg16 \div 256

(* The tables' checksums are the remainders of the polynomial division,     *)
(* CRC-16/MODBUS and CRC-32 without its last inversion, also when the       *)
(* checksum was stored and resumed in between, as CRC32 allows.  Nothing is *)
(* claimed of a CRC16 constructed from a value, which it forgets.           *)
ChecksumsMatch ==
    /\ crc32 = reg32
    /\ ~resumed => crc16.hi = reg16 % 256 /\ crc16.lo = reg16 \div 256
=============================================================================
