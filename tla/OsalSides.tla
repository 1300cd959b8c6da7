------------------------------- MODULE OsalSides -------------------------------
(***************************************************************************)
(* What the OSAL works out on both sides, in the kernel and in a user program,  *)
(* in ways of their own: sleeping and the time, and checksums.                *)
(*                                                                         *)
(* Sleeping and the time (kernel/osal/src/sys/osal_time.c, user/osal/src/sys/   *)
(* osal_time.c, osal_clock.c): conversions between seconds and their            *)
(* thousandths in words that may be too small.  Everything is in nanoseconds    *)
(* here, unless a name says otherwise.                                       *)
(*                                                                         *)
(* Checksums: in the kernel bit by bit (kernel/osal/src/util/osal_crc.c), in a   *)
(* user program with tables, 256 numbers each, that somebody typed              *)
(* (user/osal/src/osal_crc.c).  What one side sends the other one checks.       *)
(* A word of 32 bits is a pair of its halves, the higher one first.            *)
(***************************************************************************)
EXTENDS Integers, Sequences, SequencesExt, Bitwise

CONSTANTS
    K,          (* 1000: the step from one unit to the next                   *)
    Word,       (* 2^32                                                      *)
    Short,      (* 10: microseconds that are waited for and not slept          *)
    MaxExtra,   (* 1000: microseconds a sleep may be late on purpose           *)
    MaxTime,    (* bound: nanoseconds since the machine was started          *)
    Bytes,      (* bytes of the longer messages                               *)
    Lengths,    (* and their lengths                                          *)
    Starts,     (* values to go on from with osal_crc16_ccitt_update            *)
    Bursts,     (* bits that a fault on a line changes, from its first to its    *)
                (* last: numbers                                              *)
    Faulty      (* the messages it is shown with                               *)

TimeAssumption ==
    /\ K \in Nat \ {0} /\ Word \in Nat \ {0} /\ Short \in Nat
    /\ MaxExtra \in Nat /\ MaxTime \in Nat

VARIABLES
    call,       (* the call that was made: its name, ...                     *)
    asked,      (* how long it was to sleep, ...                             *)
    slept,      (* how long it did, ...                                      *)
    outcome,    (* "none", "success", "generic" (OSAL_ERR_GENERIC) or "size"    *)
                (* (OSAL_ERR_INVALID_SIZE)                                     *)
    readings,   (* what osal_get_tick_count said at two times                 *)
    message,    (* its bytes                                                 *)
    start,      (* what is gone on from                                       *)
    burst, at   (* a fault, and the byte it begins in                         *)

timeVars == <<call, asked, slept, outcome, readings>>

Us == K
Ms == K * K
Sec == K * K * K

TimeInit ==
    /\ call = "none" /\ asked = 0 /\ slept = 0 /\ outcome = "none"
    /\ readings = <<>>

Answer(name, long, result) ==
    /\ call = "none"
    /\ call' = name /\ asked' = long /\ outcome' = result
    /\ UNCHANGED readings

Least(a, b) == IF a < b THEN a ELSE b

(* usleep_range, udelay: how long osal_usleep of the kernel may take.          *)
KernelUs(us) ==
    IF us < Short THEN {us * Us}
    ELSE {n * Us : n \in us .. us + Least(us \div 8, MaxExtra)}

KernelMsleep(ms) == slept' = ms * Ms /\ Answer("msleep", ms * Ms, "success")

KernelUsleep(us) == slept' \in KernelUs(us) /\ Answer("usleep", us * Us, "success")

(* A slip: the milliseconds are not compared with what a word holds.          *)
KernelSleepWraps(s) ==
    slept' = ((s * K) % Word) * Ms /\ Answer("sleep", s * Sec, "success")

(* osal_sleep of the kernel refuses what has too many milliseconds.            *)
KernelSleep(s) ==
    IF s * K >= Word
    THEN slept' = 0 /\ Answer("sleep", s * Sec, "size")
    ELSE slept' = s * K * Ms /\ Answer("sleep", s * Sec, "success")

(* osal_nanosleep of the kernel rounds up to microseconds.                     *)
KernelNanosleep(ns) ==
    LET us == (ns + K - 1) \div K
    IN IF us >= Word
       THEN slept' = 0 /\ Answer("nanosleep", ns, "size")
       ELSE slept' \in KernelUs(us) /\ Answer("nanosleep", ns, "success")

(* In a user program a signal may end a sleep early, which is an error.        *)
UserSlept(name, long, slice) ==
    \/ slept' = slice /\ Answer(name, long, "success")
    \/ slept' \in 0 .. slice - 1 /\ Answer(name, long, "generic")

(* msec * OSAL_USEC_PER_MSEC, in 32 bits                                       *)
UserMsleep(ms) == UserSlept("user msleep", ms * Ms, ((ms * K) % Word) * Us)

UserUsleep(us) == UserSlept("user usleep", us * Us, us * Us)

(* What sleep() of the C library says is left is whole seconds: with less than   *)
(* one to go a signal is not noticed.                                         *)
UserSleep(s) ==
    \E left \in 0 .. s * Sec :
        /\ slept' = s * Sec - left
        /\ Answer("user sleep", s * Sec, IF left \div Sec = 0 THEN "success" ELSE "generic")

(* Seconds, and what is left of them.                                        *)
UserNanosleep(ns) == UserSlept("user nanosleep", ns, ((ns \div Sec) * Sec) + (ns % Sec))

(* osal_get_monotonic_time, _boot_time: microseconds, in the kernel from         *)
(* nanoseconds and in a user program from seconds and nanoseconds.             *)
KernelTimeUs(t) == t \div Us
UserTimeUs(t) == (t \div Sec) * (K * K) + (t % Sec) \div Us

(* osal_get_tick_count: milliseconds, the lowest 32 bits of them.              *)
TickCount(t) == ((t \div Sec) * K + (t % Sec) \div Ms) % Word

ReadTicks(from, to) ==
    /\ call = "none" /\ call' = "ticks"
    /\ readings' = << [at |-> from, ticks |-> TickCount(from)],
                      [at |-> to, ticks |-> TickCount(to)] >>
    /\ UNCHANGED <<asked, slept, outcome>>

Sleep(n) ==
    \/ KernelMsleep(n) \/ KernelUsleep(n) \/ KernelSleep(n) \/ KernelNanosleep(n)
    \/ UserMsleep(n) \/ UserUsleep(n) \/ UserSleep(n) \/ UserNanosleep(n)

(* Any argument a word holds, and for nanoseconds some that it does not.       *)
TimeNext ==
    \/ \E n \in 0 .. Word - 1 : Sleep(n)
    \/ \E n \in {Word * K - 1, Word * K + 1} : KernelNanosleep(n) \/ UserNanosleep(n)
    \/ \E from \in 0 .. MaxTime : \E to \in from .. MaxTime : ReadTicks(from, to)

-----------------------------------------------------------------------------
(* Checksums.                                                                *)
crcVars == <<message, start, burst, at>>

Half == 65536

(* The eight turns of a loop over the bits of a byte.                        *)
EightTimes(Turn(_), crc) ==
    LET after[n \in 0 .. 8] == IF n = 0 THEN crc ELSE Turn(after[n - 1]) IN after[8]

-----------------------------------------------------------------------------
(* The kernel.                                                               *)

(* crc & 0x8000: shift, and the polynomial 0x1021.                            *)
CcittTurn(crc) ==
    LET shifted == (crc * 2) % Half
    IN IF crc >= 32768 THEN shifted ^^ 4129 ELSE shifted

(* osal_crc16_ccitt_update.                                                  *)
KernelCcittUpdate(crc, data) ==
    FoldLeft(LAMBDA c, b : EightTimes(CcittTurn, c ^^ (b * 256)), crc, data)

KernelCcitt(data) == KernelCcittUpdate(65535, data)

(* crc & 1: shift, and the polynomial 0xA001.                                 *)
ModbusTurn(crc) == IF crc % 2 = 1 THEN (crc \div 2) ^^ 40961 ELSE crc \div 2

KernelModbus(data) ==
    FoldLeft(LAMBDA c, b : EightTimes(ModbusTurn, c ^^ b), 65535, data)

(* Shifts and exclusive or of two halves.                                     *)
ShiftRight(w, n) ==
    << w[1] \div (2 ^ n), w[2] \div (2 ^ n) + (w[1] % (2 ^ n)) * (Half \div (2 ^ n)) >>
Xor2(v, w) == << v[1] ^^ w[1], v[2] ^^ w[2] >>

(* crc & 1: shift, and the polynomial 0xEDB88320.                             *)
Crc32Turn(w) ==
    IF w[2] % 2 = 1 THEN Xor2(ShiftRight(w, 1), <<60856, 33568>>) ELSE ShiftRight(w, 1)

AllOnes == <<65535, 65535>>

KernelCrc32(data) ==
    Xor2(AllOnes,
         FoldLeft(LAMBDA w, b : EightTimes(Crc32Turn, Xor2(w, <<0, b>>)), AllOnes, data))

-----------------------------------------------------------------------------
(* User programs.                                                            *)

crc16_ccitt_table == <<
    0, 4129, 8258, 12387, 16516, 20645, 24774, 28903, 33032, 37161, 41290, 45419, 49548,
    53677, 57806, 61935, 4657, 528, 12915, 8786, 21173, 17044, 29431, 25302, 37689, 33560,
    45947, 41818, 54205, 50076, 62463, 58334, 9314, 13379, 1056, 5121, 25830, 29895, 17572,
    21637, 42346, 46411, 34088, 38153, 58862, 62927, 50604, 54669, 13907, 9842, 5649, 1584,
    30423, 26358, 22165, 18100, 46939, 42874, 38681, 34616, 63455, 59390, 55197, 51132, 18628,
    22757, 26758, 30887, 2112, 6241, 10242, 14371, 51660, 55789, 59790, 63919, 35144, 39273,
    43274, 47403, 23285, 19156, 31415, 27286, 6769, 2640, 14899, 10770, 56317, 52188, 64447,
    60318, 39801, 35672, 47931, 43802, 27814, 31879, 19684, 23749, 11298, 15363, 3168, 7233,
    60846, 64911, 52716, 56781, 44330, 48395, 36200, 40265, 32407, 28342, 24277, 20212, 15891,
    11826, 7761, 3696, 65439, 61374, 57309, 53244, 48923, 44858, 40793, 36728, 37256, 33193,
    45514, 41451, 53516, 49453, 61774, 57711, 4224, 161, 12482, 8419, 20484, 16421, 28742,
    24679, 33721, 37784, 41979, 46042, 49981, 54044, 58239, 62302, 689, 4752, 8947, 13010,
    16949, 21012, 25207, 29270, 46570, 42443, 38312, 34185, 62830, 58703, 54572, 50445, 13538,
    9411, 5280, 1153, 29798, 25671, 21540, 17413, 42971, 47098, 34713, 38840, 59231, 63358,
    50973, 55100, 9939, 14066, 1681, 5808, 26199, 30326, 17941, 22068, 55628, 51565, 63758,
    59695, 39368, 35305, 47498, 43435, 22596, 18533, 30726, 26663, 6336, 2273, 14466, 10403,
    52093, 56156, 60223, 64286, 35833, 39896, 43963, 48026, 19061, 23124, 27191, 31254, 2801,
    6864, 10931, 14994, 64814, 60687, 56684, 52557, 48554, 44427, 40424, 36297, 31782, 27655,
    23652, 19525, 15522, 11395, 7392, 3265, 61215, 65342, 53085, 57212, 44955, 49082, 36825,
    40952, 28183, 32310, 20053, 24180, 11923, 16050, 3793, 7920 >>

(* The higher and the lower halves of its numbers.                            *)
crc32_table_high == <<
    0, 30471, 60942, 39177, 1901, 28778, 59747, 40548, 3803, 31196, 57557, 38866, 2486,
    32433, 59320, 37055, 7607, 27312, 62393, 33982, 6874, 28125, 62676, 33747, 4972, 25707,
    64866, 35429, 5121, 25350, 64015, 36104, 15214, 19561, 54624, 41575, 15363, 19204, 53773,
    42250, 13749, 17074, 56251, 44220, 13016, 17887, 56534, 43985, 9945, 20958, 51415, 49104,
    8628, 22195, 53178, 47293, 10242, 24325, 50700, 45323, 12143, 22632, 49505, 46694, 30428,
    475, 39122, 61397, 29105, 1718, 40895, 59576, 30727, 3840, 38409, 57614, 32618, 2157,
    37220, 58979, 27499, 7276, 34149, 62050, 27654, 6913, 33288, 62735, 26032, 4791, 35774,
    64697, 25309, 5594, 36051, 64468, 19890, 15029, 41916, 54459, 19167, 15832, 42193, 54230,
    17257, 13422, 44391, 55904, 17412, 13059, 43530, 56589, 20485, 9986, 48651, 51468, 22376,
    8303, 47462, 52833, 24286, 10713, 45264, 51159, 22963, 11956, 47037, 49338, 60856, 39615,
    950, 29873, 60117, 40402, 1243, 29660, 58211, 37988, 3437, 31338, 58382, 37641, 2560,
    32007, 61455, 34568, 7681, 26886, 63330, 32869, 6508, 28267, 65236, 35283, 4314, 26589,
    63929, 36542, 6071, 24752, 54998, 41425, 14552, 20447, 53691, 42684, 16309, 18610, 55309,
    44810, 13827, 16644, 57184, 43111, 12654, 18025, 52065, 48230, 9583, 21096, 52236, 47883,
    8706, 21765, 50618, 45757, 11188, 23731, 49879, 46544, 11481, 23518, 39780, 60515, 30058,
    621, 39945, 60174, 29191, 1280, 38335, 58040, 31665, 3254, 37586, 58837, 31964, 3035,
    34515, 61908, 26845, 8154, 33214, 63161, 28592, 6327, 34824, 65295, 26118, 4353, 36709,
    63586, 24939, 5740, 40970, 55053, 19972, 14595, 42855, 53344, 18793, 15982, 44753, 55766,
    16607, 14296, 43452, 57019, 18354, 12469, 48573, 51898, 21427, 9396, 47824, 52695, 21726,
    9177, 45926, 50273, 23912, 10863, 46091, 49932, 23045, 11522 >>

crc32_table_low == <<
    0, 12438, 24876, 20922, 50201, 62607, 42293, 38307, 34866, 47268, 59678, 55688, 19499,
    31933, 11527, 7569, 4196, 8434, 29000, 16862, 54397, 58603, 46417, 34247, 38998, 43200,
    63866, 51692, 23631, 27865, 15715, 3573, 8392, 4190, 16868, 29042, 58577, 54343, 34301,
    46443, 43258, 39020, 51670, 63808, 27875, 23669, 3535, 15705, 12460, 58, 20864, 24854,
    62645, 50211, 38297, 42255, 47262, 34824, 55730, 59684, 31879, 19473, 7595, 11581, 16784,
    28934, 8380, 4138, 34185, 46367, 58533, 54323, 51618, 63796, 43150, 38936, 3515, 15661,
    27799, 23553, 20980, 24930, 12504, 78, 38381, 42363, 62657, 50263, 55750, 59728, 47338,
    34940, 7647, 11593, 31987, 19557, 24920, 20942, 116, 12514, 42305, 38359, 50285, 62715,
    59754, 55804, 34886, 47312, 11635, 7653, 19551, 31945, 28988, 16810, 4112, 8326, 46373,
    34227, 54281, 58527, 63758, 51608, 38946, 43188, 15639, 3457, 23611, 27821, 33568, 46006,
    57868, 53914, 18233, 30639, 9749, 5763, 2834, 15236, 27198, 23208, 53003, 65437, 44583,
    40625, 37700, 41938, 62056, 49918, 22365, 26571, 13937, 1767, 7030, 11232, 31322, 19148,
    57199, 61433, 48707, 36565, 41960, 37758, 49860, 62034, 26609, 22375, 1757, 13899, 11226,
    6988, 19190, 31328, 61379, 57173, 36591, 48761, 45964, 33562, 53920, 57910, 30613, 18179,
    5817, 9775, 15294, 2856, 23186, 27140, 65447, 53041, 40587, 44573, 49840, 61990, 41884,
    37642, 1705, 13887, 26501, 22291, 19074, 31252, 11182, 6968, 36507, 48653, 61367, 57121,
    53972, 57922, 46072, 33646, 5837, 9819, 30689, 18295, 23270, 27248, 15306, 2908, 40703,
    44649, 65491, 53061, 57976, 53998, 33620, 46018, 9825, 5879, 18253, 30683, 27210, 23260,
    2918, 15344, 44627, 40645, 53119, 65513, 61980, 49802, 37680, 41894, 13829, 1683, 22313,
    26559, 31278, 19128, 6914, 11156, 48695, 36513, 57115, 61325 >>

(* crc << 8 in a uint16_t.                                                   *)
UserCcittStep(crc, b) ==
    ((crc * 256) % Half) ^^ crc16_ccitt_table[1 + ((crc \div 256) ^^ b)]

UserCcittUpdate(crc, data) == FoldLeft(UserCcittStep, crc, data)

UserCcitt(data) == FoldLeft(UserCcittStep, 65535, data)

UserModbus(data) ==
    FoldLeft(LAMBDA c, b : EightTimes(ModbusTurn, c ^^ b), 65535, data)

UserCrc32Step(w, b) ==
    LET i == 1 + ((w[2] % 256) ^^ b)
    IN Xor2(ShiftRight(w, 8), << crc32_table_high[i], crc32_table_low[i] >>)

UserCrc32(data) == Xor2(FoldLeft(UserCrc32Step, AllOnes, data), AllOnes)

-----------------------------------------------------------------------------
(* A message is given to the functions: one byte, or a few bytes of some.      *)

CrcInit == message = <<>> /\ start = 65535 /\ burst = 0 /\ at = 1

Give ==
    /\ message = <<>>
    /\ \/ \E b \in 0 .. 255 : message' = <<b>>
       \/ \E n \in Lengths : message' \in [1 .. n -> Bytes]
    /\ start' \in Starts
    /\ UNCHANGED <<burst, at>>

(* A message of two bytes or more, and a fault.                               *)
Spoil ==
    /\ message = <<>>
    /\ message' \in Faulty
    /\ burst' \in Bursts
    /\ at' \in 1 .. Len(message') - 1
    /\ UNCHANGED start

CrcNext == Give \/ Spoil

(* What is received of it: a burst of up to 16 bits lies in two bytes.         *)
Received ==
    [message EXCEPT ![at] = @ ^^ (burst \div 256), ![at + 1] = @ ^^ (burst % 256)]

-----------------------------------------------------------------------------
(* Someone sleeps or asks for the time, or someone sends a message.            *)
Init == TimeInit /\ CrcInit

Next ==
    \/ TimeNext /\ UNCHANGED crcVars
    \/ CrcNext /\ UNCHANGED timeVars

Spec == Init /\ [][Next]_<<timeVars, crcVars>>
-----------------------------------------------------------------------------
TypeOK ==
    /\ asked \in Nat /\ slept \in Nat
    /\ outcome \in {"none", "success", "generic", "size"}

(* A sleep that reports success lasted at least as long as it was asked to, and  *)
(* at most an eighth and a microsecond longer: nothing wraps on the way.  What   *)
(* reports a failure was cut short, and what is refused has not been slept at all. *)
(* osal_sleep of a user program may be a signal short of its last second.        *)
SleepsEnough ==
    LET missing == IF call = "user sleep" THEN Sec - 1 ELSE 0 IN
    call # "user msleep" =>
       /\ outcome = "success" =>
             slept + missing >= asked /\ slept <= asked + asked \div 8 + 2 * Us
       /\ outcome = "generic" => slept < asked
       /\ outcome = "size" => slept = 0

(* The same of osal_msleep in a user program.  It holds up to 71 minutes.        *)
UserMsleepEnough == outcome = "success" => slept >= asked

(* Both ways to tell the time agree, and two tick counts differ by the            *)
(* milliseconds between them, also when the counter has wrapped in between       *)
(* (a difference that fits a word).                                          *)
ClocksAgree ==
    call = "ticks" =>
       LET from == readings[1] to == readings[2]
           passed == to.at \div Ms - from.at \div Ms
       IN /\ KernelTimeUs(to.at) = UserTimeUs(to.at)
          /\ passed < Word => (to.ticks - from.ticks) % Word = passed

(* The kernel and a user program have the same checksums of the same bytes:    *)
(* every number of the tables is right.                                      *)
CrcsAgree ==
    /\ KernelCcittUpdate(start, message) = UserCcittUpdate(start, message)
    /\ KernelCcitt(message) = UserCcitt(message)
    /\ KernelModbus(message) = UserModbus(message)
    /\ KernelCrc32(message) = UserCrc32(message)

(* A checksum that is worked out piece by piece is that of the whole.          *)
PiecesMakeWhole ==
    \A n \in 0 .. Len(message) :
       UserCcittUpdate(UserCcitt(SubSeq(message, 1, n)),
                       SubSeq(message, n + 1, Len(message))) = KernelCcitt(message)

(* A message with one fault, however the bits between its first and its last    *)
(* are changed, has another checksum of each kind.                            *)
FaultsShow ==
    burst # 0 => /\ UserCcitt(Received) # UserCcitt(message)
                 /\ KernelModbus(Received) # KernelModbus(message)
                 /\ KernelCrc32(Received) # KernelCrc32(message)
=============================================================================
