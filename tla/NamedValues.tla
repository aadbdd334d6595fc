---------------------------- MODULE NamedValues ----------------------------
(***************************************************************************)
(* Values between JSON and registers: the words of a named setter, the     *)
(* number that is published for them, and the cutting of a polled block    *)
(* into telemetry messages.  Pure functions, so their theorems are here.   *)
(*                                                                         *)
(* A number is counted in steps of the scale of its register; one that is  *)
(* no multiple of the scale is refused and has no place here.              *)
(***************************************************************************)
EXTENDS Integers, Sequences, TLAPS

MaxWord == 65535
Word == 0 .. MaxWord
Wide == 65536
Half == 32768

(* RegisterDataType.                                                       *)
TwoWords == {"uint32", "sint32"}
LowWords == {"uint32_low_word", "sint32_low_word"}
Text == {"ascii", "ascii_or_uint16"}
Numeric == {"uint8", "uint16", "sint16"} \cup TwoWords
Type == Numeric \cup LowWords \cup Text \cup {"unknown"}
Register == [space : {"holding", "input"}, address : Word, type : Type]

Character == 1 .. 255
Item == [kind : {"bool"}, value : BOOLEAN]
          \cup [kind : {"text"}, value : Seq(Character)]
          \cup [kind : {"number"}, value : Int]
-----------------------------------------------------------------------------
(*                        encode_named_value                               *)

(* The year is written without its century; its scale is 1.                *)
IsYear(r) == r.space = "holding" /\ r.address = 21
Steps(r, n) == IF IsYear(r) /\ n \in 2000 .. 2099 THEN n - 2000 ELSE n

Fits(type, n) ==
  \/ type = "uint8" /\ n \in 0 .. 255
  \/ type \in {"uint16", "ascii_or_uint16", "unknown"} /\ n \in Word
  \/ type = "sint16" /\ n \in -Half .. Half - 1
  \/ type = "uint32" /\ n \in 0 .. Wide * Wide - 1
  \/ type = "sint32" /\ n \in -(Wide * Half) .. Wide * Half - 1

High(n) == (n \div Wide) % Wide
Low(n) == n % Wide

(* Whether a setter accepts an item, and the words it sends for it.        *)
Accepted(r, item) ==
  CASE item.kind = "bool" -> r.type \in {"uint8", "uint16", "unknown"}
    [] item.kind = "text" -> r.type \in Text /\ Len(item.value) \in 1 .. 2
    [] OTHER -> Fits(r.type, Steps(r, item.value))

Encoded(r, item) ==
  CASE item.kind = "bool" -> <<IF item.value THEN 1 ELSE 0>>
    [] item.kind = "text" -> <<item.value[1] * 256 + (IF Len(item.value) = 2 THEN item.value[2] ELSE 0)>>
    [] OTHER -> LET n == Steps(r, item.value)
                IN  IF r.type \in TwoWords THEN <<High(n), Low(n)>> ELSE <<Low(n)>>

(* handle_command: the words a named request is made for.                  *)
RegisterCount(r) == IF r.type \in TwoWords THEN 2 ELSE 1
-----------------------------------------------------------------------------
(*                       decode_numeric_value                              *)

Signed(n, half) == IF n >= half THEN n - 2 * half ELSE n

(* The number published for the words of a register with a numeric type.   *)
Decoded(type, words) ==
  CASE type = "uint8" -> words[1] % 256
    [] type = "uint16" -> words[1]
    [] type = "sint16" -> Signed(words[1], Half)
    [] type = "uint32" -> words[1] * Wide + words[2]
    [] OTHER -> Signed(words[1] * Wide + words[2], Wide * Half)

(* The bounds of the ranges, which the provers take better than the ranges *)
(* themselves.                                                             *)
LEMMA Bounds ==
  /\ MaxWord = 65535 /\ Wide = 65536 /\ Half = 32768
  /\ \A n : n \in Word <=> n \in Int /\ 0 <= n /\ n <= MaxWord
<1>1. MaxWord = 65535 /\ Wide = 65536 /\ Half = 32768
  BY DEF MaxWord, Wide, Half
<1>2. MaxWord \in Int
  BY <1>1
<1>3. \A n : n \in Word <=> n \in Int /\ 0 <= n /\ n <= MaxWord
  BY <1>2 DEF Word
<1> QED
  BY <1>1, <1>3

(* Any integer is cut into two words, which together are its last 32 bits. *)
LEMMA WordsOfNumber ==
  ASSUME NEW n \in Int
  PROVE  /\ High(n) \in Word /\ Low(n) \in Word
         /\ 0 <= n /\ n < Wide * Wide => High(n) * Wide + Low(n) = n
         /\ -(Wide * Wide) <= n /\ n < 0 => High(n) * Wide + Low(n) = n + Wide * Wide
<1> DEFINE q == n \div 65536
           m == n % 65536
<1>1. q \in Int /\ m \in Int /\ 0 <= m /\ m < 65536 /\ n = 65536 * q + m
  OBVIOUS
<1>2. q % 65536 \in Int /\ 0 <= q % 65536 /\ q % 65536 < 65536
  BY <1>1
<1>3. 0 <= n /\ n < 65536 * 65536 => 0 <= q /\ q < 65536
  BY <1>1
<1>4. -(65536 * 65536) <= n /\ n < 0 => 0 <= q + 65536 /\ q + 65536 < 65536
  BY <1>1
<1>5. 0 <= q /\ q < 65536 => q % 65536 = q
  BY <1>1
<1>6. 0 <= q + 65536 /\ q + 65536 < 65536 => q % 65536 = q + 65536
  BY <1>1
<1>7. High(n) = q % 65536 /\ Low(n) = m
  BY Bounds DEF High, Low
<1> HIDE DEF q, m
<1>8. High(n) \in Word /\ Low(n) \in Word
  BY <1>1, <1>2, <1>7, Bounds
<1>9. /\ 0 <= n /\ n < 65536 * 65536 => (q % 65536) * 65536 + m = n
      /\ -(65536 * 65536) <= n /\ n < 0 => (q % 65536) * 65536 + m = n + 65536 * 65536
  BY <1>1, <1>3, <1>4, <1>5, <1>6
<1> QED
  BY <1>7, <1>8, <1>9, Bounds

(* The words of a setter are those of the registers it addresses: whatever *)
(* is accepted is a register value, one per register.                      *)
THEOREM AcceptedFitsItsRegisters ==
  ASSUME NEW r \in Register, NEW item \in Item, Accepted(r, item)
  PROVE  /\ Len(Encoded(r, item)) = RegisterCount(r)
         /\ \A i \in 1 .. RegisterCount(r) : Encoded(r, item)[i] \in Word
<1>1. CASE item.kind = "bool"
  <2>1. r.type \notin TwoWords
    BY <1>1 DEF Accepted, TwoWords
  <2>2. Encoded(r, item) = <<IF item.value THEN 1 ELSE 0>>
    BY <1>1 DEF Encoded
  <2>3. item.value \in BOOLEAN
    BY <1>1 DEF Item
  <2>4. (IF item.value THEN 1 ELSE 0) \in Word
    BY <2>3, Bounds
  <2> QED
    BY <2>1, <2>2, <2>4 DEF RegisterCount
<1>2. CASE item.kind = "text"
  <2>1. r.type \notin TwoWords /\ Len(item.value) \in 1 .. 2
    BY <1>2 DEF Accepted, Text, TwoWords
  <2>2. item.value \in Seq(1 .. 255)
    BY <1>2 DEF Item, Character
  <2>3. /\ item.value[1] \in 1 .. 255
        /\ Len(item.value) = 2 => item.value[2] \in 1 .. 255
    <3> DEFINE s == item.value
    <3>1. s \in Seq(1 .. 255) /\ Len(s) \in 1 .. 2
      BY <2>1, <2>2
    <3> HIDE DEF s
    <3>2. s[1] \in 1 .. 255 /\ (Len(s) = 2 => s[2] \in 1 .. 255)
      <4> DEFINE C == 1 .. 255
      <4>1. s \in Seq(C)
        BY <3>1
      <4> HIDE DEF C
      <4>2. s[1] \in C /\ (Len(s) = 2 => s[2] \in C)
        BY <3>1, <4>1
      <4> QED
        BY <4>2 DEF C
    <3> QED
      BY <3>2 DEF s
  <2> DEFINE w == item.value[1] * 256 + (IF Len(item.value) = 2 THEN item.value[2] ELSE 0)
  <2>4. w \in Word
    <3> DEFINE x == item.value[1]
               y == item.value[2]
               both == Len(item.value) = 2
    <3>1. x \in 1 .. 255 /\ (both => y \in 1 .. 255)
      BY <2>3
    <3> HIDE DEF x, y, both
    <3>2. x * 256 + (IF both THEN y ELSE 0) \in Word
      BY <3>1, Bounds
    <3> QED
      BY <3>2 DEF x, y, both
  <2>5. Encoded(r, item) = <<w>>
    BY <1>2 DEF Encoded
  <2> QED
    BY <2>1, <2>4, <2>5 DEF RegisterCount
<1>3. CASE item.kind = "number"
  <2> DEFINE n == Steps(r, item.value)
  <2>1. item.value \in Int
    BY <1>3 DEF Item
  <2>2. n \in Int
    BY <2>1 DEF Steps
  <2>3. High(n) \in Word /\ Low(n) \in Word
    BY <2>2, WordsOfNumber
  <2>4. Encoded(r, item) = IF r.type \in TwoWords THEN <<High(n), Low(n)>> ELSE <<Low(n)>>
    BY <1>3 DEF Encoded
  <2> QED
    BY <2>3, <2>4 DEF RegisterCount
<1> QED
  BY <1>1, <1>2, <1>3 DEF Item

(* A number a setter accepts is the number that is published when the      *)
(* register then holds the words that were sent, negative numbers and the  *)
(* edges of every type included; of the year, the century is lost.         *)
THEOREM AcceptedNumberComesBack ==
  ASSUME NEW r \in Register, r.type \in Numeric,
         NEW item \in [kind : {"number"}, value : Int], Accepted(r, item)
  PROVE  Decoded(r.type, Encoded(r, item)) = Steps(r, item.value)
<1> DEFINE n == Steps(r, item.value)
<1>1. n \in Int
  BY DEF Steps
<1>2. Fits(r.type, n)
  BY DEF Accepted
<1>3. Encoded(r, item) = IF r.type \in TwoWords THEN <<High(n), Low(n)>> ELSE <<Low(n)>>
  BY DEF Encoded
<1> HIDE DEF n
<1>4. CASE r.type = "uint8"
  <2>1. Decoded(r.type, Encoded(r, item)) = Low(n) % 256
    BY <1>3, <1>4 DEF Decoded, TwoWords
  <2>2. n \in 0 .. 255
    BY <1>2, <1>4 DEF Fits
  <2>3. (n % 65536) % 256 = n
    BY <2>2
  <2>4. Low(n) = n % 65536
    BY Bounds DEF Low
  <2> QED
    BY <2>1, <2>3, <2>4 DEF n
<1>5. CASE r.type = "uint16"
  <2>1. Decoded(r.type, Encoded(r, item)) = Low(n)
    BY <1>3, <1>5 DEF Decoded, TwoWords
  <2>2. 0 <= n /\ n < 65536
    <3>1. n \in Word
      BY <1>2, <1>5 DEF Fits
    <3> QED
      BY <3>1, Bounds
  <2>3. n % 65536 = n
    BY <1>1, <2>2
  <2>4. Low(n) = n % 65536
    BY Bounds DEF Low
  <2> QED
    BY <2>1, <2>3, <2>4 DEF n
<1>6. CASE r.type = "sint16"
  <2>1. Decoded(r.type, Encoded(r, item)) = Signed(Low(n), Half)
    BY <1>3, <1>6 DEF Decoded, TwoWords
  <2>2. -32768 <= n /\ n < 32768
    <3>1. n \in -Half .. Half - 1
      BY <1>2, <1>6 DEF Fits
    <3>2. Half \in Int => -Half <= n /\ n <= Half - 1
      BY <1>1, <3>1
    <3> QED
      BY <1>1, <3>2, Bounds
  <2>3. n % 65536 = IF n < 0 THEN n + 65536 ELSE n
    BY <1>1, <2>2
  <2>4. Signed(n % 65536, 32768) = n
    BY <1>1, <2>2, <2>3 DEF Signed
  <2>5. Low(n) = n % 65536 /\ Half = 32768
    BY Bounds DEF Low
  <2> QED
    BY <2>1, <2>4, <2>5 DEF n
<1>7. CASE r.type = "uint32"
  <2>1. Decoded(r.type, Encoded(r, item)) = High(n) * Wide + Low(n)
    BY <1>3, <1>7 DEF Decoded, TwoWords
  <2>2. 0 <= n /\ n < Wide * Wide
    <3> DEFINE w == Wide * Wide
    <3>1. n \in 0 .. w - 1
      BY <1>2, <1>7 DEF Fits
    <3>2. w \in Int
      BY Bounds
    <3> HIDE DEF w
    <3>3. 0 <= n /\ n < w
      BY <1>1, <3>1, <3>2
    <3> QED
      BY <3>3 DEF w
  <2> QED
    BY <1>1, <2>1, <2>2, WordsOfNumber DEF n
<1>8. CASE r.type = "sint32"
  <2>1. Decoded(r.type, Encoded(r, item)) = Signed(High(n) * Wide + Low(n), Wide * Half)
    BY <1>3, <1>8 DEF Decoded, TwoWords
  <2>2. -(Wide * Half) <= n /\ n < Wide * Half
    <3> DEFINE w == Wide * Half
    <3>1. n \in -w .. w - 1
      BY <1>2, <1>8 DEF Fits
    <3>2. w \in Int
      BY Bounds
    <3> HIDE DEF w
    <3>3. -w <= n /\ n < w
      BY <1>1, <3>1, <3>2
    <3> QED
      BY <3>3 DEF w
  <2>3. High(n) * Wide + Low(n) = IF n < 0 THEN n + Wide * Wide ELSE n
    <3>1. /\ 0 <= n => n < Wide * Wide
          /\ n < 0 => -(Wide * Wide) <= n
      BY <1>1, <2>2, Bounds
    <3> QED
      BY <1>1, <3>1, WordsOfNumber
  <2>4. Signed(High(n) * Wide + Low(n), Wide * Half) = n
    BY <1>1, <2>2, <2>3, Bounds DEF Signed
  <2> QED
    BY <2>1, <2>4 DEF n
<1> QED
  BY <1>4, <1>5, <1>6, <1>7, <1>8 DEF Numeric, TwoWords
-----------------------------------------------------------------------------
(*                       ProductionPoller::emit                            *)

Capacity == 40  \* registers of a TelemetryMessage

AtMost(a, b) == IF a < b THEN a ELSE b

(* The message cut from a block of "count" registers that begins at        *)
(* "first", when "offset" of them are sent; "starts" holds the addresses   *)
(* of first words of a value of two words.                                 *)
MessageSize(starts, first, count, offset) ==
  LET size == AtMost(count - offset, Capacity)
  IN  IF offset + size < count /\ size > 1 /\ first + offset + size - 1 \in starts
      THEN size - 1 ELSE size

(* Every message carries something, fits, and stays within its block: emit *)
(* ends, with every register sent once.                                    *)
THEOREM MessageFits ==
  ASSUME NEW starts \in SUBSET Nat, NEW first \in Nat, NEW count \in Nat,
         NEW offset \in Nat, offset < count
  PROVE  /\ MessageSize(starts, first, count, offset) \in 1 .. Capacity
         /\ offset + MessageSize(starts, first, count, offset) <= count
BY DEF MessageSize, AtMost, Capacity

(* No message but the last of its block ends with the first word of a      *)
(* value, so that no value is published from the halves of two polls.      *)
(* The word behind a first word is a low word, never a first word.         *)
THEOREM NoValueIsCut ==
  ASSUME NEW starts \in SUBSET Nat, \A a \in starts : a + 1 \notin starts,
         NEW first \in Nat, NEW count \in Nat, NEW offset \in Nat,
         offset + MessageSize(starts, first, count, offset) < count
  PROVE  first + offset + MessageSize(starts, first, count, offset) - 1 \notin starts
<1> DEFINE size == AtMost(count - offset, Capacity)
           last == first + offset + size - 1
           sent == MessageSize(starts, first, count, offset)
<1>1. /\ size \in Int /\ first + offset + size - 1 \in Int
      /\ offset + size < count => size > 1
  BY DEF AtMost, Capacity
<1>2. last \in Int /\ first + offset + (size - 1) - 1 = last - 1 /\ (last - 1) + 1 = last
  BY <1>1
<1>3. sent = IF offset + size < count /\ size > 1 /\ last \in starts THEN size - 1 ELSE size
  BY DEF MessageSize
<1>4. sent = size - 1 => offset + size < count /\ last \in starts
  BY <1>1, <1>3
<1> HIDE DEF size
<1>5. CASE offset + size < count /\ last \in starts
  <2>1. sent = size - 1
    BY <1>1, <1>3, <1>5
  <2> HIDE DEF sent
  <2>2. last - 1 \notin starts
    BY <1>2, <1>5, Zenon
  <2> QED
    BY <1>2, <2>1, <2>2, Zenon DEF sent
<1>6. CASE ~(offset + size < count /\ last \in starts)
  <2>1. sent = size
    BY <1>3, <1>6
  <2>2. last \notin starts
    BY <1>6, <2>1
  <2> QED
    BY <2>1, <2>2
<1> QED
  BY <1>5, <1>6
-----------------------------------------------------------------------------
(*                      MqttBridge::publish_live                           *)

InputPoints == 499
Input == 0 .. InputPoints - 1

(* The cache behind the live document is never emptied and takes whatever  *)
(* messages arrive.  Here it has, instead of the word of an address, the   *)
(* reading that word comes from, 0 if it has not been seen.                *)
Cache == [Input -> Nat]
Merged(cache, first, size, reading) ==
  [a \in Input |-> IF a \in first .. first + size - 1 THEN reading ELSE cache[a]]

(* Both words of a value are of the same reading, or none has been seen.   *)
Whole(starts, cache) == \A a \in starts : a + 1 \in Input => cache[a] = cache[a + 1]

(* An address at which a value, not only its second half, begins.          *)
BeginsValue(starts, address) == \A a \in starts : address # a + 1

(* Each message of a block that begins and ends between values keeps the   *)
(* cache whole and leaves the next message to begin between values.  Any   *)
(* of them may be lost on the way: a published number is never made of the *)
(* halves of two readings.                                                 *)
THEOREM CacheKeepsValuesWhole ==
  ASSUME NEW starts \in SUBSET Nat, \A a \in starts : a + 1 \notin starts,
         NEW first \in Nat, NEW count \in Nat, NEW offset \in Nat, offset < count,
         BeginsValue(starts, first + offset), BeginsValue(starts, first + count),
         NEW cache \in Cache, Whole(starts, cache), NEW reading \in Nat
  PROVE  LET size == MessageSize(starts, first, count, offset)
         IN  /\ Whole(starts, Merged(cache, first + offset, size, reading))
             /\ BeginsValue(starts, first + offset + size)
<1> DEFINE size == MessageSize(starts, first, count, offset)
           merged == Merged(cache, first + offset, size, reading)
<1>1. size \in 1 .. Capacity /\ offset + size <= count
  BY MessageFits
<1>2. size \in Nat \ {0}
  BY <1>1 DEF Capacity
<1>3. BeginsValue(starts, first + offset + size)
  <2>1. CASE offset + size < count
    <3>1. first + offset + size - 1 \notin starts
      BY <2>1, NoValueIsCut, Zenon
    <3> QED
      BY <1>2, <3>1 DEF BeginsValue
  <2>2. CASE offset + size = count
    <3>1. first + offset + size = first + count
      BY <1>2, <2>2
    <3> QED
      BY <3>1
  <2> QED
    BY <1>1, <1>2, <2>1, <2>2
<1> HIDE DEF size
<1>4. ASSUME NEW a \in starts, a + 1 \in Input
      PROVE  merged[a] = merged[a + 1]
  <2>1. a \in Nat /\ a \in Input
    BY <1>4 DEF Input, InputPoints
  <2>2. a # first + offset - 1 /\ a # first + offset + size - 1
    BY <1>2, <1>3, <1>4 DEF BeginsValue
  <2>3. a \in first + offset .. first + offset + size - 1
          <=> a + 1 \in first + offset .. first + offset + size - 1
    BY <1>2, <2>1, <2>2
  <2>4. cache[a] = cache[a + 1]
    BY <1>4 DEF Whole
  <2> QED
    BY <1>4, <2>1, <2>3, <2>4 DEF Merged
<1>5. Whole(starts, merged)
  BY <1>4 DEF Whole
<1> QED
  BY <1>3, <1>5 DEF size
=============================================================================
