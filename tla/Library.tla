------------------------------- MODULE Library -------------------------------
(***************************************************************************)
(* The library functions and system calls that chapters 5 and 6 emulate:   *)
(* my_strtol, my_writev and my_readv, my_rresvport for TCP and UDP,        *)
(* my_strcmp and my_strlcpy, and the conversions of iptohex.  A behaviour  *)
(* is one call.  A character is its ASCII code, a string the characters    *)
(* before its null character; a long has LongBits bits.                    *)
(***************************************************************************)
EXTENDS Integers, Sequences, FiniteSets, SequencesExt

CONSTANTS
  Calls,        \* the calls that are made, each a record of function and arguments
  LongBits,     \* bound: the width of a long
  Low, High     \* bound: the reserved ports, 512 and 1024

ASSUME LibraryAssumption ==
  /\ LongBits \in Nat /\ LongBits >= 8
  /\ Low \in Nat \ {0} /\ High \in Nat /\ Low < High

VARIABLES call, result

libVars == <<call, result>>

LibraryInit == call \in Calls /\ result = <<>>

-----------------------------------------------------------------------------
(* my_strtol *)

IsAlpha(c) == c \in 65 .. 90 \cup 97 .. 122
ToLower(c) == IF c \in 65 .. 90 THEN c + 32 ELSE c
IsDigit(c) == c \in 48 .. 57

Space == 32
Plus == 43
Minus == 45
Zero == 48
X == {88, 120}

\* The value a long has after an operation with the result n.
Long(n) == ((n + 2^(LongBits - 1)) % 2^LongBits) - 2^(LongBits - 1)

Upto(s, n) == SubSeq(s, 1, n)
Rest(s, n) == SubSeq(s, n + 1, Len(s))

\* The number of leading characters of s that are in chars.
Leading(s, chars) ==
  CHOOSE n \in 0 .. Len(s) :
    /\ \A j \in 1 .. n : s[j] \in chars
    /\ n < Len(s) => s[n + 1] \notin chars

Unspaced(str) == Rest(str, Leading(str, {Space}))
Sign(str) == IF str # <<>> /\ Head(str) \in {Plus, Minus} THEN <<Head(str)>> ELSE <<>>

StartsHex(s) == Len(s) >= 2 /\ s[1] = Zero /\ s[2] \in X
StartsWith(s, chars) == s # <<>> /\ Head(s) \in chars

\* The base, and how many characters its prefix has; base -1 where errno is EINVAL.  In base
\* 8 and 0 a leading zero is a prefix.
Based(s, base) ==
  CASE base = 8 -> [base |-> 8, skip |-> IF StartsWith(s, {Zero}) THEN 1 ELSE 0]
    [] base = 16 -> [base |-> 16, skip |-> IF StartsHex(s) THEN 2 ELSE 0]
    [] base = 0 /\ StartsHex(s) -> [base |-> 16, skip |-> 2]
    [] base = 0 /\ StartsWith(s, {Zero}) /\ ~StartsHex(s) -> [base |-> 8, skip |-> 1]
    [] base = 0 /\ StartsWith(s, 49 .. 57) -> [base |-> 10, skip |-> 0]
    [] base = 2 /\ ~StartsWith(s, {48, 49}) -> [base |-> -1, skip |-> 0]
    [] base \in 2 .. 36 \ {8, 16} /\ (base = 2 => StartsWith(s, {48, 49})) ->
         [base |-> base, skip |-> 0]
    [] OTHER -> [base |-> -1, skip |-> 0]


\* Up to the first character that is not valid.  What is no letter is not looked at in a
\* base above 10, and may be any character below '0' in the others.
ValidLength(s, base) ==
  Leading(s, {c \in 1 .. 127 : IF base > 10 THEN ~(IsAlpha(c) /\ ToLower(c) - 97 >= base - 10)
                               ELSE ~IsAlpha(c) /\ c - Zero =< base - 1})

power(number, exponent) ==
  FoldLeft(LAMBDA res, k : Long(res * number), 1, [k \in 1 .. exponent |-> k])

Digit(c) == IF IsAlpha(c) THEN ToLower(c) - 97 + 10 ELSE c - Zero

\* One digit more to the left: the sum wraps, and when it has become smaller, or for a
\* minus greater, the function returns 0 and ERANGE.
AddDigit(r, base, minus, c) ==
  IF r.errno = "ERANGE" THEN r
  ELSE LET term == Long(power(base, r.exponent) * Digit(c))
           sum == Long(IF minus THEN r.value - term ELSE r.value + term)
           wrapped == IF minus THEN sum > r.value ELSE sum < r.value IN
       [value |-> IF wrapped THEN 0 ELSE sum,
        errno |-> IF wrapped THEN "ERANGE" ELSE "0",
        exponent |-> r.exponent + 1]

\* endptr counts the characters of str before it; it is Unset where *endptr is not assigned.
Unset == -1

\* When all characters are valid *endptr is not set: **endptr = '\0' cuts off what the caller
\* had there (286).  A base out of range leaves both as they are.
Strtol(str, base) ==
  LET subject == Unspaced(str)
      s == Rest(subject, Len(Sign(subject)))
      b == Based(s, base)
      digits == Rest(s, b.skip)
      n == ValidLength(digits, b.base)
      start == Len(str) - Len(digits)
      all == n = Len(digits)
      sum == FoldLeft(LAMBDA r, c : AddDigit(r, b.base, Sign(subject) = <<Minus>>, c),
                      [value |-> 0, errno |-> "0", exponent |-> 0], Reverse(Upto(digits, n)))
      Invalid(endptr) == [value |-> 0, errno |-> "EINVAL", endptr |-> endptr, cut |-> FALSE]
  IN  IF base \notin {0} \cup 2 .. 36 THEN Invalid(Unset)
      ELSE IF b.base = -1 \/ n = 0 THEN Invalid(start)
      ELSE [value |-> sum.value, errno |-> sum.errno,
            endptr |-> IF all THEN Unset ELSE start + n, cut |-> all]

\* What main finds at endptr and takes for the characters that are not read (84-87).
Unread(str, r) == IF r.cut THEN <<>> ELSE Rest(str, r.endptr)

-----------------------------------------------------------------------------
(* my_writev and my_readv *)

Sum(s) == FoldLeft(LAMBDA x, y : x + y, 0, s)

\* All buffers in one write, which takes n bytes, or fails and returns -1: unless it takes all,
\* the process exits.
Writev(buffers, n) ==
  LET bytes == FlattenSeq(buffers) IN [exits |-> n # Len(bytes), wrote |-> Upto(bytes, n)]

SizeOf == 4   \* sizeof(total_buffer_size), an unsigned int
LineFeed == 10

\* A read of at most n bytes to read_seek, or of an error if n is -1.  read_ret is unsigned:
\* -1 is not found less than 0 (41), it moves read_seek back by one and leaves one more to be
\* read.  Before the buffer, at its address plus 2^32 - 1, read finds no memory and fails.
ReadPiece(r, n) ==
  LET got == Min({n, r.left, Len(r.bytes)}) IN
  IF r.outcome # "reads" THEN r
  ELSE IF n = -1 \/ r.seek < 0 THEN [r EXCEPT !.seek = @ - 1, !.left = @ + 1]
  ELSE IF got = 0 /\ r.left > 0 THEN [r EXCEPT !.outcome = "exits"]
  ELSE [buff |-> Upto(r.buff, r.seek) \o Upto(r.bytes, got), bytes |-> Rest(r.bytes, got),
        seek |-> r.seek + got, left |-> r.left - got,
        outcome |-> IF r.left = got THEN "full" ELSE "reads"]

\* What becomes of the bytes in a buffer of malloc(sizeof(total_buffer_size)): beyond SizeOf
\* anything, if the process gets that far.
Heaps(total) == IF total =< SizeOf THEN {"intact"} ELSE {"intact", "overwritten", "aborts"}

\* read is called until read_left is 0.  Then the rest of the line is dropped if fd is 0, for
\* ever if there is no newline, and the bytes are scattered over buffers of the given lengths.
Readv(fd, lengths, bytes, pieces, heap) ==
  LET r == FoldLeft(ReadPiece, [buff |-> <<>>, bytes |-> bytes, seek |-> 0,
                                left |-> Sum(lengths), outcome |-> "reads"], pieces)
      buff == [k \in DOMAIN r.buff |-> IF heap = "intact" \/ k =< SizeOf THEN r.buff[k] ELSE 0]
      outcome == IF r.outcome # "full" THEN r.outcome
                 ELSE IF heap = "aborts" THEN "aborts"
                 ELSE IF fd = 0 /\ LineFeed \notin ToSet(r.bytes) THEN "loops"
                 ELSE "returns"
  IN  [outcome |-> outcome,
       buffers |-> IF outcome # "returns" THEN <<>> ELSE [k \in DOMAIN lengths |->
         LET seek == Sum(Upto(lengths, k - 1)) IN SubSeq(buff, seek + 1, seek + lengths[k])]]

-----------------------------------------------------------------------------
(* my_rresvport, my_rresvport_udp and their main *)

\* bind is tried from crport downwards, until an error other than EADDRINUSE; aport is the
\* caller's variable afterwards.  A process that is granted only unreserved ports gets EACCES
\* below IPPORT_RESERVED, which is High.
Bind(crport, taken, granted) ==
  LET try[p \in Low - 1 .. High] ==
        IF p < Low THEN [sockfd |-> "-1", errno |-> "EAGAIN", aport |-> p]
        ELSE IF p < High /\ granted = "unreserved"
             THEN [sockfd |-> "-1", errno |-> "EACCES", aport |-> p]
        ELSE IF p \in taken THEN try[p - 1]
        ELSE [sockfd |-> "bound", errno |-> "0", aport |-> p]
  IN  try[crport]

\* Outside of the reserved ports errno is not set; socket fails for whom nothing is granted.
Rresvport(crport, taken, granted) ==
  IF crport > High \/ crport < Low THEN [sockfd |-> "-1", errno |-> "0", aport |-> crport]
  ELSE IF granted = "nothing" THEN [sockfd |-> "-1", errno |-> "EMFILE", aport |-> crport]
  ELSE Bind(crport, {x[2] : x \in {y \in taken : y[1] = "t"}}, granted)

RresvportUdp(crport, taken, granted) ==
  IF crport > High \/ crport < Low THEN [sockfd |-> "-1", errno |-> "0", aport |-> crport]
  ELSE IF granted = "nothing" THEN [sockfd |-> "-1", errno |-> "EMFILE", aport |-> crport]
  ELSE Bind(crport, {x[2] : x \in {y \in taken : y[1] = "u"}}, granted)

\* main keeps the socket in an endless loop; without one it exits, and without errno it exits
\* with success.
RresvMain(tloption, crport, taken, granted) ==
  LET r == IF tloption = "t" THEN Rresvport(crport, taken, granted)
           ELSE RresvportUdp(crport, taken, granted) IN
  [aport |-> r.aport, errno |-> r.errno,
   returns |-> IF r.sockfd = "bound" THEN "loops"
               ELSE IF r.errno # "0" THEN "EXIT_FAILURE" ELSE "EXIT_SUCCESS"]

-----------------------------------------------------------------------------
(* my_strcmp, my_strlcpy and iptohex *)

CharAt(s, k) == IF k =< Len(s) THEN s[k] ELSE 0

\* The difference of the first characters that differ.
Strcmp(s, t) ==
  LET same == Leading([k \in 1 .. Len(s) |-> s[k] = CharAt(t, k)], {TRUE}) IN
  CharAt(s, same + 1) - CharAt(t, same + 1)

\* The characters written to d, the null character last, at index d_len at most: in a buffer
\* of d_len bytes it is one too far.
Strlcpy(s, d_len) ==
  LET d == FoldLeft(LAMBDA r, c : IF Len(r) < d_len THEN Append(r, c) ELSE r, <<>>, s) IN
  [returns |-> Len(d), d |-> Append(d, 0)]

\* The number whose decimal digits are the bits of k.
IntToInt(k) ==
  LET f[n \in 0 .. k] == IF n \in {0, 1} THEN n ELSE (n % 2) + 10 * f[n \div 2] IN f[k]

\* Byte n of a word, 0 the least significant, of a word with bytes of 2 bits for 8.
ByteOf(w, n) == (w \div 4^n) % 4

\* Shifts by three bytes and by one, either way, each masked to the byte it moves.
Htobe32(w) ==
  ByteOf(w, 3) + 4^2 * ByteOf(w, 1) + 4 * ByteOf(w, 2) + 4^3 * ByteOf(w, 0)

\* A number above 255 ends the program; else it prints all bits.
IpToHex(numbers) ==
  IF \E k \in DOMAIN numbers : numbers[k] > 255 THEN <<>>
  ELSE [k \in DOMAIN numbers |-> IntToInt(numbers[k])]

-----------------------------------------------------------------------------
\* The call returns once.
Returns(r) == result' = <<r>> /\ UNCHANGED call

Calling(function) == result = <<>> /\ call.function = function

CallStrtol == Calling("strtol") /\ Returns(Strtol(call.str, call.base))
CallReadv ==
  LET lengths == [k \in DOMAIN call.buffers |-> Len(call.buffers[k])]
      w == Writev(call.buffers, call.written) IN
  /\ Calling("readv")
  /\ \E heap \in Heaps(Sum(lengths)) :
       Returns(Readv(call.fd, lengths, w.wrote \o call.after, call.pieces, heap)
               @@ [writer |-> w.exits])
CallRresvport == Calling("rresvport")
  /\ Returns(RresvMain(call.tloption, call.port, call.taken, call.granted))
CallStrcmp == Calling("strcmp") /\ Returns(Strcmp(call.s, call.t))
CallStrlcpy == Calling("strlcpy") /\ Returns(Strlcpy(call.s, call.d_len))
CallHtobe32 == Calling("htobe32") /\ Returns(Htobe32(call.word))
CallIpToHex == Calling("iptohex") /\ Returns(IpToHex(call.numbers))

LibraryNext == CallStrtol \/ CallReadv \/ CallRresvport \/ CallStrcmp \/ CallStrlcpy
               \/ CallHtobe32 \/ CallIpToHex

LibrarySpec == LibraryInit /\ [][LibraryNext]_libVars

-----------------------------------------------------------------------------
(* What the originals do, and where the emulations differ *)

\* strtol (3) as strtol.c quotes it (5-31): whether there is a number, its value however large,
\* and the characters from the first on that is not a digit of the base.
Manual(str, base) ==
  LET subject == Unspaced(str)
      s == Rest(subject, Len(Sign(subject)))
      b == IF base # 0 THEN base
           ELSE IF StartsHex(s) THEN 16 ELSE IF StartsWith(s, {Zero}) THEN 8 ELSE 10
      digits == {c \in 1 .. 127 : (IsDigit(c) \/ IsAlpha(c)) /\ Digit(c) < b}
      number == IF b = 16 /\ StartsHex(s) /\ StartsWith(Rest(s, 2), digits)
                THEN Rest(s, 2) ELSE s
      n == Leading(number, digits)
      size == FoldLeft(LAMBDA v, c : b * v + Digit(c), 0, Upto(number, n))
      Prefix == IF b = 16 /\ StartsHex(s) THEN 2
                ELSE IF b = 8 /\ StartsWith(s, {Zero}) THEN 1 ELSE 0
      behind == Rest(s, Prefix)
      m == Leading(behind, digits)
  IN  [converts |-> n > 0, rest |-> Rest(number, n),
       value |-> IF Sign(subject) = <<Minus>> THEN -size ELSE size,
       \* A prefix that no digit follows, which is the number 0.
       bare |-> Prefix > 0 /\ m = 0,
       \* No blank, sign or prefix.
       plain |-> behind = str,
       \* A character that ends the number, is neither letter nor digit, and that my_strtol
       \* takes for a digit: what its comment (122-127) says of the first invalid character
       \* is true of letters, of digits too large, and up to base 10 of what is above '9'.
       stray |-> /\ m < Len(behind) /\ (b > 10 \/ behind[m + 1] < Zero)
                 /\ ~IsDigit(behind[m + 1]) /\ ~IsAlpha(behind[m + 1])
                 /\ m > 0 \/ base \notin {0, 2} \/ Prefix > 0]

\* my_strtol does what the manual says, with these differences.  It promises nothing after a
\* stray character.  A bare prefix is EINVAL (104-105, for base 0).  Without digits endptr is
\* the original str (20-21) only if there is no blank, sign or prefix.  What does not fit a
\* long is not clamped: it is 0 and ERANGE (143-145), or, where the sums do not show that they
\* have wrapped, a value modulo 2^LongBits; but no number that fits is taken for one that does
\* not.  The caller finds the characters that are not read, but not by *endptr if there are
\* none, contrary to 123: that stays as it was.
StrtolAgrees(str, base, r) ==
  LET m == Manual(str, base) IN
  IF base \notin {0} \cup 2 .. 36 THEN r.errno = "EINVAL" /\ r.value = 0
  ELSE m.stray \/
    IF ~m.converts \/ m.bare
    THEN r.errno = "EINVAL" /\ r.value = 0 /\ (r.endptr = 0 <=> m.plain)
    ELSE /\ Unread(str, r) = m.rest
         /\ r.endptr = Unset <=> m.rest = <<>>
         /\ \/ r.errno = "0" /\ r.value = Long(m.value)
            \/ r.errno = "ERANGE" /\ r.value = 0 /\ m.value # Long(m.value)

\* What writev gathers readv scatters, however the bytes arrive, and it never returns with
\* less, if no read fails: the error of a read is not seen (41).  That is so of buffers that
\* fit the SizeOf bytes of malloc, and not of the 20 bytes of the program's own main, of which
\* it is only so of the first SizeOf, if the process survives.  From descriptor 0 it returns
\* only if a newline follows.
ReadvAgrees(c, r) ==
  LET sent == FlattenSeq(c.buffers)
      bytes == Upto(sent, c.written) \o c.after
      total == Len(sent)
      safe == total =< SizeOf
      unread == Rest(bytes, total) IN
  (\A k \in DOMAIN c.pieces : c.pieces[k] # -1) =>
    /\ r.outcome = "returns" =>
         /\ total =< Len(bytes)
         /\ \A k \in DOMAIN c.buffers : Len(r.buffers[k]) = Len(c.buffers[k])
         /\ LET n == IF safe THEN total ELSE SizeOf IN
            Upto(FlattenSeq(r.buffers), n) = Upto(bytes, n)
         /\ ~r.writer /\ safe => r.buffers = c.buffers
    /\ safe /\ Sum(c.pieces) >= total /\ Len(bytes) >= total =>
         r.outcome = IF c.fd # 0 \/ LineFeed \in ToSet(unread) THEN "returns" ELSE "loops"

\* The highest port of its protocol that is free and granted, at crport or below (6-21);
\* EAGAIN if all are in use, and a failure if there is no such port.  For a number that is
\* no reserved port, for which the manual has no word, main gets no socket, and exits.
RresvportAgrees(c, r) ==
  LET ports == {p \in Low .. High : p =< c.port /\ <<c.tloption, p>> \notin c.taken}
      usable == CASE c.granted = "all" -> ports
                  [] c.granted = "unreserved" -> ports \cap {High}
                  [] c.granted = "nothing" -> {} IN
  IF c.port \notin Low .. High THEN r.returns # "loops"
  ELSE /\ r.errno = "EAGAIN" <=> c.granted = "all" /\ usable = {}
       /\ IF usable = {} THEN r.returns = "EXIT_FAILURE"
          ELSE r.returns = "loops" /\ r.aport = Max(usable)

\* The sign of the first difference.
StrcmpAgrees(s, t, r) ==
  LET n == CHOOSE k \in 1 .. Len(s) + 1 :
             /\ Upto(s, k - 1) = Upto(t, k - 1)
             /\ k = Len(s) + 1 \/ CharAt(s, k) # CharAt(t, k) IN
  /\ r = 0 <=> s = t
  /\ r < 0 <=> CharAt(s, n) < CharAt(t, n)

\* strlcpy: at most size - 1 characters and the null character; what it returns is the length
\* of the source.
OriginalStrlcpy(s, size) == [returns |-> Len(s), d |-> Append(Upto(s, Min({Len(s), size - 1})), 0)]

\* my_strlcpy writes what the original writes to a buffer of one byte more than d_len, and
\* returns the length of the source only if that fits.
StrlcpyAgrees(s, d_len, r) ==
  LET original == OriginalStrlcpy(s, d_len + 1) IN
  /\ r.d = original.d
  /\ r.returns = original.returns <=> Len(s) =< d_len

=============================================================================
