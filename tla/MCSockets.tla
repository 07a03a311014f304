------------------------------ MODULE MCSockets ------------------------------
(* Sockets for TLC. *)
EXTENDS Sockets

CONSTANTS newline, nul, quit, char1, char2, c1, c2

\* The connection oriented programs: two clients, of which the first ...
Both(x, y) == c1 :> x @@ c2 :> y
\* types the text that ends a session, and then, or by the other, a line;
QuitLine == Both(<<quit, newline>>, <<char1, newline>>)
\* types that text, and the other nothing;
QuitOnly == Both(<<quit, newline>>, <<>>)
\* types a line longer than the buffers;
LongLine == Both(<<char1, char2, char1, newline>>, <<newline>>)
\* types a line without a newline.
NoNewline == Both(<<char1>>, <<newline>>)

Case(p, typed, h) == [program |-> p, input |-> typed, header |-> h]

SomeCases ==
  {Case(p, QuitLine, "same") : p \in {"tcp", "spp", "tcp_daemon"}}
  \cup {Case(p, QuitOnly, "same") : p \in {"unix_stream", "syscalls", "send_recv", "inetd_echo",
                                        "inetd_discard"}}
  \cup {Case(p, LongLine, "same") : p \in {"tcp", "spp", "inetd_discard"}}
  \cup {Case("tcp", NoNewline, "same")}
  \cup {Case("syscalls", QuitOnly, h) : h \in {"version", "protocol"}}

\* The library: 0x, signs and blanks, digits inside and outside of the bases, and ':', which
\* is above '9'.
Chars == {32, 43, 45, 48, 49, 57, 58, 102, 103, 120, 122}
Strings(S, n) == UNION {[1 .. k -> S] : k \in 0 .. n}
Ports == {"t", "u"} \X (Low .. High)

\* Buffers that malloc's bytes hold, with every way to write and read them; one byte more;
\* and the two of ten bytes of the main of readv.
Ten(first) == [k \in 1 .. 10 |-> first + k]
ReadvOf(v, written, pieces) ==
  [function : {"readv"}, buffers : {v}, written : written, pieces : pieces, fd : {0, 3},
   after : {<<>>, <<LineFeed>>, <<5>>, <<5, LineFeed>>}]

ReadvCalls ==
  ReadvOf(<<<<1>>, <<2, 3>>>>, {-1, 1, 3}, Strings({-1, 1, 2, 3}, 4))
  \cup ReadvOf(<<<<>>, <<1, 2>>, <<3, 4>>>>, {-1, 3, 4}, Strings({-1, 1, 2, 4}, 4))
  \cup ReadvOf(<<<<1, 2>>, <<3, 4, 6>>>>, {4, 5}, Strings({-1, 2, 5}, 3))
  \cup ReadvOf(<<Ten(20), Ten(30)>>, {20}, {<<20>>, <<7, 20>>, <<10, 9, 1>>})

SomeCalls ==
  [function : {"strtol"}, str : Strings(Chars, 3), base : {-1, 0, 1, 2, 8, 10, 16, 36, 37}]
  \cup ReadvCalls
  \cup [function : {"rresvport"}, tloption : {"t", "u"}, port : Low - 1 .. High + 1,
         taken : SUBSET Ports, granted : {"all", "unreserved", "nothing"}]
  \cup [function : {"strcmp"}, s : Strings({1, 2}, 2), t : Strings({1, 2}, 2)]
  \cup [function : {"strlcpy"}, s : Strings({1, 2}, 3), d_len : 0 .. 3]
  \cup [function : {"htobe32"}, word : 0 .. 255]
  \cup [function : {"iptohex"}, numbers : [1 .. 4 -> {0, 1, 170, 255, 256}]]

\* mycat: no argument, files that can and cannot be opened, an empty one, and so many that
\* the descriptors do not suffice.
SomeArgvs == {<<>>, <<"f">>, <<"missing">>, <<"f", "missing", "f">>, <<"empty", "g", "f">>,
              <<"f", "f", "g", "f">>}
FileContents == "f" :> <<1, 2>> @@ "g" :> <<3>> @@ "empty" :> <<>> @@ "stdin" :> <<4>>
=============================================================================
