--------------------------- MODULE TransferProofs ---------------------------
(***************************************************************************)
(* Transfers keeps an invariant, TransferIInv, of which two properties     *)
(* follow: err_sys is for a bad name or a killed partner, and the client   *)
(* prints the reply from its beginning and in order; with Bounds, the      *)
(* types follow too, and that no buffer, stream or queue overflows.        *)
(*                                                                         *)
(*   Kinds      types, and where each party can be                         *)
(*   Opened     the ends of the streams that are open, Present the queues  *)
(*   OnStream   what has come of the name, NameSent when it has            *)
(*   Served     the server is in its part of the reply, Sent units on      *)
(*   Correct    the client has printed the beginning of the reply          *)
(*   Plain      what is in a stream without headers is what follows        *)
(*   Framed     so is the text behind each header, if there are headers    *)
(*   Queued     and that of each message, if there are queues              *)
(*   Justified  a party fails only for a reason, and the client ends       *)
(*              only after the server                                      *)
(*                                                                         *)
(* The lemmas take the actions one by one.                                 *)
(***************************************************************************)
EXTENDS Transfers, FiniteSetTheorems, FunctionTheorems, SequenceTheorems, TLAPS

client == at["client"]
server == at["server"]

\* The client has not sent the name; it has; the server has not got it; it has.
Early  == {"unborn", "main", "fork", "close", "opening", "ask", "send"}
Late   == {"receive", "data", "print", "wait", "done"}
Coming == {"unborn", "main", "close", "opening", "receive", "data"}
Serving == {"open", "file", "send", "send_message", "end", "exit", "done"}
Sends  == {"send", "send_message", "end"}
Lost   == {"error", "failed", "dead"}
Ending == {"exit", "done"} \cup Lost

\* Text, and text with the header of 6_stream_messages.
Unit == {File[k] : k \in DOMAIN File} \cup {Message[k] : k \in DOMAIN Message}
          \cup {Name[k] : k \in DOMAIN Name}
Any == Unit \cup Nat

Kinds ==
  /\ program \in S!StreamPrograms \cup Q!QueuePrograms
  /\ at \in [Parties -> Labels] /\ client \in Early \cup Late \cup Lost
  /\ server \in Coming \cup Serving \cup Lost
  /\ name \in {Name, <<>>} /\ target \in Targets /\ offset \in 0 .. Len(Contents)
  /\ buff \in [Parties -> Seq(Any)] /\ printed \in Seq(Any)
  /\ Streaming => /\ stream \in [S!Both -> Seq(Any)] /\ written \in [Parties -> Nat]
                  /\ DOMAIN mesg_len = Parties /\ PIPE_BUF \in PIPE_BUFs
                  /\ \A x \in Parties : at[x] = "data" => S!Header
  /\ ~Streaming => /\ queue \in [{1, 2} -> Seq([mesg_type : {1, 2}, text : Seq(Any)])]
                   /\ \A x \in Parties : at[x] # "data"

-----------------------------------------------------------------------------
(* main() *)

Talking == Labels \ (Over \cup {"unborn", "main", "fork", "opening"})

\* Both open the FIFOs together, and whoever talks has his ends open.
Opened == Streaming =>
  /\ \A x \in Parties : at[x] \in Talking => S!Kept(x) \subseteq ends
  /\ \A x \in Parties : at[x] = "opening" =>
       S!Named /\ S!EndsOf(x) \in {{}, {e \in S!Kept(x) : e[2] = 1}}
  /\ S!Named => \A x \in Parties :
       at[x] \in {"unborn", "main", "fork"} => S!EndsOf(x) = {}
  /\ S!Forks /\ client \in {"main", "fork"} => server = "unborn"
  /\ client = "fork" => S!Forks
  /\ server \notin {"unborn", "main", "opening", "dead"} =>
       client \notin {"unborn", "main", "fork", "opening"}
  /\ client \notin {"unborn", "main", "fork", "opening", "dead"} =>
       server \notin {"unborn", "main", "opening"}

\* The queues are there from the server's msgget until the client removes them.
Present == ~Streaming =>
  /\ client \notin {"main", "done"} \cup Lost => live = Q!Keys
  /\ server \notin {"main"} \cup Lost /\ client # "done" => live = Q!Keys

-----------------------------------------------------------------------------
(* The name *)

Asked == IF S!Header THEN <<Len(name)>> \o name ELSE name
Came == IF server = "data" THEN <<mesg_len["server"]>> \o stream[1] ELSE stream[1]

\* What has come of the name, while the server waits for it.
OnStream == Streaming =>
  /\ client # "send" /\ client \notin Lost => written["client"] = 0
  /\ server \in Coming =>
       /\ Len(Came) =< Len(Asked) /\ \A j \in 1 .. Len(Came) : Came[j] = Asked[j]
       /\ client \in Early \ {"send"} => Came = <<>>
       /\ client = "send" => /\ Len(Came) = written["client"]
                             /\ Asked # <<>> => Len(Came) < Len(Asked)
       /\ client \in Late => Len(Came) = Len(Asked)
       /\ Len(Asked) =< PIPE_BUF => Came = <<>> \/ Len(Came) = Len(Asked)
       /\ server = "data" => mesg_len["server"] # 0

NameSent ==
  /\ client = "send" => buff["client"] = name
  /\ server \in Serving => client \in Late \cup Lost

-----------------------------------------------------------------------------
(* The reply *)

Total == Len(Reply)

\* text is what the reply r has after its first k units.
Part(r, text, k) ==
  /\ k \in Nat /\ k + Len(text) =< Len(r)
  /\ \A j \in 1 .. Len(text) : text[j] = r[k + j]

\* What the server has sent before what it sends.
Sent == IF server = "file" THEN offset
        ELSE IF server = "send" THEN offset - Len(buff["server"])
        ELSE IF server \in {"end", "exit", "done"} THEN Total
        ELSE 0
Text == IF server = "end" THEN <<>> ELSE buff["server"]

Served ==
  /\ server \in Serving => name = Name
  /\ server = "open" => buff["server"] = name
  /\ server \in Coming \cup {"open"} => offset = 0
  /\ server = "file" => target # "absent"
  /\ server = "send" => target \in {"file", "empty"}
  /\ server = "send_message" => target = "absent"
  /\ server \in {"end", "exit", "done"} => target # "directory"
  /\ server \in Sends => Part(Reply, Text, Sent)
  /\ server \in {"send", "send_message"} => Text # <<>> /\ Len(Text) =< MAXBUFF
  /\ server = "send" => Len(Text) =< offset
  /\ server = "send_message" => Len(Text) = Total

\* What the client has printed, or is about to print.
Taken == Len(printed) + IF client = "print" THEN Len(buff["client"]) ELSE 0
Correct ==
  /\ Part(Reply, printed, 0)
  /\ client = "print" => Part(Reply, buff["client"], Len(printed))

Reading == Early \cup {"receive", "data", "print"}

\* On a stream without headers the next unit is the first.
Plain == Streaming /\ ~S!Header /\ client \in Reading =>
  /\ Part(Reply, stream[2], Taken)
  /\ server \notin Lost => Taken + Len(stream[2]) = Sent + written["server"]

\* How far the server is with a frame.
Splits == Streaming =>
  /\ server \notin Sends \cup Lost => written["server"] = 0
  /\ server \in Sends => written["server"] =< Len(Text)
  /\ server \in Sends /\ Len(Text) + 1 =< PIPE_BUF => written["server"] = 0

\* With headers: where the headers are, and what was sent before them.
Whole == IF client = "data" THEN <<mesg_len["client"]>> \o stream[2] ELSE stream[2]
Marks(r, n) == UNION {[D -> 0 .. Len(r)] : D \in SUBSET (1 .. n)}

Frames(r, V, mark) == \A k \in DOMAIN mark :
  /\ V[k] \in 0 .. MAXBUFF /\ mark[k] + V[k] =< Len(r)
  /\ \A j \in 1 .. V[k] : k + j =< Len(V) => V[k + j] = r[mark[k] + j]
  /\ k + V[k] < Len(V) =>
       k + V[k] + 1 \in DOMAIN mark /\ mark[k + V[k] + 1] = mark[k] + V[k]

\* The frames are all there, and the next unit is the header after sent units,
AllWhole(V, mark, taken, sent) ==
  /\ V = <<>> => taken = sent
  /\ \A k \in DOMAIN mark :
       k + V[k] =< Len(V) /\ (k + V[k] = Len(V) => mark[k] + V[k] = sent)

\* or the last, of len units, is the one with the header here.
Begun(V, mark, here, sent, len) ==
  /\ here \in DOMAIN mark /\ mark[here] = sent /\ V[here] = len
  /\ \A k \in DOMAIN mark : k = here \/ k + V[k] < here

\* w units of the frame have been written.
LastFrame(V, mark, w, taken, sent, len) ==
  /\ w = 0 => AllWhole(V, mark, taken, sent)
  /\ w > 0 => Begun(V, mark, Len(V) - w + 1, sent, len)

First(V, mark, taken) == V # <<>> => 1 \in DOMAIN mark /\ mark[1] = taken

Framed == Streaming /\ S!Header /\ client \in Reading =>
  /\ client = "data" => mesg_len["client"] # 0
  /\ \E mark \in Marks(Reply, Len(Whole)) :
       /\ Frames(Reply, Whole, mark) /\ First(Whole, mark, Taken)
       /\ server \notin Lost =>
            LastFrame(Whole, mark, written["server"], Taken, Sent, Len(Text))
       /\ server \notin Ending => \A k \in DOMAIN mark : Whole[k] # 0
       /\ MAXBUFF + 1 =< PIPE_BUF => \A k \in DOMAIN mark : k + Whole[k] =< Len(Whole)

\* In a queue the messages from the server follow each other.
Replies == queue[Q!QIn("client")]
Follow(r, msgs, mark, taken) ==
  /\ mark \in [1 .. Len(msgs) + 1 -> 0 .. Len(r)] /\ mark[1] = taken
  /\ \A k \in 1 .. Len(msgs) :
       /\ Part(r, msgs[k].text, mark[k])
       /\ mark[k + 1] = mark[k] + Len(msgs[k].text)

\* The name, or nothing yet.
Boxed ==
  /\ queue[1] \in {<<>>, <<[mesg_type |-> 1, text |-> name]>>}
  /\ client \in Early => queue[1] = <<>>
  /\ client \in Late => queue[1] # <<>>
  /\ ~Q!One => queue[2] = <<>>
  /\ client \in Reading => Taken = 0

Answered ==
  /\ client \notin Early
  /\ \E mark \in [1 .. Len(Replies) + 1 -> 0 .. Total] :
       /\ Follow(Reply, Replies, mark, Taken)
       /\ server \notin Lost => mark[Len(Replies) + 1] = Sent
       /\ \A k \in 1 .. Len(Replies) : Replies[k].mesg_type = Q!TypeOf("server")
       /\ server \notin Ending => \A k \in 1 .. Len(Replies) : Replies[k].text # <<>>

Queued == ~Streaming =>
  /\ server \in Coming => Boxed
  /\ client \in Reading /\ server \in Serving => Answered
  /\ client \in Reading /\ server \in Lost => Boxed \/ Answered

-----------------------------------------------------------------------------
(* The ends *)

Excused == ~Answerable \/ Disturbed \/ MaySplit

Justified ==
  /\ \A x \in Parties : at[x] \in {"error", "failed"} => Excused
  /\ client \in {"wait", "done"} => server \in Ending

Carried == NameSent /\ Served /\ Correct /\ Plain /\ Splits /\ Framed /\ Queued
TransferIInv == Kinds /\ Opened /\ Present /\ OnStream /\ Carried /\ Justified

LEMMA Slice ==
  ASSUME NEW D, NEW s \in Seq(D), NEW m \in Nat, NEW n \in Nat, m =< n, n =< Len(s)
  PROVE  /\ SubSeq(s, m + 1, n) \in Seq(D)
         /\ Len(SubSeq(s, m + 1, n)) = n - m
         /\ \A j \in 1 .. n - m : SubSeq(s, m + 1, n)[j] = s[m + j]
<1>1. \A j \in m + 1 .. n : s[j] \in D
  BY ElementOfSeq, LenProperties
<1>2. m + 1 \in Int /\ n \in Int
  OBVIOUS
<1>3. /\ SubSeq(s, m + 1, n) \in Seq(D)
      /\ Len(SubSeq(s, m + 1, n)) = IF m + 1 =< n THEN n - (m + 1) + 1 ELSE 0
      /\ \A j \in 1 .. n - (m + 1) + 1 : SubSeq(s, m + 1, n)[j] = s[m + 1 + j - 1]
  BY <1>1, <1>2, SubSeqProperties
<1>. QED
  BY <1>3

LEMMA Join ==
  ASSUME NEW D, NEW s \in Seq(D), NEW t \in Seq(D)
  PROVE  /\ s \o t \in Seq(D) /\ Len(s \o t) = Len(s) + Len(t)
         /\ \A j \in 1 .. Len(s) : (s \o t)[j] = s[j]
         /\ \A j \in 1 .. Len(t) : (s \o t)[Len(s) + j] = t[j]
BY ConcatProperties, LenProperties

\* A unit in front of a sequence.
LEMMA Prefixed ==
  ASSUME NEW D, NEW e \in D, NEW s \in Seq(D)
  PROVE  /\ <<e>> \o s \in Seq(D) /\ Len(<<e>> \o s) = Len(s) + 1 /\ (<<e>> \o s)[1] = e
         /\ \A j \in 1 .. Len(s) : (<<e>> \o s)[1 + j] = s[j]
<1>1. <<e>> \in Seq(D) /\ Len(<<e>>) = 1 /\ <<e>>[1] = e
  OBVIOUS
<1>. QED
  BY <1>1, Join

LEMMA PartOfPart ==
  ASSUME NEW r \in Seq(Any), NEW text \in Seq(Any), NEW k \in Nat, Part(r, text, k),
         NEW m \in Nat, NEW n \in Nat, m =< n, n =< Len(text)
  PROVE  Part(r, SubSeq(text, m + 1, n), k + m)
<1>1. /\ Len(SubSeq(text, m + 1, n)) = n - m
      /\ \A j \in 1 .. n - m : SubSeq(text, m + 1, n)[j] = text[m + j]
  BY Slice
<1>2. Len(text) \in Nat /\ Len(r) \in Nat
  OBVIOUS
<1>. QED
  BY <1>1, <1>2 DEF Part

LEMMA PartsJoin ==
  ASSUME NEW r \in Seq(Any), NEW a \in Seq(Any), NEW b \in Seq(Any), NEW k \in Nat,
         Part(r, a, k), Part(r, b, k + Len(a))
  PROVE  Part(r, a \o b, k)
<1>1. Len(a) \in Nat /\ Len(b) \in Nat /\ Len(r) \in Nat
  OBVIOUS
<1>2. \A j \in 1 .. Len(a) + Len(b) : (a \o b)[j] = r[k + j]
  <2>1. SUFFICES ASSUME NEW j \in 1 .. Len(a) + Len(b) PROVE (a \o b)[j] = r[k + j]
    OBVIOUS
  <2>2. CASE j =< Len(a)
    BY <2>2, <1>1, Join DEF Part
  <2>3. CASE j > Len(a)
    <3>1. j - Len(a) \in 1 .. Len(b) /\ j = Len(a) + (j - Len(a))
      BY <2>3, <1>1
    <3>2. (a \o b)[Len(a) + (j - Len(a))] = b[j - Len(a)]
      BY <3>1, Join
    <3>3. b[j - Len(a)] = r[k + Len(a) + (j - Len(a))]
      BY <3>1 DEF Part
    <3>4. k + Len(a) + (j - Len(a)) = k + j
      BY <3>1, <1>1
    <3>. QED
      BY <3>1, <3>2, <3>3, <3>4
  <2>. QED
    BY <1>1, <2>2, <2>3
<1>3. Len(a \o b) = Len(a) + Len(b)
  BY Join
<1>. QED
  BY <1>1, <1>2, <1>3 DEF Part

\* A part with nothing before it that is as long as the text is the text.
LEMMA PartIsAll ==
  ASSUME NEW r \in Seq(Any), NEW text \in Seq(Any), Part(r, text, 0)
  PROVE  text = SubSeq(r, 1, Len(text))
<1>1. Len(text) \in Nat /\ Len(text) =< Len(r) /\ \A j \in 1 .. Len(text) : text[j] = r[j]
  BY DEF Part
<1>2. /\ SubSeq(r, 1, Len(text)) \in Seq(Any) /\ Len(SubSeq(r, 1, Len(text))) = Len(text)
      /\ \A j \in 1 .. Len(text) : SubSeq(r, 1, Len(text))[j] = r[j]
  <2>1. SubSeq(r, 0 + 1, Len(text)) \in Seq(Any) /\ Len(SubSeq(r, 0 + 1, Len(text))) = Len(text) - 0
        /\ \A j \in 1 .. Len(text) - 0 : SubSeq(r, 0 + 1, Len(text))[j] = r[0 + j]
    BY <1>1, Slice
  <2>. QED
    BY <2>1, <1>1
<1>. QED
  BY <1>1, <1>2, SeqEqual

LEMMA Texts ==
  /\ File \in Seq(Any) /\ Message \in Seq(Any) /\ Name \in Seq(Any) /\ Nat \subseteq Any
  /\ Len(Name) \in Nat /\ Len(Name) > 0 /\ Len(Name) =< MAXBUFF /\ Name # <<>>
  /\ Len(Message) \in Nat /\ Message # <<>> /\ Len(Message) =< MAXBUFF
  /\ Len(File) \in Nat /\ MAXBUFF \in Nat /\ MAXBUFF > 0
<1>1. \A text \in {File, Message, Name} : text \in Seq(Any)
  BY TextAssumption, SeqMonotonic DEF Any, Unit
<1>2. \A text \in {File, Message, Name} : Len(text) \in Nat
  BY <1>1
<1>3. Name # <<>>
  BY TransferAssumption
<1>. QED
  BY <1>1, <1>2, <1>3, TransferAssumption, TextAssumption DEF Any

LEMMA ReplyIs ==
  /\ Reply \in Seq(Any) /\ Total \in Nat /\ Contents \in Seq(Any) /\ Len(Contents) \in Nat
  /\ Reply \in {File, Message, <<>>}
<1>1. <<>> \in Seq(Any) 
  OBVIOUS
<1>2. Reply \in {File, Message, <<>>} /\ Contents \in {File, <<>>}
  BY DEF Reply, Contents
<1>. QED
  BY <1>1, <1>2, Texts DEF Total

\* Frames, at one header.
LEMMA FrameAt ==
  ASSUME NEW r, NEW V, NEW mark, Frames(r, V, mark), NEW k \in DOMAIN mark
  PROVE  /\ V[k] \in Nat /\ V[k] =< MAXBUFF /\ mark[k] + V[k] =< Len(r)
         /\ \A j \in 1 .. V[k] : k + j =< Len(V) => V[k + j] = r[mark[k] + j]
         /\ k + V[k] < Len(V) =>
              k + V[k] + 1 \in DOMAIN mark /\ mark[k + V[k] + 1] = mark[k] + V[k]
BY DEF Frames

LEMMA MarksAre ==
  ASSUME NEW r \in Seq(Any), NEW n \in Nat, NEW mark \in Marks(r, n)
  PROVE  DOMAIN mark \subseteq 1 .. n /\ \A k \in DOMAIN mark : mark[k] \in 0 .. Len(r)
BY DEF Marks

\* W is what is behind the first frame of V, which has m units of text.
Behind(r, V, mark, W, taken, m) ==
  /\ taken + m =< Len(r)
  /\ \A j \in 1 .. m : V[1 + j] = r[taken + j]
  /\ \E moved \in Marks(r, Len(W)) :
       /\ Frames(r, W, moved) /\ First(W, moved, taken + m)
       /\ \A w \in Nat, sent \in Nat, len \in Nat :
            LastFrame(V, mark, w, taken, sent, len) /\ w =< len
              => LastFrame(W, moved, w, taken + m, sent, len)
       /\ (\A k \in DOMAIN mark : V[k] # 0) => \A k \in DOMAIN moved : W[k] # 0
       /\ (\A k \in DOMAIN mark : k + V[k] =< Len(V)) =>
            \A k \in DOMAIN moved : k + W[k] =< Len(W)

LEMMA StillBefore ==
  \A n, k, v \in Nat, here \in Int :
    (n + k = here \/ n + k + v < here) => (k = here - n \/ k + v < here - n)
OBVIOUS

\* W is V without its first n units.
Rest(V, W, n) == Len(W) = Len(V) - n /\ \A k \in 1 .. Len(W) : W[k] = V[n + k]

\* The first frame, of n units with its header, is taken off.
LEMMA RestFollows ==
  ASSUME NEW r \in Seq(Any), NEW V \in Seq(Any), NEW mark \in Marks(r, Len(V)), V # <<>>,
         Frames(r, V, mark), NEW taken \in Nat, First(V, mark, taken),
         NEW n \in Nat, n >= 1, V[1] = n - 1, n =< Len(V),
         NEW W \in Seq(Any), Rest(V, W, n)
  PROVE  Behind(r, V, mark, W, taken, n - 1)
<1>1. Len(V) \in Nat /\ Len(r) \in Nat /\ Len(V) > 0
  BY EmptySeq
<1>2. 1 \in DOMAIN mark /\ mark[1] = taken
  BY DEF First
<1>3. V[1] \in Nat /\ mark[1] + V[1] =< Len(r)
  BY <1>2, FrameAt
<1>4. n \in Nat /\ n >= 1 /\ taken + (n - 1) =< Len(r) /\ V[1] = n - 1
  BY <1>2, <1>3
<1>5. \A j \in 1 .. n - 1 : V[1 + j] = r[taken + j]
  <2>1. \A j \in 1 .. V[1] : 1 + j =< Len(V) => V[1 + j] = r[mark[1] + j]
    BY <1>2 DEF Frames
  <2>. QED
    BY <1>1, <1>2, <1>4, <2>1
<1>6. /\ W \in Seq(Any) /\ Len(W) = Len(V) - n /\ \A k \in 1 .. Len(W) : W[k] = V[n + k]
  BY DEF Rest
<1>7. Len(W) = Len(V) - n /\ Len(W) \in Nat
  BY <1>1, <1>4, <1>6
<1>8. PICK moved : moved = [k \in {k \in 1 .. Len(W) : n + k \in DOMAIN mark} |-> mark[n + k]]
  OBVIOUS
<1>9. DOMAIN mark \subseteq 1 .. Len(V) /\ \A k \in DOMAIN mark : mark[k] \in 0 .. Len(r)
  BY <1>1, MarksAre
<1>10. \A k : k \in DOMAIN moved <=> k \in 1 .. Len(W) /\ n + k \in DOMAIN mark
  BY <1>8
<1>11. \A k \in DOMAIN moved : /\ k \in 1 .. Len(W) /\ n + k \in DOMAIN mark
                               /\ moved[k] = mark[n + k] /\ W[k] = V[n + k]
  BY <1>6, <1>8
<1>12. moved \in Marks(r, Len(W))
  <2>1. moved \in [DOMAIN moved -> 0 .. Len(r)]
    BY <1>8, <1>9
  <2>2. DOMAIN moved \in SUBSET (1 .. Len(W))
    BY <1>8
  <2>. QED
    BY <2>1, <2>2 DEF Marks
<1>13. ASSUME NEW k \in DOMAIN moved
       PROVE  /\ k \in Nat /\ k >= 1 /\ W[k] \in 0 .. MAXBUFF /\ moved[k] + W[k] =< Len(r)
              /\ moved[k] \in Nat /\ W[k] = V[n + k] /\ n + k \in DOMAIN mark
  <2>1. k \in 1 .. Len(W) /\ n + k \in DOMAIN mark /\ moved[k] = mark[n + k] /\ W[k] = V[n + k]
    BY <1>11
  <2>2. V[n + k] \in 0 .. MAXBUFF /\ mark[n + k] + V[n + k] =< Len(r)
    BY <2>1, Zenon DEF Frames
  <2>3. mark[n + k] \in 0 .. Len(r)
    BY <2>1, <1>9
  <2>. QED
    BY <2>1, <2>2, <2>3
<1>14. Frames(r, W, moved)
  <2>1. SUFFICES ASSUME NEW k \in DOMAIN moved
                 PROVE  /\ W[k] \in 0 .. MAXBUFF /\ moved[k] + W[k] =< Len(r)
                        /\ \A j \in 1 .. W[k] : k + j =< Len(W) => W[k + j] = r[moved[k] + j]
                        /\ k + W[k] < Len(W) =>
                             /\ k + W[k] + 1 \in DOMAIN moved
                             /\ moved[k + W[k] + 1] = moved[k] + W[k]
    BY DEF Frames
  <2>2. k \in 1 .. Len(W) /\ n + k \in DOMAIN mark /\ moved[k] = mark[n + k] /\ W[k] = V[n + k]
        /\ W[k] \in 0 .. MAXBUFF
    BY <1>11, <1>13
  <2>3. ASSUME NEW j \in 1 .. W[k], k + j =< Len(W)
        PROVE  W[k + j] = r[moved[k] + j]
    <3>1. \A m \in 1 .. V[n + k] :
            n + k + m =< Len(V) => V[n + k + m] = r[mark[n + k] + m]
      BY <2>2, Zenon DEF Frames
    <3>2. k \in Nat /\ j \in Nat /\ j >= 1 /\ k >= 1
      BY <2>2, <2>3
    <3>3. n + k + j =< Len(V) /\ k + j \in 1 .. Len(W) /\ n + (k + j) = n + k + j
      BY <1>1, <1>4, <1>7, <3>2, <2>3, SMTT(30)
    <3>4. V[n + k + j] = r[mark[n + k] + j]
      BY <2>2, <3>1, <3>3
    <3>5. W[k + j] = V[n + (k + j)]
      BY <1>6, <3>3
    <3>. QED
      BY <2>2, <3>3, <3>4, <3>5
  <2>4. ASSUME k + W[k] < Len(W)
        PROVE  /\ k + W[k] + 1 \in DOMAIN moved
               /\ moved[k + W[k] + 1] = moved[k] + W[k]
    <3>1. PICK v \in Nat : v = W[k] /\ v = V[n + k]
      BY <2>2
    <3>2. k + v < Len(W)
      BY <2>4, <3>1
    <3>3. k \in Nat /\ k >= 1
      BY <2>2
    <3>4. n + k + v < Len(V) /\ k + v + 1 \in 1 .. Len(W) /\ n + (k + v + 1) = n + k + v + 1
      BY <1>1, <1>4, <1>7, <3>2, <3>3
    <3>5. n + k + V[n + k] < Len(V) /\ k + W[k] + 1 \in 1 .. Len(W)
      BY <3>1, <3>4
    <3>6. n + (k + W[k] + 1) = n + k + V[n + k] + 1
      BY <3>1, <3>4
    <3>7. n + k + V[n + k] + 1 \in DOMAIN mark
          /\ mark[n + k + V[n + k] + 1] = mark[n + k] + V[n + k]
      <4>1. n + k + V[n + k] < Len(V) =>
              /\ n + k + V[n + k] + 1 \in DOMAIN mark
              /\ mark[n + k + V[n + k] + 1] = mark[n + k] + V[n + k]
        BY <2>2, Zenon DEF Frames
      <4>. QED
        BY <3>5, <4>1, Zenon
    <3>8. k + W[k] + 1 \in DOMAIN moved
      BY <1>10, <3>5, <3>6, <3>7
    <3>9. moved[k + W[k] + 1] = mark[n + (k + W[k] + 1)]
      BY <1>11, <3>8
    <3>. QED
      BY <2>2, <3>6, <3>7, <3>8, <3>9
  <2>. QED
    BY <1>13, <2>3, <2>4
<1>15. First(W, moved, taken + (n - 1))
  <2>1. ASSUME W # <<>> PROVE 1 \in DOMAIN moved /\ moved[1] = taken + (n - 1)
    <3>1. Len(W) \in Nat /\ Len(W) > 0
      BY <1>6, <2>1, EmptySeq
    <3>2. 1 + V[1] < Len(V) /\ 1 + V[1] + 1 = n + 1
      BY <1>1, <1>4, <1>6, <3>1
    <3>3. 1 + V[1] + 1 \in DOMAIN mark /\ mark[1 + V[1] + 1] = mark[1] + V[1]
      BY <1>2, <3>2, Zenon DEF Frames
    <3>4. 1 \in DOMAIN moved
      <4>1. 1 \in 1 .. Len(W) /\ n + 1 \in DOMAIN mark
        BY <3>1, <3>2, <3>3
      <4>. QED
        BY <1>10, <4>1, Zenon
    <3>. QED
      BY <1>2, <1>4, <1>11, <3>2, <3>3, <3>4
  <2>. QED
    BY <2>1 DEF First
<1>16. ASSUME NEW w \in Nat, NEW sent \in Nat, NEW len \in Nat,
              LastFrame(V, mark, w, taken, sent, len), w =< len
       PROVE  LastFrame(W, moved, w, taken + (n - 1), sent, len)
  <2>1. CASE w = 0
    <3>1. \A k \in DOMAIN mark : k + V[k] =< Len(V) /\ (k + V[k] = Len(V) => mark[k] + V[k] = sent)
      BY <1>16, <2>1 DEF LastFrame, AllWhole
    <3>2. ASSUME W = <<>> PROVE taken + (n - 1) = sent
      <4>1. Len(W) = 0
        BY <3>2, EmptySeq
      <4>2. 1 + V[1] = Len(V)
        BY <1>1, <1>4, <1>7, <4>1
      <4>. QED
        BY <1>2, <1>4, <3>1, <4>2
    <3>3. ASSUME NEW k \in DOMAIN moved
          PROVE  k + W[k] =< Len(W) /\ (k + W[k] = Len(W) => moved[k] + W[k] = sent)
      <4>1. n + k + V[n + k] =< Len(V)
            /\ (n + k + V[n + k] = Len(V) => mark[n + k] + V[n + k] = sent)
        BY <1>13, <3>1
      <4>2. moved[k] = mark[n + k]
        BY <1>11
      <4>3. PICK v \in Nat : v = W[k] /\ v = V[n + k]
        BY <1>13
      <4>4. n + k + v =< Len(V) /\ (n + k + v = Len(V) => moved[k] + v = sent) /\ k \in Nat
        BY <1>13, <4>1, <4>2, <4>3
      <4>5. k + v =< Len(W) /\ (k + v = Len(W) => moved[k] + v = sent)
        BY <1>1, <1>4, <1>7, <4>4, SMTT(30)
      <4>. QED
        BY <4>3, <4>5
    <3>. QED
      <4>1. \A k \in DOMAIN moved :
              k + W[k] =< Len(W) /\ (k + W[k] = Len(W) => moved[k] + W[k] = sent)
        BY <3>3
      <4>. QED
        <5>1. AllWhole(W, moved, taken + (n - 1), sent)
          BY <3>2, <4>1 DEF AllWhole
        <5>. QED
          BY <2>1, <5>1 DEF LastFrame
  <2>2. CASE w > 0
    <3>1. PICK here : here = Len(V) - w + 1
      OBVIOUS
    <3>2. here \in DOMAIN mark /\ mark[here] = sent /\ V[here] = len
      BY <1>16, <2>2, <3>1 DEF LastFrame, Begun
    <3>3. \A k \in DOMAIN mark : k = here \/ k + V[k] < here
      BY <1>16, <2>2, <3>1 DEF LastFrame, Begun
    <3>4. here \in 1 .. Len(V)
      BY <1>9, <3>2
    <3>5. here # 1
      BY <1>1, <1>4, <1>16, <3>1, <3>2
    <3>6. 1 + V[1] < here
      BY <1>2, <3>3, <3>5
    <3>7. here - n \in 1 .. Len(W) /\ n + (here - n) = here /\ here - n = Len(W) - w + 1
      BY <1>1, <1>4, <1>6, <3>1, <3>4, <3>6
    <3>8. here - n \in DOMAIN moved
      BY <1>10, <3>2, <3>7
    <3>9. moved[here - n] = sent /\ W[here - n] = len
      BY <1>11, <3>2, <3>7, <3>8
    <3>10. ASSUME NEW k \in DOMAIN moved
           PROVE  k = here - n \/ k + W[k] < here - n
      <4>1. n + k = here \/ n + k + V[n + k] < here
        BY <1>13, <3>3
      <4>2. PICK v \in Nat : v = W[k] /\ v = V[n + k]
        BY <1>13
      <4>3. (n + k = here \/ n + k + v < here) /\ k \in Nat
        BY <1>13, <4>1, <4>2
      <4>4. k = here - n \/ k + v < here - n
        <5>1. here \in Int
          BY <1>1, <3>4
        <5>. QED
          BY <4>2, <4>3, <5>1, StillBefore, Zenon
      <4>. QED
        BY <4>2, <4>4
    <3>. QED
      <4>1. \A k \in DOMAIN moved : k = Len(W) - w + 1 \/ k + W[k] < Len(W) - w + 1
        BY <3>7, <3>10
      <4>2. /\ Len(W) - w + 1 \in DOMAIN moved /\ moved[Len(W) - w + 1] = sent
            /\ W[Len(W) - w + 1] = len
        BY <3>7, <3>8, <3>9
      <4>. QED
        <5>1. Begun(W, moved, Len(W) - w + 1, sent, len)
          BY <4>1, <4>2 DEF Begun
        <5>. QED
          BY <2>2, <5>1 DEF LastFrame
  <2>. QED
    BY <2>1, <2>2
<1>17. ASSUME \A k \in DOMAIN mark : V[k] # 0 PROVE \A k \in DOMAIN moved : W[k] # 0
  BY <1>11, <1>17
<1>18. ASSUME \A k \in DOMAIN mark : k + V[k] =< Len(V), NEW k \in DOMAIN moved
       PROVE  k + W[k] =< Len(W)
  <2>1. n + k + V[n + k] =< Len(V)
    BY <1>13, <1>18
  <2>2. PICK v \in Nat : v = W[k] /\ v = V[n + k]
    BY <1>13
  <2>3. n + k + v =< Len(V) /\ k \in Nat
    BY <1>13, <2>1, <2>2
  <2>4. k + v =< Len(W)
    BY <1>1, <1>4, <1>7, <2>3
  <2>. QED
    BY <2>2, <2>4
<1>19. \A w \in Nat, sent \in Nat, len \in Nat :
         LastFrame(V, mark, w, taken, sent, len) /\ w =< len
           => LastFrame(W, moved, w, taken + (n - 1), sent, len)
  BY <1>16
<1>20. /\ (\A k \in DOMAIN mark : V[k] # 0) => \A k \in DOMAIN moved : W[k] # 0
       /\ (\A k \in DOMAIN mark : k + V[k] =< Len(V)) =>
            \A k \in DOMAIN moved : k + W[k] =< Len(W)
  BY <1>17, <1>18
<1>21. \E moved_1 \in Marks(r, Len(W)) :
              /\ Frames(r, W, moved_1) /\ First(W, moved_1, taken + (n - 1))
              /\ \A w \in Nat, sent \in Nat, len \in Nat :
                   LastFrame(V, mark, w, taken, sent, len) /\ w =< len
                     => LastFrame(W, moved_1, w, taken + (n - 1), sent, len)
              /\ (\A k \in DOMAIN mark : V[k] # 0) => \A k \in DOMAIN moved_1 : W[k] # 0
              /\ (\A k \in DOMAIN mark : k + V[k] =< Len(V)) =>
                   \A k \in DOMAIN moved_1 : k + W[k] =< Len(W)
  BY <1>12, <1>14, <1>15, <1>19, <1>20
<1>. QED
  BY <1>4, <1>5, <1>21, Zenon DEF Behind

LEMMA FrameTaken ==
  ASSUME NEW r \in Seq(Any), NEW V \in Seq(Any), NEW mark \in Marks(r, Len(V)), V # <<>>,
         Frames(r, V, mark), NEW taken \in Nat, First(V, mark, taken),
         NEW n \in Nat, n >= 1, V[1] = n - 1, n =< Len(V),
         NEW W \in Seq(Any), W = SubSeq(V, n + 1, Len(V))
  PROVE  Behind(r, V, mark, W, taken, n - 1)
<1>1. Len(V) \in Nat
  OBVIOUS
<1>2. /\ Len(SubSeq(V, n + 1, Len(V))) = Len(V) - n
      /\ \A j \in 1 .. Len(V) - n : SubSeq(V, n + 1, Len(V))[j] = V[n + j]
  BY <1>1, Slice
<1>3. Len(W) = Len(V) - n /\ \A j \in 1 .. Len(W) : W[j] = V[n + j]
  BY <1>2
<1>4. Rest(V, W, n)
  BY <1>3, Zenon DEF Rest
<1>. QED
  BY <1>4, RestFollows, Zenon

\* W is V, and n units of a frame of which w were there.
Appends(V, text, L, w, n, W) ==
  /\ Len(V) \in Nat /\ Len(W) = Len(V) + n
  /\ \A k \in 1 .. Len(V) : W[k] = V[k]
  /\ w = 0 => W[Len(V) + 1] = L
  /\ \A j \in 1 .. n : w + j >= 2 => W[Len(V) + j] = text[w + j - 1]

\* The same of parts: f is L and text, p is n units of f after w, W is V and p.
Heads(f, text, L) ==
  f \in Seq(Any) /\ Len(f) = L + 1 /\ f[1] = L /\ \A j \in 1 .. L : f[1 + j] = text[j]
Cut(p, f, w, n) ==
  p \in Seq(Any) /\ Len(p) = n /\ \A j \in 1 .. n : p[j] = f[w + j]
Joins(W, V, p) ==
  /\ W \in Seq(Any) /\ Len(V) \in Nat /\ Len(W) = Len(V) + Len(p)
  /\ \A k \in 1 .. Len(V) : W[k] = V[k]
  /\ \A j \in 1 .. Len(p) : W[Len(V) + j] = p[j]

LEMMA HeadsIt ==
  ASSUME NEW text \in Seq(Any), NEW L \in Any, L = Len(text)
  PROVE  Heads(<<L>> \o text, text, L)
BY Prefixed DEF Heads

LEMMA CutIs ==
  ASSUME NEW f \in Seq(Any), NEW w \in Nat, NEW n \in Nat, w + n =< Len(f)
  PROVE  Cut(SubSeq(f, w + 1, w + n), f, w, n)
<1>1. PICK end \in Nat : end = w + n
  OBVIOUS
<1>2. w =< end /\ end - w = n /\ end =< Len(f)
  BY <1>1
<1>3. /\ SubSeq(f, w + 1, end) \in Seq(Any)
      /\ Len(SubSeq(f, w + 1, end)) = end - w
      /\ \A j \in 1 .. end - w : SubSeq(f, w + 1, end)[j] = f[w + j]
  BY <1>1, <1>2, Slice
<1>. QED
  BY <1>1, <1>2, <1>3, Zenon DEF Cut

LEMMA JoinsThem ==
  ASSUME NEW V \in Seq(Any), NEW p \in Seq(Any)
  PROVE  Joins(V \o p, V, p)
BY Join DEF Joins

LEMMA CutAppends ==
  ASSUME NEW V, NEW text, NEW L \in Nat, NEW f, NEW p, NEW W, NEW w \in Nat, NEW n \in Nat,
         n >= 1, w + n =< L + 1, Heads(f, text, L), Cut(p, f, w, n), Joins(W, V, p)
  PROVE  W \in Seq(Any) /\ Appends(V, text, L, w, n, W)
<1>1. /\ W \in Seq(Any) /\ Len(V) \in Nat /\ Len(W) = Len(V) + n
      /\ \A k \in 1 .. Len(V) : W[k] = V[k]
  BY Zenon DEF Joins, Cut
<1>2. \A j \in 1 .. n : W[Len(V) + j] = f[w + j]
  BY Zenon DEF Joins, Cut
<1>3. f[1] = L /\ \A j \in 1 .. L : f[1 + j] = text[j]
  BY Zenon DEF Heads
<1>4. w = 0 => W[Len(V) + 1] = L
  BY <1>2, <1>3
<1>5. ASSUME NEW j \in 1 .. n, w + j >= 2
      PROVE  W[Len(V) + j] = text[w + j - 1]
  <2>1. w + j - 1 \in 1 .. L /\ 1 + (w + j - 1) = w + j
    BY <1>5
  <2>2. f[w + j] = text[w + j - 1]
    BY <1>3, <2>1
  <2>. QED
    BY <1>2, <2>2
<1>. QED
  BY <1>1, <1>4, <1>5, Zenon DEF Appends

LEMMA Appended ==
  ASSUME NEW V \in Seq(Any), NEW text \in Seq(Any), NEW L \in Nat, L = Len(text),
         NEW w \in Nat, NEW n \in Nat, n >= 1, w + n =< L + 1,
         NEW W, W = V \o SubSeq(<<L>> \o text, w + 1, w + n)
  PROVE  W \in Seq(Any) /\ Appends(V, text, L, w, n, W)
<1>1. Heads(<<L>> \o text, text, L)
  BY HeadsIt DEF Any
<1>2. Cut(SubSeq(<<L>> \o text, w + 1, w + n), <<L>> \o text, w, n)
  BY <1>1, CutIs DEF Heads
<1>3. Joins(W, V, SubSeq(<<L>> \o text, w + 1, w + n))
  BY <1>2, JoinsThem DEF Cut
<1>. QED
  BY <1>1, <1>2, <1>3, CutAppends

\* What there is of the frames when W goes on with a frame of L units after V.
Grown(r, V, mark, W, moved, w, n, taken, sent, L) ==
  /\ Frames(r, W, moved) /\ First(W, moved, taken)
  /\ w + n < L + 1 => LastFrame(W, moved, w + n, taken, sent, L)
  /\ w + n = L + 1 => AllWhole(W, moved, taken, sent + L)
  /\ L # 0 /\ (\A k \in DOMAIN mark : V[k] # 0) => \A k \in DOMAIN moved : W[k] # 0
  /\ w = 0 /\ w + n = L + 1 /\ (\A k \in DOMAIN mark : k + V[k] =< Len(V)) =>
       \A k \in DOMAIN moved : k + W[k] =< Len(W)

LEMMA FrameGoesOn ==
  ASSUME NEW r \in Seq(Any), NEW V \in Seq(Any), NEW text \in Seq(Any),
         NEW L \in Nat, L = Len(text), NEW mark \in Marks(r, Len(V)), Frames(r, V, mark),
         NEW taken \in Nat, NEW sent \in Nat, First(V, mark, taken), Part(r, text, sent),
         NEW w \in Nat, NEW n \in Nat, n >= 1, w + n =< L + 1, w > 0,
         LastFrame(V, mark, w, taken, sent, L),
         NEW W \in Seq(Any), Appends(V, text, L, w, n, W)
  PROVE  mark \in Marks(r, Len(W)) /\ Grown(r, V, mark, W, mark, w, n, taken, sent, L)
<1>1. W \in Seq(Any) /\ Len(W) = Len(V) + n /\ Len(V) \in Nat
  BY DEF Appends
<1>2. \A k \in 1 .. Len(V) : W[k] = V[k]
  BY DEF Appends
<1>3. \A j \in 1 .. n : w + j >= 2 => W[Len(V) + j] = text[w + j - 1]
  BY DEF Appends
<1>4. DOMAIN mark \subseteq 1 .. Len(V) /\ \A k \in DOMAIN mark : mark[k] \in 0 .. Len(r)
  BY <1>1, MarksAre
<1>5. mark \in Marks(r, Len(W))
  BY <1>1, <1>4 DEF Marks
<1>6. PICK here : here = Len(V) - w + 1
  OBVIOUS
<1>7. here \in DOMAIN mark /\ mark[here] = sent /\ V[here] = L
  BY <1>6 DEF LastFrame, Begun
<1>8. \A k \in DOMAIN mark : k = here \/ k + V[k] < here
  BY <1>6 DEF LastFrame, Begun
<1>9. here \in 1 .. Len(V)
  BY <1>4, <1>7
<1>10. Len(r) \in Nat /\ sent + L =< Len(r) /\ \A j \in 1 .. L : text[j] = r[sent + j]
  BY DEF Part
<1>11. \A k \in DOMAIN mark : W[k] = V[k]
  BY <1>2, <1>4
<1>12. Frames(r, W, mark)
  <2>1. SUFFICES ASSUME NEW k \in DOMAIN mark
                 PROVE  /\ W[k] \in 0 .. MAXBUFF /\ mark[k] + W[k] =< Len(r)
                        /\ \A j \in 1 .. W[k] : k + j =< Len(W) => W[k + j] = r[mark[k] + j]
                        /\ k + W[k] < Len(W) =>
                             /\ k + W[k] + 1 \in DOMAIN mark
                             /\ mark[k + W[k] + 1] = mark[k] + W[k]
    BY DEF Frames
  <2>2. V[k] \in Nat /\ V[k] =< MAXBUFF /\ mark[k] + V[k] =< Len(r)
    BY FrameAt
  <2>3. PICK v \in Nat : v = V[k] /\ v = W[k]
    BY <1>11, <2>2
  <2>4. \A j \in 1 .. V[k] : k + j =< Len(V) => V[k + j] = r[mark[k] + j]
    BY DEF Frames
  <2>5. k + V[k] < Len(V) =>
          k + V[k] + 1 \in DOMAIN mark /\ mark[k + V[k] + 1] = mark[k] + V[k]
    BY DEF Frames
  <2>6. \A j \in 1 .. v : k + j =< Len(V) => V[k + j] = r[mark[k] + j]
    BY <2>3, <2>4
  <2>7. k \in 1 .. Len(V)
    BY <1>4
  <2>8. CASE k = here
    <3>1. v = L /\ mark[k] = sent
      BY <1>7, <2>3, <2>8
    <3>2. ASSUME NEW j \in 1 .. v, k + j =< Len(W) PROVE W[k + j] = r[mark[k] + j]
      <4>1. CASE k + j =< Len(V)
        <5>1. k + j \in 1 .. Len(V)
          BY <1>1, <2>7, <3>2, <4>1
        <5>. QED
          BY <1>2, <2>6, <4>1, <5>1
      <4>2. CASE k + j > Len(V)
        <5>1. PICK i : i = k + j - Len(V)
          OBVIOUS
        <5>2. i \in 1 .. n /\ w + i >= 2 /\ Len(V) + i = k + j /\ w + i - 1 = j
          BY <1>1, <1>6, <1>9, <2>8, <3>2, <4>2, <5>1
        <5>3. W[k + j] = text[j]
          BY <1>3, <5>2
        <5>. QED
          BY <1>10, <3>1, <3>2, <5>3
      <4>3. k \in Nat /\ j \in Nat
        BY <2>7, <3>2
      <4>4. k + j =< Len(V) \/ k + j > Len(V)
        BY <1>1, <4>3
      <4>. QED
        BY <4>1, <4>2, <4>4
    <3>3. ~(k + v < Len(W))
      BY <1>1, <1>6, <2>8, <3>1
    <3>. QED
      BY <2>2, <2>3, <3>2, <3>3
  <2>9. CASE k # here
    <3>1. k + v < here
      BY <1>8, <2>3, <2>9
    <3>2. ASSUME NEW j \in 1 .. v PROVE W[k + j] = r[mark[k] + j]
      <4>1. k + j \in 1 .. Len(V)
        BY <1>9, <2>7, <3>1, <3>2, SMTT(30)
      <4>. QED
        BY <1>2, <2>6, <4>1, <3>2
    <3>3. k + v < Len(V)
      BY <1>1, <1>9, <2>7, <3>1
    <3>4. k + v + 1 \in DOMAIN mark /\ mark[k + v + 1] = mark[k] + v
      BY <2>3, <2>5, <3>3
    <3>. QED
      BY <2>2, <2>3, <3>2, <3>4
  <2>. QED
    BY <2>8, <2>9
<1>13. First(W, mark, taken)
  <2>1. Len(V) > 0
    BY <1>1, <1>9
  <2>2. V # <<>>
    BY <2>1, EmptySeq
  <2>. QED
    BY <2>2 DEF First
<1>14. ASSUME w + n < L + 1 PROVE LastFrame(W, mark, w + n, taken, sent, L)
  <2>1. Len(W) - (w + n) + 1 = here
    BY <1>1, <1>6
  <2>2. Begun(W, mark, here, sent, L)
    BY <1>7, <1>8, <1>11 DEF Begun
  <2>3. w + n # 0
    OBVIOUS
  <2>. QED
    BY <2>1, <2>2, <2>3 DEF LastFrame
<1>15. ASSUME w + n = L + 1 PROVE AllWhole(W, mark, taken, sent + L)
  <2>1. W # <<>>
    <3>1. Len(W) # 0
      BY <1>1
    <3>2. Len(<<>>) = 0
      BY EmptySeq
    <3>. QED
      BY <3>1, <3>2
  <2>2. ASSUME NEW k \in DOMAIN mark
        PROVE  k + W[k] =< Len(W) /\ (k + W[k] = Len(W) => mark[k] + W[k] = sent + L)
    <3>1. V[k] \in Nat /\ k \in 1 .. Len(V)
      BY <1>4, FrameAt
    <3>2. PICK v \in Nat : v = V[k] /\ v = W[k]
      BY <1>11, <3>1
    <3>3. (k = here /\ v = L /\ mark[k] = sent) \/ k + v < here
      BY <1>7, <1>8, <3>2
    <3>4. k + v =< Len(W) /\ (k + v = Len(W) => k = here)
      BY <1>1, <1>6, <1>9, <1>15, <3>1, <3>3, SMTT(30)
    <3>5. k + v = Len(W) => mark[k] + v = sent + L
      <4>1. ~(k = here /\ k + v < here)
        BY <1>9, <3>2
      <4>. QED
        BY <3>3, <3>4, <4>1
    <3>. QED
      BY <3>2, <3>4, <3>5
  <2>. QED
    BY <2>1, <2>2 DEF AllWhole
<1>16. (\A k \in DOMAIN mark : V[k] # 0) => \A k \in DOMAIN mark : W[k] # 0
  BY <1>11
<1>17. w # 0
  OBVIOUS
<1>18. Grown(r, V, mark, W, mark, w, n, taken, sent, L)
  BY <1>12, <1>13, <1>14, <1>15, <1>16, <1>17, Zenon DEF Grown
<1>. QED
  BY <1>5, <1>18

LEMMA FrameBegins ==
  ASSUME NEW r \in Seq(Any), NEW V \in Seq(Any), NEW text \in Seq(Any),
         NEW L \in Nat, L = Len(text), NEW mark \in Marks(r, Len(V)), Frames(r, V, mark),
         NEW taken \in Nat, NEW sent \in Nat, First(V, mark, taken), Part(r, text, sent),
         NEW n \in Nat, n >= 1, n =< L + 1, L =< MAXBUFF, AllWhole(V, mark, taken, sent),
         NEW W \in Seq(Any), Appends(V, text, L, 0, n, W)
  PROVE  \E moved \in Marks(r, Len(W)) : Grown(r, V, mark, W, moved, 0, n, taken, sent, L)
<1>1. Len(W) = Len(V) + n /\ Len(V) \in Nat
  BY DEF Appends
<1>2. \A k \in 1 .. Len(V) : W[k] = V[k]
  BY DEF Appends
<1>3. \A j \in 1 .. n : 0 + j >= 2 => W[Len(V) + j] = text[0 + j - 1]
  BY DEF Appends
<1>4. W[Len(V) + 1] = L
  BY DEF Appends
<1>5. PICK here \in Nat : here = Len(V) + 1
  BY <1>1
<1>6. DOMAIN mark \subseteq 1 .. Len(V) /\ \A k \in DOMAIN mark : mark[k] \in 0 .. Len(r)
  BY <1>1, MarksAre
<1>7. Len(r) \in Nat /\ sent + L =< Len(r) /\ \A j \in 1 .. L : text[j] = r[sent + j]
  BY DEF Part
<1>8. PICK moved : moved = [k \in DOMAIN mark \cup {here} |-> IF k = here THEN sent ELSE mark[k]]
  OBVIOUS
<1>9. here \notin DOMAIN mark
  BY <1>1, <1>5, <1>6
<1>10. /\ DOMAIN moved = DOMAIN mark \cup {here} /\ moved[here] = sent
       /\ \A k \in DOMAIN mark : moved[k] = mark[k]
  BY <1>8, <1>9
<1>11. here \in 1 .. Len(W)
  BY <1>1, <1>5
<1>12. moved \in Marks(r, Len(W))
  <2>1. DOMAIN moved \in SUBSET (1 .. Len(W))
    BY <1>1, <1>6, <1>10, <1>11
  <2>2. moved \in [DOMAIN mark \cup {here} -> 0 .. Len(r)]
    BY <1>6, <1>7, <1>8
  <2>. QED
    BY <1>10, <2>1, <2>2 DEF Marks
<1>13. W[here] = L /\ \A k \in DOMAIN mark : W[k] = V[k]
  BY <1>2, <1>4, <1>5, <1>6
<1>14. \A k \in DOMAIN mark : k + V[k] =< Len(V) /\ (k + V[k] = Len(V) => mark[k] + V[k] = sent)
  BY DEF AllWhole
<1>15. ASSUME NEW k \in DOMAIN mark
       PROVE  /\ k \in 1 .. Len(V) /\ V[k] \in Nat /\ W[k] = V[k] /\ mark[k] + V[k] =< Len(r)
              /\ k + W[k] =< Len(V) /\ moved[k] = mark[k] /\ W[k] =< MAXBUFF
  BY <1>6, <1>10, <1>13, <1>14, FrameAt
<1>16. Frames(r, W, moved)
  <2>1. SUFFICES ASSUME NEW k \in DOMAIN moved
                 PROVE  /\ W[k] \in 0 .. MAXBUFF /\ moved[k] + W[k] =< Len(r)
                        /\ \A j \in 1 .. W[k] : k + j =< Len(W) => W[k + j] = r[moved[k] + j]
                        /\ k + W[k] < Len(W) =>
                             /\ k + W[k] + 1 \in DOMAIN moved
                             /\ moved[k + W[k] + 1] = moved[k] + W[k]
    BY DEF Frames
  <2>2. CASE k = here
    <3>1. W[k] = L /\ moved[k] = sent
      BY <1>10, <1>13, <2>2
    <3>2. ASSUME NEW j \in 1 .. L, k + j =< Len(W) PROVE W[k + j] = r[sent + j]
      <4>1. PICK i : i = j + 1
        OBVIOUS
      <4>2. i \in 1 .. n /\ 0 + i >= 2 /\ Len(V) + i = k + j /\ 0 + i - 1 = j
        BY <1>1, <1>5, <2>2, <3>2, <4>1
      <4>3. W[k + j] = text[j]
        BY <1>3, <4>2
      <4>. QED
        BY <1>7, <4>3
    <3>3. ~(k + L < Len(W))
      BY <1>1, <1>5, <2>2
    <3>. QED
      BY <1>7, <3>1, <3>2, <3>3
  <2>3. CASE k \in DOMAIN mark
    <3>1. PICK v \in Nat : v = V[k] /\ v = W[k]
      BY <1>15, <2>3
    <3>2. k \in 1 .. Len(V) /\ k + v =< Len(V) /\ moved[k] = mark[k]
      BY <1>15, <2>3, <3>1
    <3>3. \A j \in 1 .. V[k] : k + j =< Len(V) => V[k + j] = r[mark[k] + j]
      BY <2>3 DEF Frames
    <3>4. k + V[k] < Len(V) =>
            k + V[k] + 1 \in DOMAIN mark /\ mark[k + V[k] + 1] = mark[k] + V[k]
      BY <2>3 DEF Frames
    <3>5. ASSUME NEW j \in 1 .. v PROVE W[k + j] = r[mark[k] + j]
      <4>1. k + j \in 1 .. Len(V) /\ k + j =< Len(V)
        BY <1>1, <3>2, <3>5
      <4>. QED
        BY <1>2, <3>1, <3>3, <4>1
    <3>6. /\ W[k] \in 0 .. MAXBUFF /\ moved[k] + W[k] =< Len(r)
          /\ \A j \in 1 .. W[k] : k + j =< Len(W) => W[k + j] = r[moved[k] + j]
      <4>1. v =< MAXBUFF /\ moved[k] + v =< Len(r)
        BY <1>15, <2>3, <3>1
      <4>. QED
        BY <3>1, <3>2, <3>5, <4>1
    <3>7. CASE k + v < Len(V)
      <4>1. k + v + 1 \in DOMAIN mark /\ mark[k + v + 1] = mark[k] + v
        BY <3>1, <3>4, <3>7
      <4>2. k + v + 1 \in DOMAIN moved /\ moved[k + v + 1] = moved[k] + v
        BY <1>10, <3>2, <4>1
      <4>. QED
        BY <3>1, <3>6, <4>2
    <3>8. CASE k + v = Len(V)
      <4>1. k + v + 1 = here /\ mark[k] + v = sent
        BY <1>5, <1>14, <2>3, <3>1, <3>8
      <4>2. k + v + 1 \in DOMAIN moved /\ moved[k + v + 1] = moved[k] + v
        BY <1>10, <3>2, <4>1
      <4>. QED
        BY <3>1, <3>6, <4>2
    <3>9. k + v < Len(V) \/ k + v = Len(V)
      BY <1>1, <3>2
    <3>. QED
      BY <3>7, <3>8, <3>9
  <2>. QED
    BY <1>10, <2>2, <2>3
<1>17. First(W, moved, taken)
  <2>1. CASE V = <<>>
    <3>1. Len(V) = 0
      BY <2>1, EmptySeq
    <3>2. here = 1
      BY <1>5, <3>1
    <3>3. taken = sent
      BY <2>1 DEF AllWhole
    <3>. QED
      BY <1>10, <3>2, <3>3 DEF First
  <2>2. CASE V # <<>>
    <3>1. 1 \in DOMAIN mark /\ mark[1] = taken
      BY <2>2 DEF First
    <3>. QED
      BY <1>10, <3>1 DEF First
  <2>. QED
    BY <2>1, <2>2
<1>18. ASSUME NEW k \in DOMAIN mark PROVE k + W[k] < here
  <2>1. PICK v \in Nat : v = W[k]
    BY <1>15
  <2>2. k \in Nat /\ k + v =< Len(V)
    BY <1>15, <2>1
  <2>3. k + v < here
    BY <1>1, <1>5, <2>2
  <2>. QED
    BY <2>1, <2>3
<1>19. ASSUME 0 + n < L + 1 PROVE LastFrame(W, moved, 0 + n, taken, sent, L)
  <2>1. Len(W) - (0 + n) + 1 = here
    BY <1>1, <1>5
  <2>2. Begun(W, moved, here, sent, L)
    BY <1>10, <1>13, <1>18 DEF Begun
  <2>3. 0 + n # 0
    OBVIOUS
  <2>. QED
    BY <2>1, <2>2, <2>3 DEF LastFrame
<1>20. ASSUME 0 + n = L + 1 PROVE AllWhole(W, moved, taken, sent + L)
  <2>1. W # <<>>
    <3>1. Len(W) # 0
      BY <1>1
    <3>2. Len(<<>>) = 0
      BY EmptySeq
    <3>. QED
      BY <3>1, <3>2
  <2>2. here + L = Len(W)
    BY <1>1, <1>5, <1>20
  <2>3. ASSUME NEW k \in DOMAIN mark
        PROVE  k + W[k] =< Len(W) /\ k + W[k] # Len(W)
    <3>1. PICK v \in Nat : v = W[k]
      BY <1>15
    <3>2. k + v < here /\ k \in Nat
      BY <1>15, <1>18, <3>1
    <3>3. k + v =< Len(W) /\ k + v # Len(W)
      BY <1>1, <2>2, <3>2
    <3>. QED
      BY <3>1, <3>3
  <2>4. here + W[here] =< Len(W) /\ moved[here] + W[here] = sent + L
    <3>1. here + L =< Len(W)
      BY <1>1, <2>2
    <3>. QED
      BY <1>10, <1>13, <3>1
  <2>5. \A k \in DOMAIN moved :
          k + W[k] =< Len(W) /\ (k + W[k] = Len(W) => moved[k] + W[k] = sent + L)
    BY <1>10, <2>3, <2>4
  <2>. QED
    BY <2>1, <2>5 DEF AllWhole
<1>21. L # 0 /\ (\A k \in DOMAIN mark : V[k] # 0) => \A k \in DOMAIN moved : W[k] # 0
  BY <1>10, <1>13
<1>22. 0 + n = L + 1 => \A k \in DOMAIN moved : k + W[k] =< Len(W)
  BY <1>20 DEF AllWhole
<1>23. Grown(r, V, mark, W, moved, 0, n, taken, sent, L)
  BY <1>16, <1>17, <1>19, <1>20, <1>21, <1>22, Zenon DEF Grown
<1>. QED
  BY <1>12, <1>23

\* Either way.
LEMMA FrameGrows ==
  ASSUME NEW r \in Seq(Any), NEW V \in Seq(Any), NEW text \in Seq(Any),
         NEW L \in Nat, L = Len(text), NEW mark \in Marks(r, Len(V)), Frames(r, V, mark),
         NEW taken \in Nat, NEW sent \in Nat, First(V, mark, taken), Part(r, text, sent),
         NEW w \in Nat, NEW n \in Nat, n >= 1, w + n =< L + 1,
         LastFrame(V, mark, w, taken, sent, L), L =< MAXBUFF,
         NEW W, W = V \o SubSeq(<<L>> \o text, w + 1, w + n)
  PROVE  \E moved \in Marks(r, Len(W)) : Grown(r, V, mark, W, moved, w, n, taken, sent, L)
<1>1. W \in Seq(Any) /\ Appends(V, text, L, w, n, W)
  BY Appended
<1>2. CASE w = 0
  <2>1. AllWhole(V, mark, taken, sent) /\ n =< L + 1 /\ Appends(V, text, L, 0, n, W)
    BY <1>1, <1>2 DEF LastFrame
  <2>2. \E moved \in Marks(r, Len(W)) : Grown(r, V, mark, W, moved, 0, n, taken, sent, L)
    BY <1>1, <2>1, FrameBegins
  <2>. QED
    BY <1>2, <2>2
<1>3. CASE w > 0
  BY <1>1, <1>3, FrameGoesOn
<1>4. w = 0 \/ w > 0
  OBVIOUS
<1>. QED
  BY <1>2, <1>3, <1>4

-----------------------------------------------------------------------------
(* Steps that leave what is sent alone *)

Still == UNCHANGED <<program, dataVars, stream, PIPE_BUF, written, mesg_len, queue>>

Quiet == {"unborn", "main", "fork", "close", "opening", "ask"}
Waits == {"unborn", "main", "close", "opening", "receive"}

\* A party goes on in main(), or ends.
ClientKeeps ==
  \/ client' = client \/ client' \in Lost \/ {client, client'} \subseteq Quiet
  \/ client \in {"receive", "wait"} /\ client' \in {"wait", "done"}
ServerKeeps ==
  \/ server' = server \/ server' \in Lost \/ {server, server'} \subseteq Waits
  \/ server = "exit" /\ server' = "done"

LEMMA ClientKept ==
  ASSUME client \in Early \cup Late \cup Lost, ClientKeeps
  PROVE  /\ client' \in Early \cup Late \cup Lost
         /\ client' = "send" => client = "send"
         /\ client' = "print" => client = "print"
         /\ client' = "data" => client = "data"
         /\ client' \in Early \ {"send"} => client \in Early \ {"send"}
         /\ client' \in Early => client \in Early
         /\ client' \notin Early => client \notin Early \/ client' \in Lost
         /\ client' \in Late => client \in Late
         /\ client \in Late \cup Lost => client' \in Late \cup Lost
         /\ client' \in Reading => client \in Reading
         /\ client' \in Reading => (client' = "data" <=> client = "data")
         /\ client' \in Reading => (client' = "print" <=> client = "print")
         /\ client' # "send" /\ client' \notin Lost => client # "send" /\ client \notin Lost
BY DEF ClientKeeps, Early, Late, Lost, Reading, Quiet

LEMMA ServerKept ==
  ASSUME server \in Coming \cup Serving \cup Lost, ServerKeeps
  PROVE  /\ server' \in Coming \cup Serving \cup Lost
         /\ server' \in Coming => server \in Coming
         /\ server' \in Coming => (server' = "data" <=> server = "data")
         /\ server' \in Serving => server \in Serving
         /\ server' \in Sends => server \in Sends /\ server' = server
         /\ server' \notin Lost => server \notin Lost
         /\ server' \notin Ending => server \notin Ending
         /\ server' \in {"open", "file", "send", "send_message", "end"} => server' = server
         /\ server' \in {"exit", "done"} => server \in {"exit", "done"}
         /\ server' \notin Lost =>
              (server' \in {"end", "exit", "done"} <=> server \in {"end", "exit", "done"})
         /\ server' \notin Sends \cup Lost => server \notin Sends \cup Lost
BY DEF ServerKeeps, Coming, Serving, Lost, Sends, Ending, Waits

Fixed == UNCHANGED <<program, name, target, PIPE_BUF>>

LEMMA FixedSame ==
  ASSUME Fixed
  PROVE  /\ program' = program /\ name' = name /\ target' = target /\ PIPE_BUF' = PIPE_BUF
         /\ Streaming' = Streaming /\ S!Header' = S!Header /\ Q!One' = Q!One
         /\ Contents' = Contents /\ Answerable' = Answerable /\ Reply' = Reply /\ Total' = Total
         /\ Asked' = Asked /\ MaySplit' = MaySplit
<1>1. program' = program /\ name' = name /\ target' = target /\ PIPE_BUF' = PIPE_BUF
  BY DEF Fixed
<1>2. Streaming' = Streaming /\ S!Header' = S!Header /\ Q!One' = Q!One /\ MaySplit' = MaySplit
  BY <1>1 DEF Streaming, S!Header, Q!One, MaySplit
<1>3. Contents' = Contents /\ Answerable' = Answerable
  BY <1>1 DEF Contents, Answerable
<1>4. Reply' = Reply
  BY <1>1, <1>3 DEF Reply
<1>5. Total' = Total
  BY <1>4 DEF Total
<1>6. Asked' = Asked
  BY <1>1, <1>2 DEF Asked
<1>. QED
  BY <1>1, <1>2, <1>3, <1>4, <1>5, <1>6

\* What is on its way to the client, as far as the server has come and the client not.
LEMMA ReplyKept ==
  ASSUME Kinds, Plain, Splits, Framed, Fixed, stream'[2] = stream[2],
         mesg_len'["client"] = mesg_len["client"], written'["server"] = written["server"],
         client' \in Reading =>
           client \in Reading /\ Taken' = Taken /\ (client' = "data" <=> client = "data"),
         server' \notin Lost =>
           server \notin Lost /\ Sent' = Sent /\ (server \in Sends => Text' = Text),
         server' \notin Ending => server \notin Ending
  PROVE  Plain' /\ Framed'
<1>1. Plain'
  BY FixedSame DEF Plain
<1>2. Framed'
  <2>1. SUFFICES ASSUME Streaming', S!Header', client' \in Reading PROVE Framed'
    BY DEF Framed
  <2>2. Streaming /\ S!Header /\ client \in Reading
    BY <2>1, FixedSame
  <2>3. (client' = "data" <=> client = "data") /\ Whole' = Whole /\ Taken' = Taken
    BY <2>1 DEF Whole
  <2>4. PICK mark \in Marks(Reply, Len(Whole)) :
          /\ Frames(Reply, Whole, mark) /\ First(Whole, mark, Taken)
          /\ server \notin Lost => LastFrame(Whole, mark, written["server"], Taken, Sent, Len(Text))
          /\ server \notin Ending => \A k \in DOMAIN mark : Whole[k] # 0
          /\ MAXBUFF + 1 =< PIPE_BUF => \A k \in DOMAIN mark : k + Whole[k] =< Len(Whole)
    BY <2>2, Zenon DEF Framed
  <2>5. client' = "data" => mesg_len'["client"] # 0
    BY <2>2, <2>3 DEF Framed
  <2>6. server' \notin Lost =>
          LastFrame(Whole', mark, written'["server"], Taken', Sent', Len(Text'))
    <3>1. SUFFICES ASSUME server' \notin Lost
                   PROVE  LastFrame(Whole', mark, written'["server"], Taken', Sent', Len(Text'))
      OBVIOUS
    <3>2. server \notin Lost /\ Sent' = Sent
      BY <3>1
    <3>3. LastFrame(Whole, mark, written["server"], Taken, Sent, Len(Text))
      BY <2>4, <3>2
    <3>4. CASE server \in Sends
      BY <2>3, <3>1, <3>2, <3>3, <3>4
    <3>5. CASE server \notin Sends
      <4>1. written["server"] = 0
        BY <2>2, <3>2, <3>5 DEF Splits
      <4>2. AllWhole(Whole, mark, Taken, Sent)
        BY <3>3, <4>1 DEF LastFrame
      <4>3. AllWhole(Whole', mark, Taken', Sent') /\ written'["server"] = 0
        BY <2>3, <3>2, <4>1, <4>2
      <4>. QED
        BY <4>3 DEF LastFrame
    <3>. QED
      BY <3>4, <3>5
  <2>7. server' \notin Ending => server \notin Ending
    OBVIOUS
  <2>8. Reply' = Reply /\ PIPE_BUF' = PIPE_BUF
    BY FixedSame
  <2>. QED
    BY <2>3, <2>4, <2>5, <2>6, <2>7, <2>8, Zenon DEF Framed
<1>. QED
  BY <1>1, <1>2

LEMMA StillSame ==
  ASSUME Still
  PROVE  /\ program' = program /\ name' = name /\ target' = target /\ offset' = offset
         /\ buff' = buff /\ printed' = printed /\ stream' = stream /\ PIPE_BUF' = PIPE_BUF
         /\ written' = written /\ mesg_len' = mesg_len /\ queue' = queue
         /\ Streaming' = Streaming /\ S!Header' = S!Header /\ Q!One' = Q!One
         /\ Contents' = Contents /\ Answerable' = Answerable /\ Reply' = Reply /\ Total' = Total
         /\ Asked' = Asked /\ MaySplit' = MaySplit /\ Fixed
<1>1. /\ program' = program /\ name' = name /\ target' = target /\ offset' = offset
      /\ buff' = buff /\ printed' = printed /\ stream' = stream /\ PIPE_BUF' = PIPE_BUF
      /\ written' = written /\ mesg_len' = mesg_len /\ queue' = queue
  BY DEF Still, dataVars
<1>2. Fixed
  BY <1>1 DEF Fixed
<1>. QED
  BY <1>1, <1>2, FixedSame

LEMMA StillCarried ==
  ASSUME Kinds, OnStream, Carried, Still, ClientKeeps, ServerKeeps
  PROVE  OnStream' /\ Carried'
<1>1. client \in Early \cup Late \cup Lost /\ server \in Coming \cup Serving \cup Lost
  BY DEF Kinds
<1>2. client' = "send" => client = "send"
  BY <1>1, ClientKept
<1>3. OnStream'
  <2>1. SUFFICES ASSUME Streaming' PROVE OnStream'
    BY DEF OnStream
  <2>2. Streaming
    BY <2>1, StillSame
  <2>3. client' # "send" /\ client' \notin Lost => written'["client"] = 0
    BY <1>1, <2>2, StillSame, ClientKept DEF OnStream
  <2>4. ASSUME server' \in Coming
        PROVE  /\ Len(Came') =< Len(Asked') /\ \A j \in 1 .. Len(Came') : Came'[j] = Asked'[j]
               /\ client' \in Early \ {"send"} => Came' = <<>>
               /\ client' = "send" => /\ Len(Came') = written'["client"]
                                      /\ Asked' # <<>> => Len(Came') < Len(Asked')
               /\ client' \in Late => Len(Came') = Len(Asked')
               /\ Len(Asked') =< PIPE_BUF' => Came' = <<>> \/ Len(Came') = Len(Asked')
               /\ server' = "data" => mesg_len'["server"] # 0
    <3>1. server \in Coming /\ (server' = "data" <=> server = "data")
      BY <1>1, <2>4, ServerKept
    <3>2. Came' = Came
      BY <3>1, StillSame DEF Came
    <3>3. /\ Len(Came) =< Len(Asked) /\ \A j \in 1 .. Len(Came) : Came[j] = Asked[j]
          /\ client \in Early \ {"send"} => Came = <<>>
          /\ client = "send" => /\ Len(Came) = written["client"]
                                /\ Asked # <<>> => Len(Came) < Len(Asked)
          /\ client \in Late => Len(Came) = Len(Asked)
          /\ Len(Asked) =< PIPE_BUF => Came = <<>> \/ Len(Came) = Len(Asked)
          /\ server = "data" => mesg_len["server"] # 0
      BY <2>2, <3>1, Zenon DEF OnStream
    <3>4. Asked' = Asked /\ written' = written /\ PIPE_BUF' = PIPE_BUF /\ mesg_len' = mesg_len
      BY StillSame
    <3>5. /\ client' = "send" => client = "send"
          /\ client' \in Early \ {"send"} => client \in Early \ {"send"}
          /\ client' \in Late => client \in Late
      BY <1>1, ClientKept
    <3>. QED
      BY <3>1, <3>2, <3>3, <3>4, <3>5, Zenon
  <2>. QED
    BY <2>3, <2>4, Zenon DEF OnStream
<1>4. NameSent'
  BY <1>1, StillSame, ClientKept, ServerKept DEF Carried, NameSent
<1>5. Served'
  <2>1. server' \in Serving => server \in Serving
    BY <1>1, ServerKept
  <2>2. server' \in Coming \cup {"open"} => server \in Coming \cup {"open"}
    BY <1>1, ServerKept
  <2>3. server' \in {"end", "exit", "done"} => server \in {"end", "exit", "done"}
    BY <1>1, ServerKept
  <2>4. server' \in {"open", "file", "send", "send_message"} => server' = server
    BY <1>1, ServerKept
  <2>5. ASSUME server' \in Sends
        PROVE  server \in Sends /\ server' = server /\ Sent' = Sent /\ Text' = Text
    <3>1. server \in Sends /\ server' = server
      BY <1>1, <2>5, ServerKept
    <3>. QED
      BY <3>1, StillSame DEF Sent, Text
  <2>6. server' \in Sends => Part(Reply', Text', Sent')
    BY <2>5, StillSame DEF Carried, Served
  <2>7. server' \in {"send", "send_message"} => Text' # <<>> /\ Len(Text') =< MAXBUFF
    BY <2>4, <2>5 DEF Carried, Served, Sends
  <2>8. /\ server' = "send" => Len(Text') =< offset'
        /\ server' = "send_message" => Len(Text') = Total'
    BY <2>4, <2>5, StillSame DEF Carried, Served, Sends
  <2>9. /\ server' \in Serving => name' = Name
        /\ server' = "open" => buff'["server"] = name'
        /\ server' \in Coming \cup {"open"} => offset' = 0
        /\ server' = "file" => target' # "absent"
        /\ server' = "send" => target' \in {"file", "empty"}
        /\ server' = "send_message" => target' = "absent"
        /\ server' \in {"end", "exit", "done"} => target' # "directory"
    BY <2>1, <2>2, <2>3, <2>4, StillSame DEF Carried, Served
  <2>. QED
    BY <2>6, <2>7, <2>8, <2>9 DEF Served
<1>6. client' \in Reading => Taken' = Taken
  BY <1>1, StillSame, ClientKept DEF Taken
<1>7. Correct'
  BY <1>1, StillSame, ClientKept DEF Carried, Correct
<1>8. server' \notin Lost => Sent' = Sent
  <2>1. CASE server' = server
    BY <2>1, StillSame DEF Sent
  <2>2. CASE {server, server'} \subseteq Waits
    BY <2>2 DEF Sent, Waits
  <2>3. CASE server = "exit" /\ server' = "done"
    BY <2>3, StillSame DEF Sent
  <2>. QED
    BY <2>1, <2>2, <2>3 DEF ServerKeeps
<1>9. server' \in Sends => Text' = Text
  BY <1>1, StillSame, ServerKept DEF Text
<1>10. Splits'
  BY <1>1, <1>9, StillSame, ServerKept DEF Carried, Splits
<1>11. Plain' /\ Framed'
  BY <1>1, <1>6, <1>8, <1>9, StillSame, ClientKept, ServerKept, ReplyKept DEF Carried
<1>12. Queued'
  <2>1. SUFFICES ASSUME ~Streaming' PROVE Queued'
    BY DEF Queued
  <2>2. ~Streaming
    BY <2>1, StillSame
  <2>3. Boxed => Boxed'
    BY <1>1, <1>6, StillSame, ClientKept DEF Boxed
  <2>4. Replies' = Replies /\ Q!TypeOf("server")' = Q!TypeOf("server")
    BY StillSame DEF Replies, Q!QIn, Q!TypeOf
  <2>5. ASSUME Answered, client' \in Reading, server' \in Serving => server \in Serving
        PROVE  Answered'
    <3>1. PICK mark \in [1 .. Len(Replies) + 1 -> 0 .. Total] :
             /\ Follow(Reply, Replies, mark, Taken)
             /\ server \notin Lost => mark[Len(Replies) + 1] = Sent
             /\ \A k \in 1 .. Len(Replies) : Replies[k].mesg_type = Q!TypeOf("server")
             /\ server \notin Ending => \A k \in 1 .. Len(Replies) : Replies[k].text # <<>>
      BY <2>5, Zenon DEF Answered
    <3>2. client' \notin Early
      BY <1>1, <2>5, ClientKept DEF Answered
    <3>3. /\ server' \notin Lost => server \notin Lost
          /\ server' \notin Ending => server \notin Ending
      BY <1>1, ServerKept
    <3>4. Reply' = Reply /\ Total' = Total /\ Taken' = Taken
      BY <1>6, <2>5, StillSame
    <3>. QED
      BY <1>8, <2>4, <3>1, <3>2, <3>3, <3>4, Zenon DEF Answered
  <2>6. /\ server' \in Coming => server \in Coming
        /\ server' \in Serving => server \in Serving
        /\ client' \in Reading => client \in Reading
    BY <1>1, ServerKept, ClientKept
  <2>. QED
    BY <1>1, <2>2, <2>3, <2>5, <2>6 DEF Carried, Queued
<1>. QED
  BY <1>3, <1>4, <1>5, <1>7, <1>10, <1>11, <1>12 DEF Carried

LEMMA SameSteps ==
  /\ \A x, here, there : S!At(x, here, there) <=> At(x, here, there)
  /\ \A x, here, there : Q!At(x, here, there) <=> At(x, here, there)
BY DEF At, S!At, Q!At

LEMMA AtMoves ==
  ASSUME at \in [Parties -> Labels], NEW x \in Parties, NEW here, NEW there \in Labels,
         At(x, here, there)
  PROVE  /\ at[x] = here /\ at'[x] = there /\ at' \in [Parties -> Labels] /\ program' = program
         /\ \A y \in Parties : y # x => at'[y] = at[y]
BY DEF At

LEMMA ExcusedKept ==
  ASSUME Excused, name' = name, target' = target, program' = program, PIPE_BUF' = PIPE_BUF,
         \A x \in Parties : at[x] = "dead" => at'[x] = "dead"
  PROVE  Excused'
<1>1. Answerable' = Answerable
  BY DEF Answerable
<1>2. MaySplit' = MaySplit
  BY DEF MaySplit
<1>3. Disturbed => Disturbed'
  BY DEF Disturbed
<1>. QED
  BY <1>1, <1>2, <1>3 DEF Excused

LEMMA JustifiedKept ==
  ASSUME Kinds, Justified, at' \in [Parties -> Labels], name' = name, target' = target,
         program' = program, PIPE_BUF' = PIPE_BUF,
         \A x \in Parties : at[x] = "dead" => at'[x] = "dead",
         \A x \in Parties : at'[x] \in {"error", "failed"} =>
           at[x] \in {"error", "failed"} \/ Excused,
         client' \in {"wait", "done"} => client \in {"wait", "done"} \/ server \in Ending,
         server \in Ending => server' \in Ending
  PROVE  Justified'
<1>1. ASSUME NEW x \in Parties, at'[x] \in {"error", "failed"} PROVE Excused'
  <2>1. Excused
    BY <1>1 DEF Justified
  <2>. QED
    BY <2>1, ExcusedKept
<1>2. client' \in {"wait", "done"} => server' \in Ending
  BY DEF Justified
<1>. QED
  BY <1>1, <1>2 DEF Justified

LEMMA StillInvariant ==
  ASSUME TransferIInv, Still, ClientKeeps, ServerKeeps, at' \in [Parties -> Labels],
         \A x \in Parties : at[x] = "dead" => at'[x] = "dead", Opened', Present',
         \A x \in Parties : at'[x] \in {"error", "failed"} =>
           at[x] \in {"error", "failed"} \/ Excused,
         client' \in {"wait", "done"} => client \in {"wait", "done"} \/ server \in Ending
  PROVE  TransferIInv'
<1>1. Kinds /\ OnStream /\ Carried /\ Justified
  BY DEF TransferIInv
<1>2. client \in Early \cup Late \cup Lost /\ server \in Coming \cup Serving \cup Lost
  BY <1>1 DEF Kinds
<1>3. client' \in Early \cup Late \cup Lost /\ server' \in Coming \cup Serving \cup Lost
  BY <1>2, ClientKept, ServerKept
<1>4. \A x \in Parties : at'[x] = "data" => at[x] = "data"
  BY DEF Parties, ClientKeeps, ServerKeeps, Quiet, Waits, Lost, client, server
<1>5. Kinds'
  BY <1>1, <1>3, <1>4, StillSame DEF Kinds
<1>6. server \in Ending => server' \in Ending
  BY <1>2, ServerKept
<1>7. Justified'
  BY <1>1, <1>6, StillSame, JustifiedKept
<1>8. OnStream' /\ Carried'
  BY <1>1, StillCarried
<1>. QED
  BY <1>5, <1>7, <1>8 DEF TransferIInv

-----------------------------------------------------------------------------
(* The ends of the streams *)

LEMMA EndsAre ==
  /\ S!Kept("client") = {<<"client", 2, "read">>, <<"client", 1, "write">>}
  /\ S!Kept("server") = {<<"server", 1, "read">>, <<"server", 2, "write">>}
  /\ S!In("client") = 2 /\ S!Out("client") = 1 /\ S!In("server") = 1 /\ S!Out("server") = 2
  /\ \A x \in Parties : \A e \in S!Kept(x) : e[1] = x /\ e[2] \in {1, 2}
<1>1. S!In("client") = 2 /\ S!Out("client") = 1 /\ S!In("server") = 1 /\ S!Out("server") = 2
  BY DEF S!In, S!Out
<1>2. /\ S!Kept("client") = {<<"client", 2, "read">>, <<"client", 1, "write">>}
      /\ S!Kept("server") = {<<"server", 1, "read">>, <<"server", 2, "write">>}
  BY <1>1 DEF S!Kept
<1>. QED
  BY <1>1, <1>2 DEF Parties

\* While both have come, who reads and writes at the other end.
LEMMA PartnerOver ==
  ASSUME Kinds, Opened, Streaming
  PROVE  /\ client \in Talking => server \in Talking \cup Over
         /\ server \in Talking => client \in Talking \cup Over
         /\ client \in Talking /\ S!Readers(1) = {} => server \in Over
         /\ client \in Talking /\ S!Writers(2) = {} => server \in Over
         /\ server \in Talking /\ S!Readers(2) = {} => client \in Over
         /\ server \in Talking /\ S!Writers(1) = {} => client \in Over
<1>1. client \in Labels /\ server \in Labels /\ server # "fork"
  BY DEF Kinds, Parties, Coming, Serving, Lost, client, server
<1>2. client \in Talking => server \in Talking \cup Over
  BY <1>1 DEF Opened, Talking, Over
<1>3. server \in Talking => client \in Talking \cup Over
  BY <1>1 DEF Opened, Talking, Over
<1>4. client \in Talking => <<"client", 2, "read">> \in ends /\ <<"client", 1, "write">> \in ends
  BY EndsAre DEF Opened, Parties, client, server
<1>5. server \in Talking => <<"server", 1, "read">> \in ends /\ <<"server", 2, "write">> \in ends
  BY EndsAre DEF Opened, Parties, client, server
<1>6. /\ client \in Talking => S!Readers(2) # {} /\ S!Writers(1) # {}
      /\ server \in Talking => S!Readers(1) # {} /\ S!Writers(2) # {}
  <2>1. "client" \in S!Parties /\ "server" \in S!Parties
    BY DEF S!Parties
  <2>. QED
    BY <1>4, <1>5, <2>1 DEF S!Readers, S!Writers
<1>. QED
  BY <1>2, <1>3, <1>6, Zenon

LEMMA TalkOpened ==
  ASSUME Kinds, Opened, NEW x \in Parties, at[x] \in Talking, at'[x] \in Talking,
         ends' = ends, program' = program,
         \A y \in Parties : y # x => at'[y] = at[y]
  PROVE  Opened'
<1>1. Streaming' = Streaming /\ S!Named' = S!Named /\ S!Forks' = S!Forks
  BY DEF Streaming, S!Named, S!Forks
<1>2. \A y \in Parties : S!EndsOf(y)' = S!EndsOf(y) 
  BY DEF S!EndsOf
<1>3. SUFFICES ASSUME Streaming PROVE Opened'
  BY <1>1 DEF Opened
<1>4. \A y \in Parties : at'[y] = at[y] \/ (y = x /\ at[y] \in Talking /\ at'[y] \in Talking)
  OBVIOUS
<1>5. "client" \in Parties /\ "server" \in Parties
  BY DEF Parties
<1>6. /\ client' = client \/ (client \in Talking /\ client' \in Talking)
      /\ server' = server \/ (server \in Talking /\ server' \in Talking)
  BY <1>4, <1>5 DEF client, server
<1>7. \A y \in Parties : at'[y] \in Talking => S!Kept(y) \subseteq ends'
  BY <1>3, <1>4 DEF Opened
<1>8. \A y \in Parties : at'[y] \in {"unborn", "main", "fork", "opening"} => at'[y] = at[y]
  BY <1>4 DEF Talking
<1>9. \A y \in Parties : at'[y] = "opening" =>
        S!Named' /\ S!EndsOf(y)' \in {{}, {e \in S!Kept(y) : e[2] = 1}}
  BY <1>1, <1>2, <1>3, <1>8 DEF Opened
<1>10. S!Named' => \A y \in Parties :
         at'[y] \in {"unborn", "main", "fork"} => S!EndsOf(y)' = {}
  BY <1>1, <1>2, <1>3, <1>8 DEF Opened
<1>11. S!Forks' /\ client' \in {"main", "fork"} => server' = "unborn"
  BY <1>1, <1>3, <1>6 DEF Opened, Talking
<1>12. /\ server' \notin {"unborn", "main", "opening", "dead"} =>
            client' \notin {"unborn", "main", "fork", "opening"}
       /\ client' \notin {"unborn", "main", "fork", "opening", "dead"} =>
            server' \notin {"unborn", "main", "opening"}
  BY <1>3, <1>6 DEF Opened, Talking, Over
<1>13. client' = "fork" => S!Forks'
  BY <1>1, <1>3, <1>6 DEF Opened, Talking
<1>. QED
  BY <1>7, <1>9, <1>10, <1>11, <1>12, <1>13 DEF Opened

LEMMA CloseOpened ==
  ASSUME Kinds, Opened, NEW x \in Parties, at[x] \notin Over \cup {"unborn"}, at'[x] \in Over,
         at'[x] = "dead" \/ at[x] \in Talking,
         ends' = ends \ S!EndsOf(x), program' = program,
         \A y \in Parties : y # x => at'[y] = at[y]
  PROVE  Opened'
<1>1. Streaming' = Streaming /\ S!Named' = S!Named /\ S!Forks' = S!Forks
  BY DEF Streaming, S!Named, S!Forks
<1>2. \A y \in Parties : y # x => S!EndsOf(y)' = S!EndsOf(y) 
  BY DEF S!EndsOf
<1>3. SUFFICES ASSUME Streaming PROVE Opened'
  BY <1>1 DEF Opened
<1>4. "client" \in Parties /\ "server" \in Parties
  BY DEF Parties
<1>5. /\ \/ client' = client
         \/ /\ client \notin {"unborn"} /\ client' \in Over
            /\ client' = "dead" \/ client \in Talking
            /\ server' = server
      /\ \/ server' = server
         \/ /\ server \notin {"unborn"} /\ server' \in Over
            /\ server' = "dead" \/ server \in Talking
            /\ client' = client
  <2>1. CASE x = "client"
    <3>1. server' = server
      BY <1>4, <2>1 DEF client, server
    <3>2. /\ client \notin {"unborn"} /\ client' \in Over
          /\ client' = "dead" \/ client \in Talking
      BY <2>1 DEF client, server
    <3>. QED
      BY <3>1, <3>2
  <2>2. CASE x = "server"
    <3>1. client' = client
      BY <1>4, <2>2 DEF client, server
    <3>2. /\ server \notin {"unborn"} /\ server' \in Over
          /\ server' = "dead" \/ server \in Talking
      BY <2>2 DEF client, server
    <3>. QED
      BY <3>1, <3>2
  <2>. QED
    BY <2>1, <2>2 DEF Parties
<1>6. ASSUME NEW y \in Parties, at'[y] \in Talking PROVE S!Kept(y) \subseteq ends'
  <2>1. y # x /\ at[y] \in Talking
    BY <1>6 DEF Talking
  <2>2. S!Kept(y) \subseteq ends
    BY <1>3, <2>1 DEF Opened
  <2>3. \A e \in S!Kept(y) : e[1] # x
    BY <2>1, EndsAre
  <2>. QED
    BY <2>2, <2>3 DEF S!EndsOf
<1>7. \A y \in Parties : at'[y] \in {"unborn", "main", "fork", "opening"} => at'[y] = at[y] /\ y # x
  BY DEF Over
<1>8. \A y \in Parties : at'[y] = "opening" =>
        S!Named' /\ S!EndsOf(y)' \in {{}, {e \in S!Kept(y) : e[2] = 1}}
  BY <1>1, <1>2, <1>3, <1>7 DEF Opened
<1>9. S!Named' => \A y \in Parties :
        at'[y] \in {"unborn", "main", "fork"} => S!EndsOf(y)' = {}
  BY <1>1, <1>2, <1>3, <1>7 DEF Opened
<1>10. S!Forks' /\ client' \in {"main", "fork"} => server' = "unborn"
  BY <1>1, <1>3, <1>5, <1>7 DEF Opened, Over
<1>11. server' \notin {"unborn", "main", "opening", "dead"} =>
            client' \notin {"unborn", "main", "fork", "opening"}
  BY <1>3, <1>5 DEF Opened, Talking, Over
<1>12. client' \notin {"unborn", "main", "fork", "opening", "dead"} =>
            server' \notin {"unborn", "main", "opening"}
  BY <1>3, <1>5 DEF Opened, Talking, Over
<1>13. client' = "fork" => S!Forks'
  BY <1>1, <1>3, <1>5, <1>7 DEF Opened, Over
<1>. QED
  BY <1>6, <1>8, <1>9, <1>10, <1>11, <1>12, <1>13 DEF Opened

\* A party in client() or server() goes on, and nothing is sent or closed.
LEMMA StillTalk ==
  ASSUME TransferIInv, Still, NEW x \in Parties, NEW here \in Talking \ Lost, NEW there \in Talking,
         At(x, here, there), ends' = ends, live' = live, ClientKeeps, ServerKeeps,
         there = "error" => Excused, x = "client" /\ there = "wait" => server \in Ending
  PROVE  TransferIInv'
<1>1. Kinds /\ Opened /\ Present
  BY DEF TransferIInv
<1>2. at \in [Parties -> Labels] /\ there \in Labels
  BY <1>1 DEF Kinds, Talking
<1>3. /\ at[x] = here /\ at'[x] = there /\ at' \in [Parties -> Labels] /\ program' = program
      /\ \A y \in Parties : y # x => at'[y] = at[y]
  BY <1>2, AtMoves
<1>4. Opened'
  BY <1>1, <1>3, TalkOpened
<1>5. /\ client' = client \/ (client = here /\ client' = there /\ x = "client")
      /\ server' = server \/ (server = here /\ server' = there /\ x = "server")
  BY <1>3 DEF Parties, client, server
<1>6. Present'
  BY <1>1, <1>5, StillSame DEF Present, Talking, Over, Lost, Streaming, Q!Keys, Q!One
<1>7. \A y \in Parties : at[y] = "dead" => at'[y] = "dead"
  BY <1>3 DEF Lost
<1>8. \A y \in Parties : at'[y] \in {"error", "failed"} => at[y] \in {"error", "failed"} \/ Excused
  <2>1. there # "failed"
    BY DEF Talking, Over
  <2>. QED
    BY <1>3, <2>1
<1>9. client' \in {"wait", "done"} => client \in {"wait", "done"} \/ server \in Ending
  BY <1>5 DEF Talking, Over
<1>. QED
  BY <1>3, <1>4, <1>6, <1>7, <1>8, <1>9, StillInvariant

\* A party ends, and with it what it has open.
LEMMA StillOver ==
  ASSUME TransferIInv, Still, NEW x \in Parties, NEW here, NEW there \in Over,
         At(x, here, there), here \notin Over \cup {"unborn"}, there = "dead" \/ here \in Talking,
         Streaming => ends' = ends \ S!EndsOf(x), live' = live, ClientKeeps, ServerKeeps,
         there = "failed" => here = "error",
         there = "done" => here = IF x = "client" THEN "wait" ELSE "exit"
  PROVE  TransferIInv'
<1>1. Kinds /\ Opened /\ Present
  BY DEF TransferIInv
<1>2. at \in [Parties -> Labels] /\ there \in Labels
  BY <1>1 DEF Kinds, Over, Labels
<1>3. /\ at[x] = here /\ at'[x] = there /\ at' \in [Parties -> Labels] /\ program' = program
      /\ \A y \in Parties : y # x => at'[y] = at[y]
  BY <1>2, AtMoves
<1>4. Opened'
  <2>1. CASE Streaming
    BY <1>1, <1>3, <2>1, CloseOpened
  <2>2. CASE ~Streaming
    BY <2>2, StillSame DEF Opened
  <2>. QED
    BY <2>1, <2>2
<1>5. /\ client' = client \/ (client = here /\ client' = there /\ x = "client")
      /\ server' = server \/ (server = here /\ server' = there /\ x = "server")
  BY <1>3 DEF Parties, client, server
<1>6. Present'
  <2>1. Streaming' = Streaming /\ Q!Keys' = Q!Keys
    BY StillSame DEF Q!Keys
  <2>2. client' \in {"done"} \cup Lost \/ client' = client
    BY <1>5 DEF Over, Lost
  <2>3. /\ server' \notin {"main"} \cup Lost => server \notin {"main"} \cup Lost
        /\ client' # "done" => client # "done"
    <3>1. server' = server \/ server' \in Lost \/ server = "exit"
      BY <1>5 DEF Over, Lost
    <3>2. client' = client \/ client # "done"
      BY <1>5 DEF Over
    <3>. QED
      BY <3>1, <3>2 DEF Lost
  <2>. QED
    BY <1>1, <2>1, <2>2, <2>3 DEF Present
<1>7. \A y \in Parties : at[y] = "dead" => at'[y] = "dead"
  BY <1>3 DEF Over
<1>8. \A y \in Parties : at'[y] \in {"error", "failed"} => at[y] \in {"error", "failed"} \/ Excused
  BY <1>3 DEF Over
<1>9. client' \in {"wait", "done"} => client \in {"wait", "done"} \/ server \in Ending
  BY <1>5 DEF Over
<1>. QED
  BY <1>3, <1>4, <1>6, <1>7, <1>8, <1>9, StillInvariant

-----------------------------------------------------------------------------
(* main() *)

\* In main() nothing fails.
LEMMA StillBegins ==
  ASSUME TransferIInv, Still, at' \in [Parties -> Labels], ClientKeeps, ServerKeeps,
         client' \notin {"error", "failed", "wait", "done"} \/ client' = client,
         server' \notin {"error", "failed"} \/ server' = server,
         client # "dead" \/ client' = client, server # "dead" \/ server' = server,
         Opened', Present'
  PROVE  TransferIInv'
<1>1. \A y \in Parties : at[y] = "dead" => at'[y] = "dead"
  BY DEF Parties, client, server
<1>2. \A y \in Parties : at'[y] \in {"error", "failed"} => at[y] \in {"error", "failed"} \/ Excused
  BY DEF Parties, client, server
<1>3. client' \in {"wait", "done"} => client \in {"wait", "done"} \/ server \in Ending
  OBVIOUS
<1>. QED
  BY <1>1, <1>2, <1>3, StillInvariant

LEMMA CreateKeeps ==
  ASSUME TransferIInv, Streaming, S!Create, UNCHANGED queues
  PROVE  TransferIInv'
<1>1. Kinds /\ Opened /\ Present
  BY DEF TransferIInv
<1>2. PICK there : there = IF S!Forks THEN "fork" ELSE "opening"
  OBVIOUS
<1>3. PICK x \in Parties : x = S!Creator
  BY DEF S!Creator, Parties
<1>4. At(x, "main", there)
  BY <1>2, <1>3, SameSteps DEF S!Create
<1>5. Still
  BY <1>4 DEF S!Create, At, Still, queues, dataVars, S!dataVars
<1>6. at \in [Parties -> Labels] /\ there \in Labels
  BY <1>1, <1>2 DEF Kinds, Labels
<1>7. /\ at[x] = "main" /\ at'[x] = there /\ at' \in [Parties -> Labels] /\ program' = program
      /\ \A y \in Parties : y # x => at'[y] = at[y]
  BY <1>4, <1>6, AtMoves
<1>8. \/ /\ S!Forks /\ client = "main" /\ client' = "fork" /\ server' = server /\ x = "client"
      \/ /\ ~S!Forks /\ server = "main" /\ server' = "opening" /\ client' = client /\ x = "server"
  BY <1>2, <1>3, <1>7 DEF S!Creator, Parties, client, server
<1>9. ClientKeeps /\ ServerKeeps
  BY <1>8 DEF ClientKeeps, ServerKeeps, Quiet, Waits
<1>10. Streaming' = Streaming /\ S!Named' = S!Named /\ S!Forks' = S!Forks
  BY <1>7 DEF Streaming, S!Named, S!Forks
<1>11. Present'
  BY <1>10 DEF Present
<1>12. Opened'
  <2>1. CASE S!Named
    <3>1. \A y \in Parties : S!EndsOf(y)' = S!EndsOf(y) /\ ends' = ends
      BY <2>1 DEF S!Create, S!EndsOf
    <3>2. \A y \in Parties : at'[y] \in Talking => S!Kept(y) \subseteq ends'
      BY <1>1, <1>2, <1>7, <3>1 DEF Opened, Talking
    <3>3. \A y \in Parties : at'[y] = "opening" =>
            S!Named' /\ S!EndsOf(y)' \in {{}, {e \in S!Kept(y) : e[2] = 1}}
      BY <1>1, <1>7, <1>10, <2>1, <3>1 DEF Opened
    <3>4. \A y \in Parties : at'[y] \in {"unborn", "main", "fork"} => S!EndsOf(y)' = {}
      BY <1>1, <1>7, <2>1, <3>1 DEF Opened
    <3>5. S!Forks' /\ client' \in {"main", "fork"} => server' = "unborn"
      BY <1>1, <1>8, <1>10 DEF Opened
    <3>6. server' \notin {"unborn", "main", "opening", "dead"} =>
            client' \notin {"unborn", "main", "fork", "opening"}
      BY <1>1, <1>8 DEF Opened
    <3>7. client' \notin {"unborn", "main", "fork", "opening", "dead"} =>
            server' \notin {"unborn", "main", "opening"}
      BY <1>1, <1>8 DEF Opened
    <3>8. client' = "fork" => S!Forks'
      BY <1>1, <1>8, <1>10 DEF Opened
    <3>. QED
      BY <3>2, <3>3, <3>4, <3>5, <3>6, <3>7, <3>8 DEF Opened
  <2>2. CASE ~S!Named
    <3>1. S!Forks
      BY <2>2 DEF S!Named, S!Forks
    <3>2. client' = "fork" /\ server' = "unborn"
      BY <1>1, <1>8, <3>1 DEF Opened
    <3>3. \A y \in Parties : at'[y] \in {"fork", "unborn"}
      BY <3>2 DEF Parties, client, server
    <3>4. \A y \in Parties : at'[y] \notin Talking /\ at'[y] # "opening"
      BY <3>3 DEF Talking
    <3>. QED
      BY <1>10, <2>2, <3>1, <3>2, <3>4 DEF Opened
  <2>. QED
    BY <2>1, <2>2
<1>. QED
  BY <1>5, <1>7, <1>8, <1>9, <1>11, <1>12, StillBegins

LEMMA ForkKeeps ==
  ASSUME TransferIInv, Streaming, S!Fork, UNCHANGED queues
  PROVE  TransferIInv'
<1>1. Kinds /\ Opened /\ Present
  BY DEF TransferIInv
<1>2. client = "fork" /\ server = "unborn"
  BY <1>1 DEF S!Fork, Opened, client
<1>3. PICK there : there = IF S!Named THEN "opening" ELSE "close"
  OBVIOUS
<1>4. at' = [y \in Parties |-> there] /\ there \in Labels
  BY <1>3 DEF S!Fork, Parties, S!Parties, Labels
<1>5. client' = there /\ server' = there /\ at' \in [Parties -> Labels]
      /\ \A y \in Parties : at'[y] = there
  BY <1>4 DEF Parties, client, server
<1>6. Still
  BY DEF S!Fork, Still, queues, dataVars, S!dataVars
<1>7. ClientKeeps /\ ServerKeeps
  BY <1>2, <1>3, <1>5 DEF ClientKeeps, ServerKeeps, Quiet, Waits
<1>8. Streaming' = Streaming /\ S!Named' = S!Named /\ S!Forks' = S!Forks
  BY DEF S!Fork, Streaming, S!Named, S!Forks
<1>9. Present'
  BY <1>8 DEF Present
<1>10. Opened'
  <2>1. CASE S!Named
    <3>1. \A y \in Parties : S!EndsOf(y)' = S!EndsOf(y)
      BY <2>1 DEF S!Fork, S!EndsOf
    <3>2. \A y \in Parties : S!EndsOf(y) = {}
      BY <1>1, <1>2, <2>1 DEF Opened, Parties, client, server
    <3>3. \A y \in Parties : at'[y] = "opening" /\ at'[y] \notin Talking
      BY <1>3, <1>5, <2>1 DEF Talking
    <3>4. client' = "opening" /\ server' = "opening"
      BY <1>3, <1>5, <2>1
    <3>. QED
      BY <1>8, <2>1, <3>1, <3>2, <3>3, <3>4 DEF Opened
  <2>2. CASE ~S!Named
    <3>1. ends' = Parties \X {1, 2} \X {"read", "write"}
      BY <2>2 DEF S!Fork, S!Both, Parties, S!Parties
    <3>2. \A y \in Parties : S!Kept(y) \subseteq ends'
      BY <3>1, EndsAre DEF Parties
    <3>3. client' = "close" /\ server' = "close" /\ \A y \in Parties : at'[y] = "close"
      BY <1>3, <1>5, <2>2
    <3>. QED
      BY <1>8, <2>2, <3>2, <3>3 DEF Opened
  <2>. QED
    BY <2>1, <2>2
<1>11. client' \in {"opening", "close"} /\ server' \in {"opening", "close"}
  BY <1>3, <1>5
<1>. QED
  BY <1>2, <1>5, <1>6, <1>7, <1>9, <1>10, <1>11, StillBegins

LEMMA ClientStartKeeps ==
  ASSUME TransferIInv, Streaming, S!ClientStart, UNCHANGED queues
  PROVE  TransferIInv'
<1>1. Kinds /\ Opened /\ Present
  BY DEF TransferIInv
<1>2. At("client", "main", "opening") /\ ~S!Forks
  BY SameSteps DEF S!ClientStart
<1>3. Still /\ ends' = ends
  BY <1>2 DEF S!ClientStart, At, Still, queues, dataVars, S!dataVars, S!streamVars
<1>4. /\ at["client"] = "main" /\ at'["client"] = "opening" /\ at' \in [Parties -> Labels]
      /\ program' = program /\ \A y \in Parties : y # "client" => at'[y] = at[y]
  BY <1>1, <1>2, AtMoves DEF Kinds, Labels, Parties
<1>5. client = "main" /\ client' = "opening" /\ server' = server
  BY <1>4 DEF Parties, client, server
<1>6. ClientKeeps /\ ServerKeeps
  BY <1>5 DEF ClientKeeps, ServerKeeps, Quiet
<1>7. Streaming' = Streaming /\ S!Named' = S!Named /\ S!Forks' = S!Forks /\ S!Named
  BY <1>2, <1>4 DEF Streaming, S!Named, S!Forks
<1>8. Present'
  BY <1>7 DEF Present
<1>9. \A y \in Parties : S!EndsOf(y)' = S!EndsOf(y)
  BY <1>3 DEF S!EndsOf
<1>10. \A y \in Parties : at'[y] \in Talking => S!Kept(y) \subseteq ends'
  BY <1>1, <1>3, <1>4 DEF Opened, Talking
<1>11. S!EndsOf("client") = {}
  BY <1>1, <1>4, <1>7 DEF Opened, Parties
<1>12. \A y \in Parties : at'[y] = "opening" =>
         S!Named' /\ S!EndsOf(y)' \in {{}, {e \in S!Kept(y) : e[2] = 1}}
  BY <1>1, <1>4, <1>7, <1>9, <1>11 DEF Opened
<1>13. \A y \in Parties : at'[y] \in {"unborn", "main", "fork"} => S!EndsOf(y)' = {}
  BY <1>1, <1>4, <1>7, <1>9 DEF Opened
<1>14. Opened'
  BY <1>1, <1>2, <1>5, <1>7, <1>10, <1>12, <1>13 DEF Opened
<1>. QED
  BY <1>3, <1>4, <1>5, <1>6, <1>8, <1>14, StillBegins

\* Both wait for the same FIFO.
LEMMA OpensSame ==
  ASSUME Kinds, Opened, Streaming, NEW c \in S!Both, S!OpenBoth(c)
  PROVE  \/ c = 1 /\ \A x \in Parties : S!EndsOf(x) = {}
         \/ c = 2 /\ \A x \in Parties : /\ S!EndsOf(x) = {e \in S!Kept(x) : e[2] = 1}
                                       /\ S!EndsOf(x) # {}
<1>1. \A T : S!Cardinality(T) = Cardinality(T)
  BY DEF S!Cardinality, Cardinality
<1>2. ASSUME NEW x \in Parties
      PROVE  \/ c = 1 /\ S!EndsOf(x) = {}
             \/ c = 2 /\ S!EndsOf(x) = {e \in S!Kept(x) : e[2] = 1} /\ S!EndsOf(x) # {}
  <2>1. at[x] = "opening" /\ <<1, 2>>[S!Cardinality(S!EndsOf(x)) + 1] = c
    BY <1>2 DEF S!OpenBoth, S!Opens, Parties, S!Parties
  <2>2. PICK n : n = Cardinality(S!EndsOf(x))
    OBVIOUS
  <2>3. <<1, 2>>[n + 1] = c
    BY <1>1, <2>1, <2>2
  <2>4. S!EndsOf(x) \in {{}, {e \in S!Kept(x) : e[2] = 1}}
    BY <2>1 DEF Opened
  <2>5. CASE S!EndsOf(x) = {}
    <3>1. n = 0
      BY <2>2, <2>5, FS_EmptySet
    <3>. QED
      BY <2>3, <2>5, <3>1
  <2>6. CASE S!EndsOf(x) = {e \in S!Kept(x) : e[2] = 1}
    <3>1. \E e : S!EndsOf(x) = {e}
      <4>1. CASE x = "client"
        <5>1. S!EndsOf(x) = {<<"client", 1, "write">>}
          BY <2>6, <4>1, EndsAre
        <5>. QED
          BY <5>1
      <4>2. CASE x = "server"
        <5>1. S!EndsOf(x) = {<<"server", 1, "read">>}
          BY <2>6, <4>2, EndsAre
        <5>. QED
          BY <5>1
      <4>. QED
        BY <4>1, <4>2 DEF Parties
    <3>2. PICK e : S!EndsOf(x) = {e}
      BY <3>1
    <3>3. n = 1
      BY <2>2, <3>2, FS_Singleton
    <3>. QED
      BY <2>3, <2>6, <3>2, <3>3
  <2>. QED
    BY <2>4, <2>5, <2>6
<1>3. CASE c = 1
  BY <1>2, <1>3
<1>4. CASE c = 2
  BY <1>2, <1>4
<1>. QED
  BY <1>3, <1>4 DEF S!Both

LEMMA OpenBothKeeps ==
  ASSUME TransferIInv, Streaming, NEW c \in S!Both, S!OpenBoth(c), UNCHANGED queues
  PROVE  TransferIInv'
<1>1. Kinds /\ Opened /\ Present
  BY DEF TransferIInv
<1>2. client = "opening" /\ server = "opening" /\ \A x \in Parties : at[x] = "opening"
  BY DEF S!OpenBoth, client, server, Parties, S!Parties
<1>3. Still
  BY DEF S!OpenBoth, Still, queues, dataVars, S!dataVars
<1>4. Streaming' = Streaming /\ S!Named' = S!Named /\ S!Forks' = S!Forks /\ S!Named
  BY <1>1, <1>2 DEF S!OpenBoth, Streaming, S!Named, S!Forks, Opened, Parties
<1>5. Present'
  BY <1>4 DEF Present
<1>6. ends' = ends \cup {e \in S!Kept("client") \cup S!Kept("server") : e[2] = c}
  BY DEF S!OpenBoth
<1>7. at' = [x \in Parties |-> IF S!EndsOf(x) = {} THEN "opening" ELSE S!Start(x)]
  BY DEF S!OpenBoth, Parties, S!Parties
<1>8. \A x \in Parties : S!EndsOf(x)' = S!EndsOf(x) \cup {e \in S!Kept(x) : e[2] = c}
  BY <1>6, EndsAre DEF S!EndsOf, Parties
<1>9. CASE c = 1
  <2>1. \A x \in Parties : S!EndsOf(x) = {}
    BY <1>1, <1>9, OpensSame
  <2>2. \A x \in Parties : at'[x] = "opening"
    BY <1>7, <2>1
  <2>3. client' = "opening" /\ server' = "opening" /\ at' \in [Parties -> Labels]
    BY <1>7, <2>1, <2>2 DEF Parties, client, server, Labels
  <2>4. \A x \in Parties : S!EndsOf(x)' = {e \in S!Kept(x) : e[2] = 1}
    BY <1>8, <1>9, <2>1
  <2>5. \A x \in Parties : at'[x] \notin Talking
    BY <2>2 DEF Talking
  <2>6. Opened'
    BY <1>4, <2>2, <2>3, <2>4, <2>5 DEF Opened
  <2>7. ClientKeeps /\ ServerKeeps
    BY <1>2, <2>3 DEF ClientKeeps, ServerKeeps
  <2>. QED
    BY <1>2, <1>3, <1>5, <2>3, <2>6, <2>7, StillBegins
<1>10. CASE c = 2
  <2>1. \A x \in Parties : S!EndsOf(x) # {} /\ S!EndsOf(x) = {e \in S!Kept(x) : e[2] = 1}
    BY <1>1, <1>10, OpensSame
  <2>2. \A x \in Parties : at'[x] = S!Start(x)
    BY <1>7, <2>1
  <2>3. client' = "ask" /\ server' = "receive" /\ at' \in [Parties -> Labels]
    BY <1>7, <2>1, <2>2 DEF Parties, client, server, Labels, S!Start
  <2>4. \A x \in Parties : S!Kept(x) \subseteq ends'
    <3>1. ASSUME NEW x \in Parties, NEW e \in S!Kept(x) PROVE e \in ends'
      <4>1. e[2] = 1 \/ e[2] = 2
        BY EndsAre
      <4>2. e[2] = 1 => e \in ends
        BY <2>1 DEF S!EndsOf
      <4>3. e[2] = 2 => e \in ends'
        BY <1>6, <1>10 DEF Parties
      <4>. QED
        BY <1>6, <4>1, <4>2, <4>3
    <3>. QED
      BY <3>1
  <2>5. \A x \in Parties : at'[x] \in {"ask", "receive"}
    BY <2>3 DEF Parties, client, server
  <2>6. Opened'
    BY <1>4, <2>3, <2>4, <2>5 DEF Opened
  <2>7. ClientKeeps /\ ServerKeeps
    BY <1>2, <2>3 DEF ClientKeeps, ServerKeeps, Quiet, Waits
  <2>. QED
    BY <1>2, <1>3, <1>5, <2>3, <2>6, <2>7, StillBegins
<1>. QED
  BY <1>9, <1>10 DEF S!Both

LEMMA CloseUnusedKeeps ==
  ASSUME TransferIInv, Streaming, NEW x \in Parties, S!CloseUnused(x), UNCHANGED queues
  PROVE  TransferIInv'
<1>1. Kinds /\ Opened /\ Present
  BY DEF TransferIInv
<1>2. At(x, "close", S!Start(x)) /\ S!Start(x) \in {"ask", "receive"}
  BY SameSteps DEF S!CloseUnused, S!Start
<1>3. Still
  BY <1>2 DEF S!CloseUnused, Still, queues, dataVars, S!dataVars, At
<1>4. /\ at[x] = "close" /\ at'[x] = S!Start(x) /\ at' \in [Parties -> Labels]
      /\ program' = program /\ \A y \in Parties : y # x => at'[y] = at[y]
  BY <1>1, <1>2, AtMoves DEF Kinds, Labels
<1>5. Streaming' = Streaming /\ S!Named' = S!Named /\ S!Forks' = S!Forks
  BY <1>4 DEF Streaming, S!Named, S!Forks
<1>6. \/ x = "client" /\ client = "close" /\ client' = "ask" /\ server' = server
      \/ x = "server" /\ server = "close" /\ server' = "receive" /\ client' = client
  BY <1>4 DEF S!Start, Parties, client, server
<1>7. ClientKeeps /\ ServerKeeps
  BY <1>6 DEF ClientKeeps, ServerKeeps, Quiet, Waits
<1>8. Present'
  BY <1>5 DEF Present
<1>9. ends' = (ends \ S!EndsOf(x)) \cup S!Kept(x)
  BY DEF S!CloseUnused
<1>10. \A y \in Parties : y # x => S!EndsOf(y)' = S!EndsOf(y)
  BY <1>9, EndsAre DEF S!EndsOf
<1>11. ASSUME NEW y \in Parties, at'[y] \in Talking PROVE S!Kept(y) \subseteq ends'
  <2>1. CASE y = x
    BY <1>9, <2>1
  <2>2. CASE y # x
    <3>1. S!Kept(y) \subseteq ends
      BY <1>1, <1>4, <1>11, <2>2 DEF Opened
    <3>2. \A e \in S!Kept(y) : e[1] # x
      BY <2>2, EndsAre
    <3>. QED
      BY <1>9, <3>1, <3>2 DEF S!EndsOf
  <2>. QED
    BY <2>1, <2>2
<1>12. \A y \in Parties : at'[y] \in {"unborn", "main", "fork", "opening"} => y # x
  BY <1>2, <1>4
<1>13. \A y \in Parties : at'[y] = "opening" =>
         S!Named' /\ S!EndsOf(y)' \in {{}, {e \in S!Kept(y) : e[2] = 1}}
  BY <1>1, <1>4, <1>5, <1>10, <1>12 DEF Opened
<1>14. S!Named' => \A y \in Parties :
         at'[y] \in {"unborn", "main", "fork"} => S!EndsOf(y)' = {}
  BY <1>1, <1>4, <1>5, <1>10, <1>12 DEF Opened
<1>15. S!Forks' /\ client' \in {"main", "fork"} => server' = "unborn"
  BY <1>1, <1>5, <1>6 DEF Opened
<1>16. server' \notin {"unborn", "main", "opening", "dead"} =>
            client' \notin {"unborn", "main", "fork", "opening"}
  BY <1>1, <1>6 DEF Opened
<1>17. client' \notin {"unborn", "main", "fork", "opening", "dead"} =>
            server' \notin {"unborn", "main", "opening"}
  BY <1>1, <1>6 DEF Opened
<1>18. client' = "fork" => S!Forks'
  BY <1>1, <1>5, <1>6 DEF Opened
<1>19. Opened'
  BY <1>11, <1>13, <1>14, <1>15, <1>16, <1>17, <1>18 DEF Opened
<1>. QED
  BY <1>3, <1>4, <1>6, <1>7, <1>8, <1>19, StillBegins

-----------------------------------------------------------------------------
(* The end of a party *)

\* wait, close and exit; err_sys and SIGPIPE; and a kill.
LEMMA EndsKeep ==
  ASSUME TransferIInv, Still, live' = live, NEW x \in Parties,
         Streaming => ends' = ends \ S!EndsOf(x),
         \/ x = "client" /\ At(x, "wait", "done")
         \/ x = "server" /\ At(x, "exit", "done")
         \/ At(x, "error", "failed")
         \/ at[x] \notin Over \cup {"unborn", "error"} /\ At(x, at[x], "dead")
  PROVE  TransferIInv'
<1>1. PICK here, there : At(x, here, there) /\
         \/ x = "client" /\ here = "wait" /\ there = "done"
         \/ x = "server" /\ here = "exit" /\ there = "done"
         \/ here = "error" /\ there = "failed"
         \/ here \notin Over \cup {"unborn", "error"} /\ there = "dead"
  OBVIOUS
<1>2. there \in Over /\ there \in Labels
  BY <1>1 DEF Over, Labels
<1>3. at \in [Parties -> Labels]
  BY DEF TransferIInv, Kinds
<1>4. at[x] = here /\ at'[x] = there /\ \A y \in Parties : y # x => at'[y] = at[y]
  BY <1>1, <1>2, <1>3, AtMoves
<1>5. here \notin Over \cup {"unborn"} /\ (there = "dead" \/ here \in Talking)
  BY <1>1 DEF Over, Talking, Labels
<1>6. \/ x = "client" /\ client = here /\ client' = there /\ server' = server
      \/ x = "server" /\ server = here /\ server' = there /\ client' = client
  BY <1>4 DEF Parties, client, server
<1>7. ClientKeeps /\ ServerKeeps
  BY <1>1, <1>6 DEF ClientKeeps, ServerKeeps, Lost
<1>8. there = "failed" => here = "error"
  BY <1>1
<1>9. there = "done" => here = IF x = "client" THEN "wait" ELSE "exit"
  BY <1>1
<1>. QED
  BY <1>1, <1>2, <1>5, <1>7, <1>8, <1>9, StillOver

LEMMA StreamEndKeeps ==
  ASSUME TransferIInv, Streaming, NEW x \in Parties, UNCHANGED queues,
         \/ x = "client" /\ S!ClientEnd
         \/ x = "server" /\ S!ServerEnd
         \/ S!Fails(x) \/ S!StreamKill(x)
  PROVE  TransferIInv'
<1>1. \/ x = "client" /\ At(x, "wait", "done")
      \/ x = "server" /\ At(x, "exit", "done")
      \/ At(x, "error", "failed")
      \/ at[x] \notin Over \cup {"unborn", "error"} /\ At(x, at[x], "dead")
  BY SameSteps DEF S!ClientEnd, S!ServerEnd, S!Fails, S!StreamKill, S!Fail, S!Kill, S!Over, Over
<1>2. Still
  BY <1>1 DEF S!ClientEnd, S!ServerEnd, S!Fails, S!StreamKill, Still, queues, dataVars,
     S!dataVars, At
<1>3. ends' = ends \ S!EndsOf(x) /\ live' = live
  BY DEF S!ClientEnd, S!ServerEnd, S!Fails, S!StreamKill, S!Closes, queues
<1>. QED
  BY <1>1, <1>2, <1>3, EndsKeep

LEMMA QueueEndKeeps ==
  ASSUME TransferIInv, ~Streaming, NEW x \in Parties, UNCHANGED streams,
         \/ x = "server" /\ Q!ServerEnd
         \/ Q!Fail(x) /\ UNCHANGED <<Q!dataVars, Q!queueVars>>
         \/ Q!QueueKill(x)
  PROVE  TransferIInv'
<1>1. \/ x = "server" /\ At(x, "exit", "done")
      \/ At(x, "error", "failed")
      \/ at[x] \notin Over \cup {"unborn", "error"} /\ At(x, at[x], "dead")
  BY SameSteps DEF Q!ServerEnd, Q!QueueKill, Q!Fail, Q!Kill, Q!Over, Over
<1>2. Still
  BY <1>1 DEF Q!ServerEnd, Q!QueueKill, Still, streams, dataVars,
     Q!dataVars, Q!queueVars, At
<1>3. live' = live
  BY DEF Q!ServerEnd, Q!QueueKill, Q!queueVars
<1>. QED
  BY <1>1, <1>2, <1>3, EndsKeep

-----------------------------------------------------------------------------
(* A call fails or returns the end, and nothing is sent *)

\* Who has ended before the other has come so far did not end by exit.
LEMMA GoneExcused ==
  ASSUME Kinds, Justified, NEW x \in Parties, at[x] \in Over, at[x] # "done"
  PROVE  Excused
BY DEF Over, Justified, Excused, Disturbed

\* write: SIGPIPE
LEMMA WriteBreaks ==
  ASSUME TransferIInv, Streaming, NEW x \in Parties, NEW s \in SendsOf(x),
         At(x, s[1], "error"), S!Readers(S!Out(x)) = {}, Still, ends' = ends, live' = live
  PROVE  TransferIInv'
<1>1. Kinds /\ Opened /\ NameSent /\ Justified
  BY DEF TransferIInv, Carried
<1>2. s[1] \in {"send", "send_message", "end"} /\ (x = "client" => s[1] = "send")
  BY DEF SendsOf, Parties
<1>3. s[1] \in Talking \ Lost /\ "error" \in Talking
  BY <1>2 DEF Talking, Labels, Lost, Over
<1>4. /\ at[x] = s[1] /\ at'[x] = "error" /\ \A y \in Parties : y # x => at'[y] = at[y]
  BY <1>1, AtMoves DEF Kinds, Labels
<1>5. CASE x = "client"
  <2>1. client = "send" /\ client' = "error" /\ server' = server
    BY <1>2, <1>4, <1>5 DEF Parties, client, server
  <2>2. server \in Over
    BY <1>1, <1>3, <1>5, <2>1, <1>2, EndsAre, PartnerOver
  <2>3. server # "done"
    BY <1>1, <2>1 DEF NameSent, Serving, Late, Lost
  <2>4. Excused
    BY <1>1, <2>2, <2>3, GoneExcused DEF server, Parties
  <2>5. ClientKeeps /\ ServerKeeps
    BY <2>1 DEF ClientKeeps, ServerKeeps, Lost
  <2>. QED
    BY <1>3, <2>4, <2>5, StillTalk
<1>6. CASE x = "server"
  <2>1. server \in Sends /\ server' = "error" /\ client' = client /\ server = s[1]
    BY <1>2, <1>4, <1>6 DEF Parties, client, server, Sends
  <2>2. client \in Over
    BY <1>1, <1>3, <1>6, <2>1, EndsAre, PartnerOver
  <2>3. client # "done"
    BY <1>1, <2>1 DEF Justified, Ending, Sends, Lost
  <2>4. Excused
    BY <1>1, <2>2, <2>3, GoneExcused DEF client, Parties
  <2>5. ClientKeeps /\ ServerKeeps
    BY <2>1 DEF ClientKeeps, ServerKeeps, Lost
  <2>. QED
    BY <1>3, <2>4, <2>5, StillTalk
<1>. QED
  BY <1>5, <1>6 DEF Parties

\* read: the end of the stream
LEMMA ReadEnds ==
  ASSUME TransferIInv, Streaming, NEW x \in Parties, S!AtEnd(x), At(x, "receive", Ended(x)),
         Still, ends' = ends, live' = live
  PROVE  TransferIInv'
<1>1. Kinds /\ Opened /\ Carried /\ Justified
  BY DEF TransferIInv
<1>2. "receive" \in Talking \ Lost /\ Ended(x) \in Talking /\ Ended(x) \in Labels
  BY DEF Talking, Labels, Lost, Over, Ended
<1>3. /\ at[x] = "receive" /\ at'[x] = Ended(x) /\ \A y \in Parties : y # x => at'[y] = at[y]
  BY <1>1, <1>2, AtMoves DEF Kinds
<1>4. S!Writers(S!In(x)) = {}
  BY DEF S!AtEnd
<1>5. CASE x = "client"
  <2>1. client = "receive" /\ client' = "wait" /\ server' = server
    BY <1>3, <1>5 DEF Parties, client, server, Ended
  <2>2. server \in Over
    BY <1>1, <1>2, <1>4, <1>5, <2>1, EndsAre, PartnerOver
  <2>3. server \in Ending
    BY <2>2 DEF Over, Ending, Lost
  <2>4. ClientKeeps /\ ServerKeeps /\ Ended(x) # "error"
    BY <1>5, <2>1 DEF ClientKeeps, ServerKeeps, Ended
  <2>. QED
    BY <1>2, <2>3, <2>4, StillTalk
<1>6. CASE x = "server"
  <2>1. server = "receive" /\ server' = "error" /\ client' = client
    BY <1>3, <1>6 DEF Parties, client, server, Ended
  <2>2. client \in Over
    BY <1>1, <1>2, <1>4, <1>6, <2>1, EndsAre, PartnerOver
  <2>3. client # "done"
    BY <1>1, <2>1 DEF Justified, Ending, Lost
  <2>4. Excused
    BY <1>1, <2>2, <2>3, GoneExcused DEF client, Parties
  <2>5. ClientKeeps /\ ServerKeeps
    BY <2>1 DEF ClientKeeps, ServerKeeps, Lost
  <2>. QED
    BY <1>2, <1>6, <2>4, <2>5, StillTalk
<1>. QED
  BY <1>5, <1>6 DEF Parties

\* read of a directory
LEMMA FileFails ==
  ASSUME TransferIInv, At("server", "file", "error"), target = "directory",
         Still, ends' = ends, live' = live
  PROVE  TransferIInv'
<1>1. Kinds
  BY DEF TransferIInv
<1>2. "file" \in Talking \ Lost /\ "error" \in Talking /\ "error" \in Labels /\ "server" \in Parties
  BY DEF Talking, Labels, Lost, Over, Parties
<1>3. /\ at["server"] = "file" /\ at'["server"] = "error"
      /\ \A y \in Parties : y # "server" => at'[y] = at[y]
  BY <1>1, <1>2, AtMoves DEF Kinds
<1>4. server = "file" /\ server' = "error" /\ client' = client
  BY <1>3 DEF client, server, Parties
<1>5. ClientKeeps /\ ServerKeeps
  BY <1>4 DEF ClientKeeps, ServerKeeps, Lost
<1>6. Excused
  BY DEF Excused, Answerable
<1>. QED
  BY <1>2, <1>5, <1>6, StillTalk

-----------------------------------------------------------------------------
(* msgget *)

LEMMA GetKeeps ==
  ASSUME TransferIInv, ~Streaming, UNCHANGED streams, Q!ServerGet \/ Q!ClientGet
  PROVE  TransferIInv'
<1>1. Kinds /\ Opened /\ Present
  BY DEF TransferIInv
<1>2. at \in [Parties -> Labels] /\ {"main", "receive", "ask"} \subseteq Labels
  BY <1>1 DEF Kinds, Labels
<1>3. CASE Q!ServerGet
  <2>1. PICK k \in Q!Keys : k \notin live /\ live' = live \cup {k}
          /\ At("server", "main", IF live' = Q!Keys THEN "receive" ELSE "main")
    BY <1>3, SameSteps DEF Q!ServerGet
  <2>2. Still
    BY <1>3, <2>1 DEF Q!ServerGet, Still, streams, dataVars, Q!dataVars, At
  <2>3. PICK there : there = IF live' = Q!Keys THEN "receive" ELSE "main"
    OBVIOUS
  <2>4. /\ at["server"] = "main" /\ at'["server"] = there /\ at' \in [Parties -> Labels]
        /\ \A y \in Parties : y # "server" => at'[y] = at[y]
    BY <1>2, <2>1, <2>3, AtMoves DEF Parties
  <2>5. server = "main" /\ server' = there /\ client' = client /\ there \in {"main", "receive"}
    BY <2>3, <2>4 DEF client, server, Parties
  <2>6. ClientKeeps /\ ServerKeeps
    BY <2>5 DEF ClientKeeps, ServerKeeps, Waits
  <2>7. client \in {"main", "done"} \cup Lost
    BY <1>1, <2>1 DEF Present
  <2>8. Streaming' = Streaming /\ Q!Keys' = Q!Keys
    BY <2>2, StillSame DEF Q!Keys
  <2>9. Present'
    BY <2>3, <2>5, <2>7, <2>8 DEF Present
  <2>10. Opened'
    BY <2>8 DEF Opened
  <2>. QED
    BY <2>2, <2>4, <2>5, <2>6, <2>9, <2>10, StillBegins
<1>4. CASE Q!ClientGet
  <2>1. live = Q!Keys /\ live' = live /\ At("client", "main", "ask")
    BY <1>4, SameSteps DEF Q!ClientGet, Q!queueVars
  <2>2. Still
    BY <1>4, <2>1 DEF Q!ClientGet, Still, streams, dataVars, Q!dataVars, At, Q!queueVars
  <2>3. /\ at["client"] = "main" /\ at'["client"] = "ask" /\ at' \in [Parties -> Labels]
        /\ \A y \in Parties : y # "client" => at'[y] = at[y]
    BY <1>2, <2>1, AtMoves DEF Parties
  <2>4. client = "main" /\ client' = "ask" /\ server' = server
    BY <2>3 DEF client, server, Parties
  <2>5. ClientKeeps /\ ServerKeeps
    BY <2>4 DEF ClientKeeps, ServerKeeps, Quiet
  <2>6. Streaming' = Streaming /\ Q!Keys' = Q!Keys
    BY <2>2, StillSame DEF Q!Keys
  <2>7. Present'
    BY <2>1, <2>6 DEF Present
  <2>8. Opened'
    BY <2>6 DEF Opened
  <2>. QED
    BY <2>2, <2>3, <2>4, <2>5, <2>7, <2>8, StillBegins
<1>. QED
  BY <1>3, <1>4

-----------------------------------------------------------------------------
(* Steps that send or receive *)

\* What they do to at, and what follows for everything but the data.
GoesOn(x, here, there) ==
  /\ at[x] = here /\ at'[x] = there /\ at' \in [Parties -> Labels]
  /\ \A y \in Parties : y # x => at'[y] = at[y]

LEMMA TalkKeeps ==
  ASSUME TransferIInv, Fixed, NEW x \in Parties, NEW here \in Talking \ (Lost \cup {"exit"}),
         NEW there \in Talking, At(x, here, there), ends' = ends, live' = live,
         there = "error" => Excused, x = "client" /\ there = "wait" => server \in Ending,
         x = "client" => here # "wait"
  PROVE  GoesOn(x, here, there) /\ Opened' /\ Present' /\ Justified'
<1>1. Kinds /\ Opened /\ Present /\ Justified
  BY DEF TransferIInv
<1>2. at \in [Parties -> Labels] /\ there \in Labels
  BY <1>1 DEF Kinds, Talking
<1>3. GoesOn(x, here, there)
  BY <1>2, AtMoves DEF GoesOn
<1>4. Opened'
  BY <1>1, <1>3, FixedSame, TalkOpened DEF GoesOn
<1>5. \/ client' = client /\ server = here /\ server' = there /\ x = "server"
      \/ server' = server /\ client = here /\ client' = there /\ x = "client"
  BY <1>3 DEF GoesOn, Parties, client, server
<1>6. Present'
  <2>1. Streaming' = Streaming /\ Q!Keys' = Q!Keys
    BY FixedSame DEF Q!Keys
  <2>. QED
    BY <1>1, <1>5, <2>1 DEF Present, Talking, Over, Lost
<1>7. \A y \in Parties : at[y] = "dead" => at'[y] = "dead"
  BY <1>3 DEF Lost, GoesOn
<1>8. \A y \in Parties : at'[y] \in {"error", "failed"} => at[y] \in {"error", "failed"} \/ Excused
  <2>1. there # "failed"
    BY DEF Talking, Over
  <2>. QED
    BY <1>3, <2>1 DEF GoesOn
<1>9. client' \in {"wait", "done"} => client \in {"wait", "done"} \/ server \in Ending
  BY <1>5 DEF Talking, Over
<1>10. server \in Ending => server' \in Ending
  BY <1>5 DEF Talking, Over, Ending
<1>11. Justified'
  BY <1>1, <1>3, <1>7, <1>8, <1>9, <1>10, FixedSame, JustifiedKept DEF GoesOn
<1>. QED
  BY <1>3, <1>4, <1>6, <1>11

\* What is on its way to the server.
LEMMA NameKept ==
  ASSUME OnStream, NameSent, Fixed,
         Streaming => /\ stream'[1] = stream[1] /\ written'["client"] = written["client"]
                      /\ mesg_len'["server"] = mesg_len["server"],
         server' = server \/ (server \in Serving /\ server' \in Serving \cup Lost),
         \/ client' = client /\ buff'["client"] = buff["client"]
         \/ client \in Late /\ client' \in Late \cup Lost
  PROVE  OnStream' /\ NameSent'
<1>1. OnStream'
  <2>1. SUFFICES ASSUME Streaming PROVE OnStream'
    BY FixedSame DEF OnStream
  <2>2. client' # "send" /\ client' \notin Lost => written'["client"] = 0
    BY <2>1 DEF OnStream, Late, Lost
  <2>3. ASSUME server' \in Coming
        PROVE  /\ Len(Came') =< Len(Asked') /\ \A j \in 1 .. Len(Came') : Came'[j] = Asked'[j]
               /\ client' \in Early \ {"send"} => Came' = <<>>
               /\ client' = "send" => /\ Len(Came') = written'["client"]
                                      /\ Asked' # <<>> => Len(Came') < Len(Asked')
               /\ client' \in Late => Len(Came') = Len(Asked')
               /\ Len(Asked') =< PIPE_BUF' => Came' = <<>> \/ Len(Came') = Len(Asked')
               /\ server' = "data" => mesg_len'["server"] # 0
    <3>1. server' = server
      BY <2>3 DEF Coming, Serving, Lost
    <3>2. Came' = Came
      BY <2>1, <3>1 DEF Came
    <3>3. /\ Len(Came) =< Len(Asked) /\ \A j \in 1 .. Len(Came) : Came[j] = Asked[j]
          /\ client \in Early \ {"send"} => Came = <<>>
          /\ client = "send" => /\ Len(Came) = written["client"]
                                /\ Asked # <<>> => Len(Came) < Len(Asked)
          /\ client \in Late => Len(Came) = Len(Asked)
          /\ Len(Asked) =< PIPE_BUF => Came = <<>> \/ Len(Came) = Len(Asked)
          /\ server = "data" => mesg_len["server"] # 0
      BY <2>1, <2>3, <3>1, Zenon DEF OnStream
    <3>4. Asked' = Asked /\ PIPE_BUF' = PIPE_BUF
      BY FixedSame
    <3>5. /\ client' = "send" => client = "send"
          /\ client' \in Early \ {"send"} => client \in Early \ {"send"}
          /\ client' \in Late => client \in Late
      BY DEF Early, Late, Lost
    <3>. QED
      BY <2>1, <3>1, <3>2, <3>3, <3>4, <3>5, Zenon
  <2>. QED
    BY <2>2, <2>3, Zenon DEF OnStream
<1>2. NameSent'
  BY FixedSame DEF NameSent, Late, Lost, Serving
<1>. QED
  BY <1>1, <1>2

\* What the server sends.
LEMMA ServedKept ==
  ASSUME Served, Splits, Fixed, offset' = offset, buff'["server"] = buff["server"],
         Streaming => written'["server"] = written["server"], server' = server
  PROVE  /\ Served' /\ Splits' /\ Sent' = Sent /\ Text' = Text
<1>1. Sent' = Sent /\ Text' = Text
  BY FixedSame DEF Sent, Text
<1>2. Served'
  BY <1>1, FixedSame DEF Served
<1>3. Splits'
  BY <1>1, FixedSame DEF Splits
<1>. QED
  BY <1>1, <1>2, <1>3

\* The invariant is put together.
LEMMA StreamAll ==
  ASSUME TransferIInv, Streaming, Fixed, Kinds', Opened', Present', Justified',
         OnStream', NameSent', Served', Correct', Plain', Splits', Framed'
  PROVE  TransferIInv'
<1>1. Streaming'
  BY FixedSame
<1>2. Queued'
  BY <1>1 DEF Queued
<1>. QED
  BY <1>2 DEF TransferIInv, Carried

LEMMA QueueAll ==
  ASSUME TransferIInv, ~Streaming, Fixed, Kinds', Opened', Present', Justified',
         NameSent', Served', Correct', Queued'
  PROVE  TransferIInv'
<1>1. ~Streaming'
  BY FixedSame
<1>2. OnStream' /\ Plain' /\ Splits' /\ Framed'
  BY <1>1 DEF OnStream, Plain, Splits, Framed
<1>. QED
  BY <1>2 DEF TransferIInv, Carried

\* The types, one by one.
LEMMA KindsKept ==
  ASSUME Kinds, Fixed, at' \in [Parties -> Labels],
         client' \in Early \cup Late \cup Lost, server' \in Coming \cup Serving \cup Lost,
         offset' \in 0 .. Len(Contents), buff' \in [Parties -> Seq(Any)], printed' \in Seq(Any),
         Streaming => /\ stream' \in [S!Both -> Seq(Any)] /\ written' \in [Parties -> Nat]
                      /\ DOMAIN mesg_len' = Parties
                      /\ \A x \in Parties : at'[x] = "data" => S!Header,
         ~Streaming => /\ queue' \in [{1, 2} -> Seq([mesg_type : {1, 2}, text : Seq(Any)])]
                       /\ \A x \in Parties : at'[x] # "data"
  PROVE  Kinds'
<1>1. Streaming' = Streaming /\ S!Header' = S!Header /\ Contents' = Contents
  BY FixedSame
<1>2. /\ program' = program /\ name' = name /\ target' = target /\ PIPE_BUF' = PIPE_BUF
  BY FixedSame
<1>. QED
  BY <1>1, <1>2 DEF Kinds

-----------------------------------------------------------------------------
(* client() and server() *)

LEMMA SameFunctions ==
  ASSUME NEW x
  PROVE  /\ (S!Functions(x) <=> Functions(x)) /\ (Q!Functions(x) <=> Functions(x))
         /\ S!SendsOf(x) = SendsOf(x) /\ Q!SendsOf(x) = SendsOf(x)
<1>1. \A m, n : S!Smaller(m, n) = Smaller(m, n) /\ Q!Smaller(m, n) = Smaller(m, n)
  BY DEF Smaller, S!Smaller, Q!Smaller
<1>2. S!Contents = Contents /\ Q!Contents = Contents
  BY DEF Contents, S!Contents, Q!Contents
<1>3. (S!ClientName <=> ClientName) /\ (Q!ClientName <=> ClientName)
  BY SameSteps DEF ClientName, S!ClientName, Q!ClientName
<1>4. (S!ClientPrint <=> ClientPrint) /\ (Q!ClientPrint <=> ClientPrint)
  BY SameSteps DEF ClientPrint, S!ClientPrint, Q!ClientPrint
<1>5. (S!ServerOpen <=> ServerOpen) /\ (Q!ServerOpen <=> ServerOpen)
  BY SameSteps DEF ServerOpen, S!ServerOpen, Q!ServerOpen
<1>6. (S!ServerFile <=> ServerFile) /\ (Q!ServerFile <=> ServerFile)
  BY <1>1, <1>2, SameSteps DEF ServerFile, S!ServerFile, Q!ServerFile, dataVars, S!dataVars,
       Q!dataVars
<1>7. (S!Functions(x) <=> Functions(x)) /\ (Q!Functions(x) <=> Functions(x))
  BY <1>3, <1>4, <1>5, <1>6 DEF Functions, S!Functions, Q!Functions
<1>8. S!SendsOf(x) = SendsOf(x) /\ Q!SendsOf(x) = SendsOf(x)
  BY DEF SendsOf, S!SendsOf, Q!SendsOf
<1>. QED
  BY <1>7, <1>8

\* The queues are as they were.
LEMMA QueuedKept ==
  ASSUME Kinds, Queued, Fixed, queue' = queue,
         client' \in Reading => client \in Reading /\ Taken' = Taken,
         client' \in Early <=> client \in Early,
         client' \in Late => client \in Late,
         server' \in Coming => server \in Coming,
         server' \in Serving => server \in Serving,
         server' \notin Lost => server \notin Lost /\ Sent' = Sent,
         server' \notin Ending => server \notin Ending
  PROVE  Queued'
<1>1. SUFFICES ASSUME ~Streaming PROVE Queued'
  BY FixedSame DEF Queued
<1>2. Boxed => Boxed'
  BY FixedSame DEF Boxed
<1>3. Replies' = Replies /\ Q!TypeOf("server")' = Q!TypeOf("server")
  BY FixedSame DEF Replies, Q!QIn, Q!TypeOf
<1>4. ASSUME Answered, client' \in Reading
      PROVE  Answered'
  <2>1. PICK mark \in [1 .. Len(Replies) + 1 -> 0 .. Total] :
          /\ Follow(Reply, Replies, mark, Taken)
          /\ server \notin Lost => mark[Len(Replies) + 1] = Sent
          /\ \A k \in 1 .. Len(Replies) : Replies[k].mesg_type = Q!TypeOf("server")
          /\ server \notin Ending => \A k \in 1 .. Len(Replies) : Replies[k].text # <<>>
    BY <1>4, Zenon DEF Answered
  <2>2. client' \notin Early
    BY <1>4 DEF Answered
  <2>3. Reply' = Reply /\ Total' = Total /\ Taken' = Taken
    BY <1>4, FixedSame
  <2>4. Follow(Reply', Replies', mark, Taken')
    BY <1>3, <2>1, <2>3
  <2>. QED
    BY <1>3, <2>1, <2>2, <2>3, <2>4, Zenon DEF Answered
<1>5. Coming \cap Serving = {} /\ Coming \cap Lost = {} /\ Serving \cap Lost = {}
  BY DEF Coming, Serving, Lost
<1>6. server \in Coming \cup Serving \cup Lost
  BY DEF Kinds
<1>7. /\ server \in Coming => Boxed
      /\ client \in Reading /\ server \in Serving => Answered
      /\ client \in Reading /\ server \in Lost => Boxed \/ Answered
  BY <1>1 DEF Queued
<1>. QED
  BY <1>1, <1>2, <1>4, <1>5, <1>6, <1>7 DEF Queued

Outside == UNCHANGED <<stream, ends, PIPE_BUF, written, mesg_len, live, queue>>

LEMMA OutsideSame ==
  ASSUME Outside
  PROVE  /\ stream' = stream /\ ends' = ends /\ PIPE_BUF' = PIPE_BUF /\ written' = written
         /\ mesg_len' = mesg_len /\ live' = live /\ queue' = queue
BY DEF Outside

\* Everything is put together when only what the functions have of their own changes.
LEMMA FunctionAll ==
  ASSUME TransferIInv, Fixed, Outside, Opened', Present', Justified', at' \in [Parties -> Labels],
         OnStream', NameSent', Served', Correct', Splits',
         offset' \in 0 .. Len(Contents), buff' \in [Parties -> Seq(Any)], printed' \in Seq(Any),
         client' \in Early \cup Late \cup Lost, server' \in Coming \cup Serving \cup Lost,
         \A x \in Parties : at'[x] = "data" => at[x] = "data",
         client' \in Reading =>
           client \in Reading /\ Taken' = Taken /\ (client' = "data" <=> client = "data"),
         client' \in Early <=> client \in Early,
         client' \in Late => client \in Late,
         server' \in Coming => server \in Coming,
         server' \in Serving => server \in Serving,
         server' \notin Lost =>
           server \notin Lost /\ Sent' = Sent /\ (server \in Sends => Text' = Text),
         server' \notin Ending => server \notin Ending
  PROVE  TransferIInv'
<1>1. Kinds /\ Plain /\ Splits /\ Framed /\ Queued
  BY DEF TransferIInv, Carried
<1>2. Kinds'
  <2>1. Streaming => /\ stream' \in [S!Both -> Seq(Any)] /\ written' \in [Parties -> Nat]
                     /\ DOMAIN mesg_len' = Parties
                     /\ \A x \in Parties : at'[x] = "data" => S!Header
    BY <1>1, OutsideSame DEF Kinds
  <2>2. ~Streaming => /\ queue' \in [{1, 2} -> Seq([mesg_type : {1, 2}, text : Seq(Any)])]
                      /\ \A x \in Parties : at'[x] # "data"
    BY <1>1, OutsideSame DEF Kinds
  <2>. QED
    BY <1>1, <2>1, <2>2, KindsKept
<1>3. Plain' /\ Framed'
  BY <1>1, OutsideSame, ReplyKept
<1>4. Queued'
  BY <1>1, OutsideSame, QueuedKept
<1>5. CASE Streaming
  BY <1>2, <1>3, <1>5, StreamAll
<1>6. CASE ~Streaming
  BY <1>2, <1>4, <1>6, QueueAll
<1>. QED
  BY <1>5, <1>6

\* Where a party is.
LEMMA GoesTo ==
  ASSUME NEW x \in Parties, NEW here, NEW there, GoesOn(x, here, there)
  PROVE  /\ at' \in [Parties -> Labels]
         /\ \/ x = "client" /\ client = here /\ client' = there /\ server' = server
            \/ x = "server" /\ server = here /\ server' = there /\ client' = client
         /\ \A y \in Parties : at'[y] = there \/ at'[y] = at[y]
BY DEF GoesOn, Parties, client, server

LEMMA NameIs ==
  ASSUME Kinds
  PROVE  name \in Seq(Any) /\ Asked \in Seq(Any) /\ Len(name) \in Nat
         /\ Len(Asked) = Len(name) + IF S!Header THEN 1 ELSE 0
<1>1. <<>> \in Seq(Any)
  OBVIOUS
<1>2. name \in Seq(Any)
  BY <1>1, Texts DEF Kinds
<1>3. Len(name) \in Nat /\ Len(name) \in Any
  BY <1>2, Texts
<1>. QED
  BY <1>2, <1>3, Prefixed DEF Asked

LEMMA NameKeeps ==
  ASSUME TransferIInv, ClientName, Outside
  PROVE  TransferIInv'
<1>1. Kinds /\ OnStream /\ NameSent /\ Served /\ Correct /\ Splits
  BY DEF TransferIInv, Carried
<1>2. At("client", "ask", "send") /\ "client" \in Parties
  BY DEF ClientName, Parties
<1>3. Fixed /\ offset' = offset /\ printed' = printed
  BY <1>2, OutsideSame DEF ClientName, Fixed, At
<1>4. /\ buff' \in [Parties -> Seq(Any)] /\ buff'["client"] = name
      /\ buff'["server"] = buff["server"]
  BY <1>1, NameIs DEF ClientName, Kinds, Parties
<1>5. "ask" \in Talking \ (Lost \cup {"exit"}) /\ "send" \in Talking
  BY DEF Talking, Labels, Lost, Over
<1>6. GoesOn("client", "ask", "send") /\ Opened' /\ Present' /\ Justified'
  BY <1>2, <1>3, <1>5, OutsideSame, TalkKeeps
<1>7. /\ at' \in [Parties -> Labels] /\ client = "ask" /\ client' = "send" /\ server' = server
      /\ \A y \in Parties : at'[y] = "send" \/ at'[y] = at[y]
  BY <1>2, <1>6, GoesTo
<1>8. OnStream'
  <2>1. SUFFICES ASSUME Streaming PROVE OnStream'
    BY <1>3, FixedSame DEF OnStream
  <2>2. ASSUME server' \in Coming
        PROVE  /\ Len(Came') =< Len(Asked') /\ \A j \in 1 .. Len(Came') : Came'[j] = Asked'[j]
               /\ Len(Came') = written'["client"]
               /\ Asked' # <<>> => Len(Came') < Len(Asked')
               /\ Len(Asked') =< PIPE_BUF' => Came' = <<>> \/ Len(Came') = Len(Asked')
               /\ server' = "data" => mesg_len'["server"] # 0
    <3>1. Came' = Came
      BY <1>7, OutsideSame DEF Came
    <3>2. /\ Len(Came) =< Len(Asked) /\ \A j \in 1 .. Len(Came) : Came[j] = Asked[j]
          /\ Came = <<>>
          /\ server = "data" => mesg_len["server"] # 0
      BY <1>1, <1>7, <2>1, <2>2, Zenon DEF OnStream, Early
    <3>3. written["client"] = 0
      BY <1>1, <1>7, <2>1 DEF OnStream, Lost
    <3>4. Asked' = Asked /\ Asked \in Seq(Any)
      BY <1>1, <1>3, FixedSame, NameIs
    <3>5. Len(Came) = 0 /\ (Asked # <<>> => Len(Asked) > 0)
      BY <3>2, <3>4, EmptySeq
    <3>. QED
      BY <1>7, <3>1, <3>2, <3>3, <3>4, <3>5, OutsideSame
  <2>. QED
    BY <1>7, <2>2, Zenon DEF OnStream, Early, Late
<1>9. NameSent'
  BY <1>1, <1>3, <1>4, <1>7, FixedSame DEF NameSent, Late, Lost
<1>10. Served' /\ Splits' /\ Sent' = Sent /\ Text' = Text
  BY <1>1, <1>3, <1>4, <1>7, OutsideSame, ServedKept
<1>11. Taken' = Taken
  BY <1>3, <1>7 DEF Taken
<1>12. Correct'
  BY <1>1, <1>3, <1>7, FixedSame DEF Correct
<1>13. /\ client \in Reading /\ client' \in Reading /\ client \in Early /\ client' \in Early
       /\ client' \notin Late
  BY <1>7 DEF Reading, Early, Late
<1>14. offset' \in 0 .. Len(Contents) /\ printed' \in Seq(Any)
         /\ server \in Coming \cup Serving \cup Lost
  BY <1>1, <1>3 DEF Kinds
<1>. QED
  BY <1>3, <1>4, <1>6, <1>7, <1>8, <1>9, <1>10, <1>11, <1>12, <1>13, <1>14, FunctionAll

LEMMA PrintKeeps ==
  ASSUME TransferIInv, ClientPrint, Outside
  PROVE  TransferIInv'
<1>1. Kinds /\ OnStream /\ NameSent /\ Served /\ Correct /\ Splits
  BY DEF TransferIInv, Carried
<1>2. At("client", "print", "receive") /\ "client" \in Parties
  BY DEF ClientPrint, Parties
<1>3. Fixed /\ offset' = offset /\ buff' = buff /\ printed' = printed \o buff["client"]
  BY <1>2, OutsideSame DEF ClientPrint, Fixed, At
<1>4. "print" \in Talking \ (Lost \cup {"exit"}) /\ "receive" \in Talking
  BY DEF Talking, Labels, Lost, Over
<1>5. GoesOn("client", "print", "receive") /\ Opened' /\ Present' /\ Justified'
  BY <1>2, <1>3, <1>4, OutsideSame, TalkKeeps
<1>6. /\ at' \in [Parties -> Labels] /\ client = "print" /\ client' = "receive" /\ server' = server
      /\ \A y \in Parties : at'[y] = "receive" \/ at'[y] = at[y]
  BY <1>2, <1>5, GoesTo
<1>7. OnStream' /\ NameSent'
  BY <1>1, <1>3, <1>6, OutsideSame, NameKept DEF Late
<1>8. Served' /\ Splits' /\ Sent' = Sent /\ Text' = Text
  BY <1>1, <1>3, <1>6, OutsideSame, ServedKept
<1>9. buff["client"] \in Seq(Any) /\ printed \in Seq(Any) /\ Len(printed) \in Nat
  BY <1>1 DEF Kinds, Parties
<1>10. printed' \in Seq(Any) /\ Len(printed') = Len(printed) + Len(buff["client"])
  BY <1>3, <1>9, Join
<1>11. Taken' = Taken
  <2>1. Taken = Len(printed) + Len(buff["client"])
    BY <1>6 DEF Taken
  <2>2. Taken' = Len(printed') + 0
    BY <1>6 DEF Taken
  <2>. QED
    BY <1>9, <1>10, <2>1, <2>2
<1>12. Correct'
  <2>1. Part(Reply, printed, 0) /\ Part(Reply, buff["client"], 0 + Len(printed))
    BY <1>1, <1>6, <1>9 DEF Correct
  <2>2. Part(Reply, printed \o buff["client"], 0)
    BY <1>9, <2>1, ReplyIs, PartsJoin
  <2>. QED
    BY <1>3, <1>6, <2>2, FixedSame DEF Correct
<1>13. /\ client \in Reading /\ client' \in Reading /\ client \notin Early /\ client' \notin Early
       /\ client \in Late /\ client' \in Late
  BY <1>6 DEF Reading, Early, Late
<1>14. offset' \in 0 .. Len(Contents) /\ buff' \in [Parties -> Seq(Any)]
       /\ server \in Coming \cup Serving \cup Lost
  BY <1>1, <1>3 DEF Kinds
<1>. QED
  BY <1>3, <1>5, <1>6, <1>7, <1>8, <1>10, <1>11, <1>12, <1>13, <1>14, FunctionAll

\* Nothing is written of what comes next.
LEMMA SplitsStart ==
  ASSUME Fixed, Streaming => written'["server"] = 0, server' \in Sends => Len(Text') \in Nat
  PROVE  Splits'
<1>1. Streaming' = Streaming
  BY FixedSame
<1>2. Streaming /\ server' \in Sends => written'["server"] =< Len(Text')
  <2>1. \A n \in Nat : 0 =< n
    OBVIOUS
  <2>. QED
    BY <2>1
<1>. QED
  BY <1>1, <1>2 DEF Splits

LEMMA OpenKeeps ==
  ASSUME TransferIInv, ServerOpen, Outside
  PROVE  TransferIInv'
<1>1. Kinds /\ OnStream /\ NameSent /\ Served /\ Correct /\ Splits
  BY DEF TransferIInv, Carried
<1>2. PICK there :
        there = IF target # "absent" /\ buff["server"] = name THEN "file" ELSE "send_message"
  OBVIOUS
<1>3. At("server", "open", there) /\ "server" \in Parties
  BY <1>2 DEF ServerOpen, Parties
<1>4. Fixed /\ offset' = offset /\ printed' = printed
  BY <1>3, OutsideSame DEF ServerOpen, Fixed, At
<1>5. /\ there = "file" => target # "absent" /\ buff' = buff
      /\ there # "file" => there = "send_message" /\ buff' = [buff EXCEPT !["server"] = Message]
  BY <1>2 DEF ServerOpen
<1>6. there \in {"file", "send_message"}
  BY <1>5
<1>7. "open" \in Talking \ (Lost \cup {"exit"}) /\ there \in Talking
  BY <1>6 DEF Talking, Labels, Lost, Over
<1>8. GoesOn("server", "open", there) /\ Opened' /\ Present' /\ Justified'
  BY <1>3, <1>4, <1>7, <1>6, OutsideSame, TalkKeeps
<1>9. /\ at' \in [Parties -> Labels] /\ server = "open" /\ server' = there /\ client' = client
      /\ \A y \in Parties : at'[y] = there \/ at'[y] = at[y]
  BY <1>3, <1>8, GoesTo
<1>10. buff' \in [Parties -> Seq(Any)] /\ buff'["client"] = buff["client"]
  BY <1>1, <1>5, Texts DEF Kinds, Parties
<1>11. OnStream' /\ NameSent'
  BY <1>1, <1>4, <1>9, <1>10, <1>6, OutsideSame, NameKept DEF Serving
<1>12. name = Name /\ buff["server"] = name /\ offset = 0
  BY <1>1, <1>9 DEF Served, Serving
<1>13. Sent = 0 /\ Sent' = 0
  BY <1>4, <1>9, <1>12, <1>6 DEF Sent
<1>14. there = "send_message" => target = "absent" /\ Text' = Message /\ Reply = Message
  <2>1. SUFFICES ASSUME there = "send_message"
                 PROVE  target = "absent" /\ Text' = Message /\ Reply = Message
    OBVIOUS
  <2>2. target = "absent"
    BY <1>2, <1>12, <2>1
  <2>3. Text' = Message
    BY <1>1, <1>5, <1>9, <2>1 DEF Text, Kinds, Parties
  <2>. QED
    BY <1>12, <2>2, <2>3, Texts DEF Reply, Answerable
<1>15. Part(Reply, Message, 0) \/ there = "file"
  BY <1>14, <1>6, Texts DEF Part
<1>16. Served'
  <2>1. CASE there = "file"
    BY <1>4, <1>5, <1>9, <1>12, <2>1, FixedSame DEF Served, Serving, Coming, Sends
  <2>2. CASE there = "send_message"
    <3>1. Total' = Len(Message) /\ Part(Reply', Text', Sent')
      BY <1>4, <1>13, <1>14, <1>15, <2>2, FixedSame DEF Total
    <3>2. Text' # <<>> /\ Len(Text') =< MAXBUFF /\ Len(Text') = Total'
      BY <1>14, <2>2, <3>1, Texts
    <3>3. server' = "send_message" /\ name' = Name /\ target' = "absent"
      BY <1>4, <1>9, <1>12, <1>14, <2>2, FixedSame
    <3>. QED
      BY <3>1, <3>2, <3>3 DEF Served, Coming
  <2>. QED
    BY <1>6, <2>1, <2>2
<1>17. Splits'
  <2>1. Streaming => written'["server"] = 0 /\ PIPE_BUF' = PIPE_BUF
    BY <1>1, <1>9, OutsideSame DEF Splits, Sends, Lost
  <2>2. there = "send_message" => Len(Text') \in Nat
    BY <1>14, Texts
  <2>3. server' \in Sends => there = "send_message"
    BY <1>9, <1>6 DEF Sends
  <2>. QED
    BY <1>4, <2>1, <2>2, <2>3, SplitsStart
<1>18. Taken' = Taken
  BY <1>4, <1>9, <1>10 DEF Taken
<1>19. Correct'
  BY <1>1, <1>4, <1>9, <1>10, FixedSame DEF Correct
<1>20. /\ server \in Serving /\ server' \in Serving /\ server \notin Coming /\ server' \notin Coming
       /\ server \notin Lost /\ server \notin Ending /\ server \notin Sends
  BY <1>9, <1>6 DEF Serving, Coming, Lost, Ending, Sends
<1>21. offset' \in 0 .. Len(Contents) /\ printed' \in Seq(Any)
       /\ client \in Early \cup Late \cup Lost
  BY <1>1, <1>4 DEF Kinds
<1>22. \A y \in Parties : at'[y] = "data" => at[y] = "data"
  BY <1>9, <1>6
<1>. QED
  BY <1>4, <1>8, <1>9, <1>10, <1>11, <1>13, <1>16, <1>17, <1>18, <1>19, <1>20, <1>21, <1>22,
     FunctionAll

LEMMA FileKeeps ==
  ASSUME TransferIInv, ServerFile, Outside
  PROVE  TransferIInv'
<1>1. Kinds /\ OnStream /\ NameSent /\ Served /\ Correct /\ Splits
  BY DEF TransferIInv, Carried
<1>2. CASE target = "directory"
  <2>1. At("server", "file", "error") /\ UNCHANGED dataVars
    BY <1>2 DEF ServerFile
  <2>2. Still /\ ends' = ends /\ live' = live
    BY <2>1, OutsideSame DEF Still, At
  <2>. QED
    BY <1>2, <2>1, <2>2, FileFails
<1>3. CASE target # "directory"
  <2>1. PICK n : n = Smaller(MAXBUFF, Len(Contents) - offset)
    OBVIOUS
  <2>2. PICK there : there = IF n > 0 THEN "send" ELSE "end"
    OBVIOUS
  <2>3. At("server", "file", there) /\ "server" \in Parties
    BY <1>3, <2>1, <2>2 DEF ServerFile, Parties
  <2>4. /\ buff' = [buff EXCEPT !["server"] = SubSeq(Contents, offset + 1, offset + n)]
        /\ offset' = offset + n /\ UNCHANGED <<name, target, printed>>
    BY <1>3, <2>1 DEF ServerFile
  <2>5. Fixed /\ printed' = printed
    BY <2>3, <2>4, OutsideSame DEF Fixed, At
  <2>6. offset \in Nat /\ offset =< Len(Contents) /\ Len(Contents) \in Nat /\ Contents \in Seq(Any)
    BY <1>1, ReplyIs DEF Kinds
  <2>7. /\ n \in Nat /\ offset + n =< Len(Contents) /\ n =< MAXBUFF
        /\ n = 0 => offset = Len(Contents)
    BY <2>1, <2>6, Texts DEF Smaller
  <2>8. PICK text : text = SubSeq(Contents, offset + 1, offset + n)
    OBVIOUS
  <2>9. text \in Seq(Any) /\ Len(text) = n /\ \A j \in 1 .. n : text[j] = Contents[offset + j]
    <3>1. offset + n \in Nat /\ offset =< offset + n /\ offset + n - offset = n
      BY <2>6, <2>7
    <3>. QED
      BY <2>6, <2>7, <2>8, <3>1, Slice
  <2>10. there \in {"send", "end"} /\ (there = "send" <=> n > 0)
    BY <2>2
  <2>11. "file" \in Talking \ (Lost \cup {"exit"}) /\ there \in Talking /\ there # "error"
    BY <2>10 DEF Talking, Labels, Lost, Over
  <2>12. GoesOn("server", "file", there) /\ Opened' /\ Present' /\ Justified'
    BY <2>3, <2>5, <2>11, OutsideSame, TalkKeeps
  <2>13. /\ at' \in [Parties -> Labels] /\ server = "file" /\ server' = there /\ client' = client
         /\ \A y \in Parties : at'[y] = there \/ at'[y] = at[y]
    BY <2>3, <2>12, GoesTo
  <2>14. /\ buff' \in [Parties -> Seq(Any)] /\ buff'["client"] = buff["client"]
         /\ buff'["server"] = text
    BY <1>1, <2>4, <2>8, <2>9 DEF Kinds, Parties
  <2>15. OnStream' /\ NameSent'
    BY <1>1, <2>5, <2>10, <2>13, <2>14, OutsideSame, NameKept DEF Serving
  <2>16. name = Name /\ target \in {"file", "empty"} /\ Reply = Contents
    <3>1. name = Name /\ target \in {"file", "empty"}
      BY <1>1, <1>3, <2>13 DEF Served, Serving, Kinds, Targets
    <3>. QED
      BY <3>1, Texts DEF Reply, Answerable
  <2>17. Sent = offset /\ Sent' = offset
    <3>1. Sent = offset
      BY <2>13 DEF Sent
    <3>2. CASE there = "send"
      <4>1. Sent' = offset' - Len(text)
        BY <2>13, <2>14, <3>2 DEF Sent
      <4>. QED
        BY <2>4, <2>6, <2>7, <2>9, <3>1, <4>1
    <3>3. CASE there = "end"
      <4>1. n = 0
        BY <2>7, <2>10, <3>3
      <4>2. Sent' = Total
        BY <2>5, <2>13, <3>3, FixedSame DEF Sent
      <4>. QED
        BY <2>7, <2>16, <3>1, <4>1, <4>2 DEF Total
    <3>. QED
      BY <2>10, <3>1, <3>2, <3>3
  <2>18. there = "send" => Text' = text /\ text # <<>>
    <3>1. there = "send" => Len(text) # 0
      BY <2>7, <2>9, <2>10
    <3>. QED
      BY <2>13, <2>14, <3>1, EmptySeq DEF Text
  <2>19. there = "end" => Text' = <<>>
    BY <2>13 DEF Text
  <2>20. Part(Reply, text, offset) /\ Part(Reply, <<>>, offset)
    BY <2>6, <2>7, <2>9, <2>16, EmptySeq DEF Part
  <2>21. offset' = offset + n /\ n =< offset' /\ offset' =< Len(Contents) /\ offset' \in Nat
    BY <2>4, <2>6, <2>7
  <2>22. Served'
    <3>1. /\ name' = Name /\ target' = target /\ Reply' = Reply /\ server' = there
      BY <2>5, <2>13, <2>16, FixedSame
    <3>2. CASE there = "send"
      <4>1. Part(Reply', Text', Sent') /\ Text' # <<>> /\ Len(Text') =< MAXBUFF
              /\ Len(Text') =< offset'
        BY <2>7, <2>9, <2>17, <2>18, <2>20, <2>21, <3>1, <3>2
      <4>. QED
        BY <2>16, <3>1, <3>2, <4>1 DEF Served, Coming
    <3>3. CASE there = "end"
      <4>1. Part(Reply', Text', Sent')
        BY <2>17, <2>19, <2>20, <3>1, <3>3
      <4>. QED
        BY <1>3, <3>1, <3>3, <4>1 DEF Served, Coming
    <3>. QED
      BY <2>10, <3>2, <3>3
  <2>23. Splits'
    <3>1. Streaming => written'["server"] = 0 /\ PIPE_BUF' = PIPE_BUF
      BY <1>1, <2>13, OutsideSame DEF Splits, Sends, Lost
    <3>2. Len(Text') \in Nat
      BY <2>7, <2>9, <2>10, <2>18, <2>19, EmptySeq
    <3>. QED
      BY <2>5, <3>1, <3>2, SplitsStart
  <2>24. Taken' = Taken
    BY <2>5, <2>13, <2>14 DEF Taken
  <2>25. Correct'
    BY <1>1, <2>5, <2>13, <2>14, FixedSame DEF Correct
  <2>26. /\ server \in Serving /\ server' \in Serving /\ server \notin Coming
         /\ server' \notin Coming
         /\ server \notin Lost /\ server \notin Ending /\ server \notin Sends
    BY <2>10, <2>13 DEF Serving, Coming, Lost, Ending, Sends
  <2>27. offset' \in 0 .. Len(Contents) /\ printed' \in Seq(Any)
         /\ client \in Early \cup Late \cup Lost
    BY <1>1, <2>5, <2>6, <2>21 DEF Kinds
  <2>28. \A y \in Parties : at'[y] = "data" => at[y] = "data"
    BY <2>10, <2>13
  <2>. QED
    BY <2>5, <2>12, <2>13, <2>14, <2>15, <2>17, <2>22, <2>23, <2>24, <2>25, <2>26, <2>27,
       <2>28, FunctionAll
<1>. QED
  BY <1>2, <1>3

LEMMA FunctionsKeep ==
  ASSUME TransferIInv, NEW x \in Parties, Functions(x), Outside
  PROVE  TransferIInv'
BY NameKeeps, PrintKeeps, OpenKeeps, FileKeeps DEF Functions

-----------------------------------------------------------------------------
(* write and mesg_send *)

LEMMA Prepend ==
  ASSUME NEW m, NEW s \in Seq(Any), NEW t \in Seq(Any)
  PROVE  /\ <<m>> \o (s \o t) = (<<m>> \o s) \o t
         /\ Len(<<m>> \o s) = Len(s) + 1 /\ (<<m>> \o s)[1] = m
         /\ \A j \in 1 .. Len(s) : (<<m>> \o s)[1 + j] = s[j]
<1>1. PICK D : D = Any \cup {m}
  OBVIOUS
<1>2. <<m>> \in Seq(D) /\ s \in Seq(D) /\ t \in Seq(D) /\ m \in D
  BY <1>1, SeqMonotonic
<1>. QED
  BY <1>2, ConcatAssociative, Prefixed

\* A write that is not broken, of n units.
WritesOn(x, here, there, frame, n) ==
  /\ n \in IF Len(frame) =< PIPE_BUF THEN {Len(frame) - written[x]}
           ELSE 1 .. Len(frame) - written[x]
  /\ stream' = [stream EXCEPT
       ![S!Out(x)] = @ \o SubSeq(frame, written[x] + 1, written[x] + n)]
  /\ At(x, here, IF n = Len(frame) - written[x] THEN there ELSE here)
  /\ written' = [written EXCEPT ![x] = IF n = Len(frame) - written[x] THEN 0 ELSE @ + n]

Aside == UNCHANGED <<dataVars, ends, PIPE_BUF, mesg_len, live, queue>>

LEMMA AsideSame ==
  ASSUME Aside
  PROVE  /\ name' = name /\ target' = target /\ offset' = offset /\ buff' = buff
         /\ printed' = printed
         /\ ends' = ends /\ PIPE_BUF' = PIPE_BUF /\ mesg_len' = mesg_len /\ live' = live
         /\ queue' = queue
BY DEF Aside, dataVars

\* The write of x at one of its places.
Writes(x) ==
  \E s \in SendsOf(x) :
    /\ at[x] = s[1]
    /\ \/ /\ Len(S!Frame(x, s[1])) - written[x] > 0 /\ S!Readers(S!Out(x)) = {}
          /\ S!At(x, s[1], "error") /\ UNCHANGED <<stream, written>>
       \/ /\ Len(S!Frame(x, s[1])) - written[x] = 0 \/ S!Readers(S!Out(x)) # {}
          /\ \E n \in IF Len(S!Frame(x, s[1])) =< PIPE_BUF
                      THEN {Len(S!Frame(x, s[1])) - written[x]}
                      ELSE 1 .. Len(S!Frame(x, s[1])) - written[x] :
               /\ Len(stream[S!Out(x)]) + n =< Capacity
               /\ stream' = [stream EXCEPT
                    ![S!Out(x)] = @ \o SubSeq(S!Frame(x, s[1]), written[x] + 1, written[x] + n)]
               /\ S!At(x, s[1], IF n = Len(S!Frame(x, s[1])) - written[x] THEN s[2] ELSE s[1])
               /\ written' = [written EXCEPT
                    ![x] = IF n = Len(S!Frame(x, s[1])) - written[x] THEN 0 ELSE @ + n]
    /\ UNCHANGED <<S!dataVars, fifos, ends, PIPE_BUF, mesg_len>>

LEMMA WriteCases ==
  ASSUME NEW x, S!Write(x)
  PROVE  Writes(x)
BY SameFunctions, Zenon DEF S!Write, Writes

LEMMA WriteIs ==
  ASSUME Kinds, Streaming, NEW x \in Parties, S!Write(x), UNCHANGED queues
  PROVE  /\ Aside
         /\ \E s \in SendsOf(x) :
              \/ /\ At(x, s[1], "error") /\ S!Readers(S!Out(x)) = {} /\ Still
              \/ /\ at[x] = s[1]
                 /\ \E n \in Int : WritesOn(x, s[1], s[2], S!Frame(x, s[1]), n)
<1>1. Aside
  BY SameFunctions DEF S!Write, Aside, dataVars, S!dataVars, queues
<1>2. Writes(x)
  BY WriteCases
<1>3. PICK s \in SendsOf(x) :
        /\ at[x] = s[1]
        /\ \/ /\ S!Readers(S!Out(x)) = {} /\ S!At(x, s[1], "error") /\ UNCHANGED <<stream, written>>
           \/ \E n \in IF Len(S!Frame(x, s[1])) =< PIPE_BUF
                       THEN {Len(S!Frame(x, s[1])) - written[x]}
                       ELSE 1 .. Len(S!Frame(x, s[1])) - written[x] :
                /\ stream' = [stream EXCEPT
                     ![S!Out(x)] = @ \o SubSeq(S!Frame(x, s[1]), written[x] + 1, written[x] + n)]
                /\ S!At(x, s[1], IF n = Len(S!Frame(x, s[1])) - written[x] THEN s[2] ELSE s[1])
                /\ written' = [written EXCEPT
                     ![x] = IF n = Len(S!Frame(x, s[1])) - written[x] THEN 0 ELSE @ + n]
  BY <1>2, Zenon DEF Writes
<1>4. CASE S!At(x, s[1], "error") /\ S!Readers(S!Out(x)) = {} /\ UNCHANGED <<stream, written>>
  <2>1. At(x, s[1], "error")
    BY <1>4, SameSteps
  <2>2. Still
    BY <1>1, <1>4, <2>1 DEF Aside, Still, At
  <2>. QED
    BY <1>1, <1>4, <2>1, <2>2
<1>5. ASSUME NEW n,
             n \in IF Len(S!Frame(x, s[1])) =< PIPE_BUF
                       THEN {Len(S!Frame(x, s[1])) - written[x]}
                       ELSE 1 .. Len(S!Frame(x, s[1])) - written[x],
             stream' = [stream EXCEPT
                     ![S!Out(x)] = @ \o SubSeq(S!Frame(x, s[1]), written[x] + 1, written[x] + n)],
             S!At(x, s[1], IF n = Len(S!Frame(x, s[1])) - written[x] THEN s[2] ELSE s[1]),
             written' = [written EXCEPT
                     ![x] = IF n = Len(S!Frame(x, s[1])) - written[x] THEN 0 ELSE @ + n]
      PROVE  n \in Int /\ WritesOn(x, s[1], s[2], S!Frame(x, s[1]), n)
  <2>1. At(x, s[1], IF n = Len(S!Frame(x, s[1])) - written[x] THEN s[2] ELSE s[1])
    BY <1>5, SameSteps
  <2>2. WritesOn(x, s[1], s[2], S!Frame(x, s[1]), n)
    BY <1>5, <2>1 DEF WritesOn
  <2>3. written[x] \in Nat
    BY DEF Kinds
  <2>4. Len(S!Frame(x, s[1])) \in Nat
    <3>1. \A y \in Parties : buff[y] \in Seq(Any) /\ Len(buff[y]) \in Nat
      BY DEF Kinds
    <3>2. <<>> \in Seq(Any) /\ <<0>> \in Seq(Any)
      BY Texts
    <3>3. S!Frame(x, s[1]) \in Seq(Any)
      BY <3>1, <3>2, Prefixed, Texts DEF S!Frame
    <3>. QED
      BY <3>3
  <2>5. PICK left : left = Len(S!Frame(x, s[1])) - written[x]
    OBVIOUS
  <2>6. left \in Int /\ (n = left \/ n \in 1 .. left)
    BY <1>5, <2>3, <2>4, <2>5
  <2>7. n \in Int
    BY <2>6
  <2>. QED
    BY <2>2, <2>7
<1>. QED
  BY <1>1, <1>3, <1>4, <1>5

\* How much that is.
LEMMA Amounts ==
  ASSUME NEW w \in Nat, NEW f \in Nat, NEW p, NEW n,
         n \in IF f =< p THEN {f - w} ELSE 1 .. f - w
  PROVE  /\ n \in Int /\ w + n =< f /\ (f =< p => n = f - w)
         /\ (w < f => n >= 1) /\ (w =< f => n >= 0) /\ (n # f - w => w + n \in Nat)
<1>1. CASE f =< p
  BY <1>1
<1>2. CASE ~(f =< p)
  BY <1>2
<1>. QED
  BY <1>1, <1>2

\* All indices up to the end are in the domain.
LEMMA Piece ==
  ASSUME NEW D, NEW s \in Seq(D), NEW w \in Nat, NEW n \in Int, w + n =< Len(s)
  PROVE  SubSeq(s, w + 1, w + n) \in Seq(D)
<1>1. w + 1 \in Int /\ w + n \in Int /\ Len(s) \in Nat
  OBVIOUS
<1>2. \A j \in w + 1 .. w + n : j \in 1 .. Len(s)
  BY <1>1
<1>3. \A j \in w + 1 .. w + n : s[j] \in D
  BY <1>2, ElementOfSeq
<1>. QED
  BY <1>1, <1>3, SubSeqProperties

\* What such a write does to its stream, when the frame has f units and w were there.
Wrote(x, here, there, frame, n, w, f) ==
  /\ w + n =< f /\ (f =< PIPE_BUF => n = f - w)
  /\ (w < f => n >= 1) /\ (w =< f => n >= 0)
  /\ stream' \in [S!Both -> Seq(Any)] /\ SubSeq(frame, w + 1, w + n) \in Seq(Any)
  /\ stream'[S!Out(x)] = stream[S!Out(x)] \o SubSeq(frame, w + 1, w + n)
  /\ stream'[S!In(x)] = stream[S!In(x)]
  /\ written' \in [Parties -> Nat] /\ \A y \in Parties : y # x => written'[y] = written[y]
  /\ written'[x] = IF n = f - w THEN 0 ELSE w + n
  /\ At(x, here, IF n = f - w THEN there ELSE here)

LEMMA Written ==
  ASSUME Kinds, Streaming, NEW x \in Parties, NEW here, NEW there, NEW frame \in Seq(Any),
         NEW n \in Int, WritesOn(x, here, there, frame, n), NEW w \in Nat, w = written[x],
         NEW f \in Nat, f = Len(frame)
  PROVE  Wrote(x, here, there, frame, n, w, f)
<1>1. PICK piece : piece = SubSeq(frame, w + 1, w + n)
  OBVIOUS
<1>2. written \in [Parties -> Nat] /\ stream \in [S!Both -> Seq(Any)]
  BY DEF Kinds
<1>3. n \in IF f =< PIPE_BUF THEN {f - w} ELSE 1 .. f - w
  BY <1>1, Zenon DEF WritesOn
<1>4. /\ n \in Int /\ w + n =< f /\ (f =< PIPE_BUF => n = f - w) /\ (w < f => n >= 1)
      /\ (w =< f => n >= 0) /\ (n # f - w => w + n \in Nat)
  BY <1>3, Amounts
<1>5. piece \in Seq(Any)
  BY <1>1, <1>4, Piece
<1>6. S!Out(x) \in S!Both /\ S!In(x) \in S!Both /\ S!In(x) # S!Out(x)
  BY DEF S!Out, S!In, S!Both
<1>7. stream' = [stream EXCEPT ![S!Out(x)] = stream[S!Out(x)] \o piece]
  BY <1>1, <1>2, <1>6 DEF WritesOn
<1>8. stream[S!Out(x)] \o piece \in Seq(Any)
  BY <1>2, <1>5, <1>6
<1>9. /\ stream' \in [S!Both -> Seq(Any)] /\ stream'[S!Out(x)] = stream[S!Out(x)] \o piece
      /\ stream'[S!In(x)] = stream[S!In(x)]
  BY <1>2, <1>6, <1>7, <1>8
<1>10. PICK v : v = IF n = f - w THEN 0 ELSE w + n
  OBVIOUS
<1>11. v \in Nat
  BY <1>4, <1>10
<1>12. written' = [written EXCEPT ![x] = v]
  BY <1>1, <1>2, <1>10 DEF WritesOn
<1>13. /\ written' \in [Parties -> Nat] /\ written'[x] = v
       /\ \A y \in Parties : y # x => written'[y] = written[y]
  BY <1>2, <1>11, <1>12
<1>14. At(x, here, IF n = f - w THEN there ELSE here)
  BY <1>1 DEF WritesOn
<1>. QED
  BY <1>1, <1>4, <1>5, <1>9, <1>10, <1>13, <1>14 DEF Wrote

\* The client writes the name.
LEMMA ClientWrites ==
  ASSUME TransferIInv, Streaming, Aside, at["client"] = "send", NEW n \in Int,
         WritesOn("client", "send", "receive", S!Frame("client", "send"), n)
  PROVE  TransferIInv'
<1>1. Kinds /\ OnStream /\ NameSent /\ Served /\ Correct /\ Plain /\ Splits /\ Framed
  BY DEF TransferIInv, Carried
<1>2. client = "send" /\ "client" \in Parties /\ "server" \in Parties /\ "server" # "client"
  BY DEF client, Parties
<1>3. S!Frame("client", "send") = Asked
  BY <1>1, <1>2 DEF S!Frame, Asked, NameSent
<1>4. Asked \in Seq(Any)
  BY <1>1, NameIs
<1>5. PICK w \in Nat : w = written["client"]
  BY <1>1, <1>2 DEF Kinds
<1>6. PICK f \in Nat : f = Len(Asked)
  BY <1>4
<1>7. PICK there : there = IF n = f - w THEN "receive" ELSE "send"
  OBVIOUS
<1>8. PICK piece : piece = SubSeq(Asked, w + 1, w + n)
  OBVIOUS
<1>9. WritesOn("client", "send", "receive", Asked, n)
  BY <1>3
<1>10. w = written["client"] /\ f = Len(Asked) /\ piece = SubSeq(Asked, w + 1, w + n)
  BY <1>5, <1>6, <1>8
<1>11. Wrote("client", "send", "receive", Asked, n, w, f)
  BY <1>1, <1>2, <1>4, <1>9, <1>10, Written
<1>12. S!In("client") = 2 /\ S!Out("client") = 1
  BY DEF S!In, S!Out
<1>13. /\ n \in Int /\ w + n =< f /\ (f =< PIPE_BUF => n = f - w)
       /\ (w < f => n >= 1) /\ (w =< f => n >= 0)
  BY <1>11 DEF Wrote
<1>14. /\ stream' \in [S!Both -> Seq(Any)] /\ piece \in Seq(Any)
       /\ stream'[1] = stream[1] \o piece /\ stream'[2] = stream[2]
  BY <1>8, <1>11, <1>12 DEF Wrote
<1>15. /\ written' \in [Parties -> Nat] /\ written'["server"] = written["server"]
       /\ written'["client"] = IF n = f - w THEN 0 ELSE w + n
  BY <1>11, <1>2 DEF Wrote
<1>16. At("client", "send", there)
  BY <1>11, <1>7 DEF Wrote
<1>17. Fixed
  BY <1>16, AsideSame DEF Fixed, At
<1>18. "send" \in Talking \ (Lost \cup {"exit"}) /\ there \in Talking /\ there # "error"
  BY <1>7 DEF Talking, Labels, Lost, Over
<1>19. GoesOn("client", "send", there) /\ Opened' /\ Present' /\ Justified'
  BY <1>2, <1>7, <1>16, <1>17, <1>18, AsideSame, TalkKeeps
<1>20. /\ at' \in [Parties -> Labels] /\ client' = there /\ server' = server
       /\ \A y \in Parties : at'[y] = there \/ at'[y] = at[y]
  BY <1>2, <1>19, GoesTo
<1>21. there \in {"send", "receive"}
  BY <1>7
<1>22. stream[1] \in Seq(Any) /\ Len(stream[1]) \in Nat
  BY <1>1 DEF Kinds, S!Both
<1>23. OnStream'
  <2>1. ASSUME server \in Coming
        PROVE  /\ Len(Came') =< Len(Asked') /\ \A j \in 1 .. Len(Came') : Came'[j] = Asked'[j]
               /\ client' = "send" => /\ Len(Came') = written'["client"]
                                      /\ Asked' # <<>> => Len(Came') < Len(Asked')
               /\ client' \in Late => Len(Came') = Len(Asked')
               /\ Len(Asked') =< PIPE_BUF' => Came' = <<>> \/ Len(Came') = Len(Asked')
               /\ server' = "data" => mesg_len'["server"] # 0
    <3>1. PICK m : m = mesg_len["server"]
      OBVIOUS
    <3>2. /\ Came = IF server = "data" THEN <<m>> \o stream[1] ELSE stream[1]
          /\ Came' = IF server = "data" THEN <<m>> \o (stream[1] \o piece) ELSE stream[1] \o piece
      BY <1>14, <1>20, <3>1, AsideSame DEF Came
    <3>3. PICK D : D = Any \cup {m}
      OBVIOUS
    <3>4. /\ stream[1] \in Seq(D) /\ piece \in Seq(D) /\ <<m>> \in Seq(D)
      BY <1>14, <1>22, <3>3, SeqMonotonic
    <3>5. Came \in Seq(D) /\ Came' = Came \o piece
      <4>1. CASE server = "data"
        <5>1. Came = <<m>> \o stream[1] /\ Came' = <<m>> \o (stream[1] \o piece)
          BY <3>2, <4>1
        <5>2. PICK one : one = <<m>>
          OBVIOUS
        <5>3. PICK first : first = stream[1]
          OBVIOUS
        <5>4. one \in Seq(D) /\ first \in Seq(D) /\ piece \in Seq(D)
          BY <3>4, <5>2, <5>3
        <5>5. one \o (first \o piece) = (one \o first) \o piece /\ one \o first \in Seq(D)
          BY <5>4, ConcatAssociative, ConcatProperties, SMTT(40)
        <5>6. Came = one \o first /\ Came' = one \o (first \o piece)
          BY <5>1, <5>2, <5>3
        <5>. QED
          BY <5>5, <5>6
      <4>2. CASE server # "data"
        BY <3>2, <3>4, <4>2, SMTT(30)
      <4>. QED
        BY <4>1, <4>2
    <3>6. /\ Len(Came) = w /\ (f # 0 => w < f) /\ w =< f
          /\ \A j \in 1 .. w : Came[j] = Asked[j]
          /\ server = "data" => mesg_len["server"] # 0
      <4>1. /\ Len(Came) =< Len(Asked) /\ \A j \in 1 .. Len(Came) : Came[j] = Asked[j]
            /\ Len(Came) = written["client"] /\ (Asked # <<>> => Len(Came) < Len(Asked))
            /\ server = "data" => mesg_len["server"] # 0
        BY <1>1, <1>2, <2>1, Zenon DEF OnStream
      <4>2. f # 0 => Asked # <<>>
        BY <1>6, EmptySeq
      <4>. QED
        BY <1>5, <1>6, <4>1, <4>2
    <3>7. n \in Nat /\ w + n \in Nat /\ w =< w + n /\ w + n - w = n
      BY <1>13, <3>6
    <3>8. Len(piece) = n /\ \A j \in 1 .. n : piece[j] = Asked[w + j]
      BY <1>4, <1>6, <1>8, <1>13, <3>7, Slice
    <3>9. Len(Came') = w + n /\ (\A j \in 1 .. w : Came'[j] = Came[j])
          /\ \A j \in 1 .. n : Came'[w + j] = piece[j]
      <4>1. /\ Len(Came \o piece) = Len(Came) + Len(piece)
            /\ \A j \in 1 .. Len(Came) : (Came \o piece)[j] = Came[j]
            /\ \A j \in 1 .. Len(piece) : (Came \o piece)[Len(Came) + j] = piece[j]
        BY <3>4, <3>5, Join
      <4>. QED
        BY <3>5, <3>6, <3>8, <4>1
    <3>10. ASSUME NEW j \in 1 .. w + n PROVE Came'[j] = Asked[j]
      <4>1. CASE j =< w
        BY <3>6, <3>9, <4>1
      <4>2. CASE j > w
        <5>1. j - w \in 1 .. n /\ w + (j - w) = j
          BY <3>7, <4>2
        <5>2. Came'[w + (j - w)] = piece[j - w] /\ piece[j - w] = Asked[w + (j - w)]
          BY <3>8, <3>9, <5>1
        <5>. QED
          BY <5>1, <5>2
      <4>. QED
        BY <4>1, <4>2
    <3>11. Asked' = Asked /\ PIPE_BUF' = PIPE_BUF
      BY <1>17, FixedSame
    <3>12. there = "receive" => w + n = f
      BY <1>7, <1>13
    <3>13. there = "send" => w + n < f /\ written'["client"] = w + n
      BY <1>7, <1>13, <1>15
    <3>14. f =< PIPE_BUF => w + n = f
      BY <1>13
    <3>15. PICK len \in Nat : len = w + n
      BY <3>7
    <3>16. Len(Came') = len /\ Len(Asked') = f /\ \A j \in 1 .. len : Came'[j] = Asked'[j]
      BY <1>6, <3>9, <3>10, <3>11, <3>15
    <3>17. /\ len =< f /\ (there = "receive" => len = f) /\ (f =< PIPE_BUF => len = f)
           /\ there = "send" => len < f /\ written'["client"] = len
      BY <1>13, <3>12, <3>13, <3>14, <3>15
    <3>18. client' \in Late => there = "receive"
      BY <1>20, <1>21 DEF Late
    <3>. QED
      BY <1>20, <3>6, <3>11, <3>16, <3>17, <3>18, AsideSame
  <2>2. client' # "send" /\ client' \notin Lost => written'["client"] = 0
    BY <1>7, <1>15, <1>20
  <2>3. client' \notin Early \ {"send"}
    BY <1>20, <1>21 DEF Early
  <2>. QED
    BY <1>20, <2>1, <2>2, <2>3, Zenon DEF OnStream
<1>24. NameSent'
  BY <1>1, <1>2, <1>17, <1>20, <1>21, AsideSame DEF NameSent, Late, Lost
<1>25. Served' /\ Splits' /\ Sent' = Sent /\ Text' = Text
  BY <1>1, <1>15, <1>17, <1>20, AsideSame, ServedKept
<1>26. Taken' = Taken
  BY <1>2, <1>20, <1>21, AsideSame DEF Taken
<1>27. Correct'
  BY <1>1, <1>17, <1>20, <1>21, AsideSame, FixedSame DEF Correct
<1>28. client \in Reading /\ client' \in Reading /\ client # "data" /\ client' # "data"
       /\ client' \in Early \cup Late \cup Lost
  BY <1>2, <1>20, <1>21 DEF Reading, Early, Late
<1>29. Plain' /\ Framed'
  BY <1>1, <1>14, <1>15, <1>17, <1>20, <1>25, <1>26, <1>28, AsideSame, ReplyKept
<1>30. Kinds'
  <2>1. \A y \in Parties : at'[y] = "data" => S!Header
    BY <1>1, <1>20, <1>21 DEF Kinds
  <2>2. /\ offset' \in 0 .. Len(Contents) /\ buff' \in [Parties -> Seq(Any)]
        /\ printed' \in Seq(Any)
        /\ server' \in Coming \cup Serving \cup Lost /\ DOMAIN mesg_len' = Parties
    BY <1>1, <1>20, AsideSame DEF Kinds
  <2>. QED
    BY <1>1, <1>14, <1>15, <1>17, <1>20, <1>28, <2>1, <2>2, KindsKept
<1>. QED
  BY <1>17, <1>19, <1>23, <1>24, <1>25, <1>27, <1>29, <1>30, StreamAll

LEMMA Numbers ==
  ASSUME Kinds, Served
  PROVE  /\ Taken \in Nat /\ Text \in Seq(Any) /\ Len(Text) \in Nat
         /\ server \in Sends => Sent \in Nat /\ Part(Reply, Text, Sent) /\ Len(Text) =< MAXBUFF
         /\ server \in {"send", "send_message"} => Len(Text) # 0
         /\ server = "end" => Text = <<>> /\ Len(Text) = 0
         /\ offset \in Nat /\ Total \in Nat
<1>1. /\ \A x \in Parties : buff[x] \in Seq(Any) /\ Len(buff[x]) \in Nat
      /\ Len(printed) \in Nat /\ offset \in Nat
  BY ReplyIs DEF Kinds
<1>2. Taken \in Nat
  BY <1>1 DEF Taken, Parties
<1>3. <<>> \in Seq(Any) /\ Len(<<>>) = 0
  BY EmptySeq
<1>4. Text \in Seq(Any)
  BY <1>1, <1>3 DEF Text, Parties
<1>5. Len(Text) \in Nat
  BY <1>4
<1>6. server = "end" => Text = <<>> /\ Len(Text) = 0
  BY <1>3 DEF Text
<1>7. server \in {"send", "send_message"} => Len(Text) # 0 /\ Len(Text) =< MAXBUFF
  BY <1>4, EmptySeq DEF Served
<1>8. server \in Sends => Sent \in Nat /\ Part(Reply, Text, Sent)
  BY DEF Served, Part
<1>9. server \in Sends => Len(Text) =< MAXBUFF
  <2>1. 0 =< MAXBUFF
    BY Texts
  <2>. QED
    BY <1>6, <1>7, <2>1 DEF Sends
<1>. QED
  BY <1>1, <1>2, <1>4, <1>5, <1>6, <1>7, <1>8, <1>9, ReplyIs

\* Without headers.
LEMMA PlainGrows ==
  ASSUME Kinds, Served, Plain, Streaming, ~S!Header, client \in Reading, server \in Sends,
         NEW w \in Nat, w = written["server"], NEW n \in Nat, w + n =< Len(Text)
  PROVE  /\ Part(Reply, stream[2] \o SubSeq(Text, w + 1, w + n), Taken)
         /\ Taken + Len(stream[2] \o SubSeq(Text, w + 1, w + n)) = Sent + (w + n)
<1>1. /\ Taken \in Nat /\ Text \in Seq(Any) /\ Len(Text) \in Nat /\ Sent \in Nat
      /\ Part(Reply, Text, Sent) /\ Reply \in Seq(Any)
  BY Numbers, ReplyIs
<1>2. PICK piece : piece = SubSeq(Text, w + 1, w + n)
  OBVIOUS
<1>3. w + n \in Nat /\ w =< w + n /\ w + n - w = n
  OBVIOUS
<1>4. PICK m \in Nat : m = w + n
  BY <1>3
<1>5. w =< m /\ m =< Len(Text) /\ m - w = n /\ piece = SubSeq(Text, w + 1, m)
  BY <1>2, <1>3, <1>4
<1>6. piece \in Seq(Any) /\ Len(piece) = n
  <2>1. Cut(piece, Text, w, n)
    BY <1>1, <1>2, CutIs
  <2>. QED
    BY <2>1, Zenon DEF Cut
<1>7. Part(Reply, piece, Sent + w)
  BY <1>1, <1>5, PartOfPart
<1>8. stream[2] \in Seq(Any) /\ Len(stream[2]) \in Nat
  BY DEF Kinds, S!Both
<1>9. Part(Reply, stream[2], Taken) /\ Taken + Len(stream[2]) = Sent + w
  BY DEF Plain, Sends, Lost
<1>10. Part(Reply, stream[2] \o piece, Taken)
  <2>1. PICK a \in Seq(Any) : a = stream[2]
    BY <1>8
  <2>2. PICK t \in Nat : t = Taken
    BY <1>1
  <2>3. Part(Reply, a, t) /\ Part(Reply, piece, t + Len(a))
    BY <1>7, <1>9, <2>1, <2>2, Zenon
  <2>4. Part(Reply, a \o piece, t)
    BY <1>1, <1>6, <2>3, PartsJoin
  <2>. QED
    BY <2>1, <2>2, <2>4, Zenon
<1>11. Len(stream[2] \o piece) = Len(stream[2]) + n
  BY <1>6, <1>8, JoinsThem, Zenon DEF Joins
<1>12. Taken + Len(stream[2] \o piece) = Sent + (w + n)
  <2>1. PICK t \in Nat : t = Taken
    BY <1>1
  <2>2. PICK s \in Nat : s = Sent
    BY <1>1
  <2>3. PICK l \in Nat : l = Len(stream[2])
    BY <1>8
  <2>4. t + l = s + w
    BY <1>9, <2>1, <2>2, <2>3
  <2>5. t + (l + n) = s + (w + n)
    BY <2>4
  <2>. QED
    BY <1>11, <2>1, <2>2, <2>3, <2>5
<1>. QED
  BY <1>2, <1>10, <1>12

\* With headers: what is there of the frames.
Holds(V, mark) ==
  /\ Frames(Reply, V, mark) /\ First(V, mark, Taken)
  /\ server \notin Lost => LastFrame(V, mark, written["server"], Taken, Sent, Len(Text))
  /\ server \notin Ending => \A k \in DOMAIN mark : V[k] # 0
  /\ MAXBUFF + 1 =< PIPE_BUF => \A k \in DOMAIN mark : k + V[k] =< Len(V)

LEMMA FramedHolds ==
  ASSUME Streaming, S!Header, client \in Reading
  PROVE  Framed <=> /\ client = "data" => mesg_len["client"] # 0
                    /\ \E mark \in Marks(Reply, Len(Whole)) : Holds(Whole, mark)
BY Zenon DEF Framed, Holds

LEMMA WholeIs ==
  ASSUME Kinds, Streaming, S!Header, client \in Reading, Framed
  PROVE  /\ Whole \in Seq(Any) /\ Len(Whole) \in Nat
         /\ client = "data" => mesg_len["client"] \in Nat
<1>1. PICK mark \in Marks(Reply, Len(Whole)) : Holds(Whole, mark)
  BY FramedHolds
<1>2. stream[2] \in Seq(Any) /\ <<>> \in Seq(Any)
  BY DEF Kinds, S!Both
<1>3. CASE client = "data"
  <2>1. Whole = <<mesg_len["client"]>> \o stream[2]
    BY <1>3 DEF Whole
  <2>2. Len(Whole) = Len(stream[2]) + 1 /\ Whole[1] = mesg_len["client"]
    BY <1>2, <2>1, Prepend
  <2>3. Whole # <<>>
    <3>1. Len(Whole) # 0
      BY <1>2, <2>2
    <3>. QED
      BY <3>1, EmptySeq
  <2>4. 1 \in DOMAIN mark
    BY <1>1, <2>3 DEF Holds, First
  <2>5. Whole[1] \in Nat
    BY <1>1, <2>4 DEF Holds, Frames
  <2>6. Whole[1] \in Any
    BY <2>5 DEF Any
  <2>7. Whole \in Seq(Any)
    BY <1>2, <2>1, <2>2, <2>6, Prefixed
  <2>. QED
    BY <1>2, <2>2, <2>5, <2>7
<1>4. CASE client # "data"
  BY <1>2, <1>4 DEF Whole
<1>. QED
  BY <1>3, <1>4

LEMMA FramedGrows ==
  ASSUME Kinds, Served, Splits, Framed, Streaming, S!Header, client \in Reading, server \in Sends,
         NEW w \in Nat, w = written["server"], NEW L \in Nat, L = Len(Text),
         NEW n \in Nat, n >= 1, w + n =< L + 1,
         NEW W, W = Whole \o SubSeq(<<L>> \o Text, w + 1, w + n)
  PROVE  \E mark \in Marks(Reply, Len(Whole)) : \E moved \in Marks(Reply, Len(W)) :
           Holds(Whole, mark) /\ Grown(Reply, Whole, mark, W, moved, w, n, Taken, Sent, L)
<1>1. PICK mark \in Marks(Reply, Len(Whole)) : Holds(Whole, mark)
  BY FramedHolds
<1>2. Whole \in Seq(Any) /\ Text \in Seq(Any) /\ Reply \in Seq(Any) /\ Taken \in Nat /\ Sent \in Nat
  BY WholeIs, Numbers, ReplyIs
<1>3. Part(Reply, Text, Sent) /\ L =< MAXBUFF
  BY Numbers
<1>4. /\ Frames(Reply, Whole, mark) /\ First(Whole, mark, Taken)
      /\ LastFrame(Whole, mark, w, Taken, Sent, L)
  BY <1>1 DEF Holds, Sends, Lost
<1>5. \E moved \in Marks(Reply, Len(W)) : Grown(Reply, Whole, mark, W, moved, w, n, Taken, Sent, L)
  BY <1>2, <1>3, <1>4, FrameGrows
<1>. QED
  BY <1>1, <1>5

\* Plain and Framed, after n units more.
LEMMA PlainWritten ==
  ASSUME Kinds, Served, Plain, Streaming, Fixed, NEW w \in Nat, w = written["server"],
         NEW n \in Nat, NEW L \in Nat, L = Len(Text), server \in Sends, client' = client,
         ~S!Header => w + n =< L /\ stream'[2] = stream[2] \o SubSeq(Text, w + 1, w + n),
         Taken' = Taken, server' \notin Lost,
         \/ Sent' = Sent /\ written'["server"] = w + n
         \/ w + n = L /\ Sent' = Sent + L /\ written'["server"] = 0
  PROVE  Plain'
<1>1. SUFFICES ASSUME ~S!Header, client \in Reading
               PROVE  Part(Reply', stream'[2], Taken')
                        /\ Taken' + Len(stream'[2]) = Sent' + written'["server"]
  BY FixedSame DEF Plain
<1>2. /\ Part(Reply, stream'[2], Taken)
      /\ Taken + Len(stream'[2]) = Sent + (w + n)
  <2>1. w + n =< Len(Text) /\ stream'[2] = stream[2] \o SubSeq(Text, w + 1, w + n)
    BY <1>1, Zenon
  <2>2. /\ Part(Reply, stream[2] \o SubSeq(Text, w + 1, w + n), Taken)
        /\ Taken + Len(stream[2] \o SubSeq(Text, w + 1, w + n)) = Sent + (w + n)
    BY <1>1, <2>1, PlainGrows, Zenon
  <2>. QED
    BY <2>1, <2>2, Zenon
<1>3. PICK s \in Nat : s = Sent
  BY Numbers
<1>4. Sent' + written'["server"] = s + (w + n)
  <2>1. CASE Sent' = Sent /\ written'["server"] = w + n
    BY <1>3, <2>1
  <2>2. CASE w + n = L /\ Sent' = Sent + L /\ written'["server"] = 0
    <3>1. Sent' = s + L
      BY <1>3, <2>2
    <3>. QED
      BY <2>2, <3>1
  <2>. QED
    BY <2>1, <2>2
<1>. QED
  BY <1>2, <1>3, <1>4, FixedSame

LEMMA WholeGrows ==
  ASSUME Kinds, Streaming, NEW piece \in Seq(Any), stream'[2] = stream[2] \o piece,
         mesg_len' = mesg_len, client' = client
  PROVE  Whole' = Whole \o piece
<1>1. PICK first \in Seq(Any) : first = stream[2]
  BY DEF Kinds, S!Both
<1>2. CASE client = "data"
  <2>1. PICK m : m = mesg_len["client"]
    OBVIOUS
  <2>2. <<m>> \o (first \o piece) = (<<m>> \o first) \o piece
    BY Prepend
  <2>3. Whole = <<m>> \o first /\ Whole' = <<m>> \o (first \o piece)
    BY <1>1, <1>2, <2>1 DEF Whole
  <2>. QED
    BY <2>2, <2>3
<1>3. CASE client # "data"
  BY <1>3 DEF Whole
<1>. QED
  BY <1>2, <1>3

LEMMA FramedWritten ==
  ASSUME Kinds, Served, Splits, Framed, Streaming, Fixed, NEW w \in Nat, w = written["server"],
         NEW n \in Nat, NEW L \in Nat, L = Len(Text), server \in Sends, client' = client,
         mesg_len' = mesg_len, S!Header => w + n =< L + 1 /\ n >= 1 /\
           stream'[2] = stream[2] \o SubSeq(<<L>> \o Text, w + 1, w + n),
         stream'[2] \in Seq(Any), L + 1 =< PIPE_BUF => n = (L + 1) - w,
         Taken' = Taken, server' \notin Lost, server' \notin Ending => L # 0,
         \/ w + n < L + 1 /\ Sent' = Sent /\ Text' = Text /\ written'["server"] = w + n
         \/ (S!Header => w + n = L + 1) /\ Sent' = Sent + L /\ written'["server"] = 0
  PROVE  Framed'
<1>1. SUFFICES ASSUME S!Header, client \in Reading
               PROVE  Framed'
  BY FixedSame DEF Framed
<1>2. Streaming' /\ S!Header' /\ client' \in Reading /\ Reply' = Reply /\ PIPE_BUF' = PIPE_BUF
  BY <1>1, FixedSame
<1>3. PICK piece : piece = SubSeq(<<L>> \o Text, w + 1, w + n)
  OBVIOUS
<1>4. Whole' = Whole \o piece
  <2>1. stream'[2] = stream[2] \o piece
    BY <1>1, <1>3
  <2>2. piece \in Seq(Any)
    <3>1. PICK frame : frame = <<L>> \o Text
      OBVIOUS
    <3>2. frame \in Seq(Any) /\ Len(frame) = L + 1
      BY <3>1, Numbers, Texts, Prefixed
    <3>3. w + n =< Len(frame) /\ n \in Int
      BY <1>1, <3>2
    <3>. QED
      BY <1>3, <3>1, <3>2, <3>3, Piece
  <2>. QED
    BY <2>1, <2>2, WholeGrows
<1>5. PICK mark \in Marks(Reply, Len(Whole)), moved \in Marks(Reply, Len(Whole')) :
        Holds(Whole, mark) /\ Grown(Reply, Whole, mark, Whole', moved, w, n, Taken, Sent, L)
  <2>1. \A W : W = Whole \o piece =>
          \E mark \in Marks(Reply, Len(Whole)) : \E moved \in Marks(Reply, Len(W)) :
            Holds(Whole, mark) /\ Grown(Reply, Whole, mark, W, moved, w, n, Taken, Sent, L)
    BY <1>1, <1>3, FramedGrows
  <2>. QED
    BY <1>4, <2>1
<1>6. Frames(Reply', Whole', moved) /\ First(Whole', moved, Taken')
  BY <1>2, <1>5 DEF Grown
<1>7. LastFrame(Whole', moved, written'["server"], Taken', Sent', Len(Text'))
  <2>1. CASE w + n < L + 1 /\ Sent' = Sent /\ Text' = Text /\ written'["server"] = w + n
    BY <1>5, <2>1 DEF Grown
  <2>2. CASE (S!Header => w + n = L + 1) /\ Sent' = Sent + L /\ written'["server"] = 0
    <3>1. AllWhole(Whole', moved, Taken', Sent')
      BY <1>1, <1>5, <2>2 DEF Grown
    <3>. QED
      BY <2>2, <3>1 DEF LastFrame
  <2>. QED
    BY <2>1, <2>2
<1>8. server' \notin Ending => \A k \in DOMAIN moved : (Whole')[k] # 0
  <2>1. server \notin Ending
    BY DEF Sends, Ending, Lost
  <2>. QED
    BY <1>5, <2>1 DEF Grown, Holds
<1>9. MAXBUFF + 1 =< PIPE_BUF => \A k \in DOMAIN moved : k + (Whole')[k] =< Len(Whole')
  <2>1. SUFFICES ASSUME MAXBUFF + 1 =< PIPE_BUF
                 PROVE  \A k \in DOMAIN moved : k + (Whole')[k] =< Len(Whole')
    OBVIOUS
  <2>2. L =< MAXBUFF /\ MAXBUFF \in Nat /\ PIPE_BUF \in Nat
    <3>1. PIPE_BUF \in Nat
      <4>1. PIPE_BUF \in PIPE_BUFs
        BY DEF Kinds
      <4>. QED
        BY <4>1, KernelAssumption
    <3>2. Len(Text) =< MAXBUFF
      BY Numbers
    <3>. QED
      BY <3>1, <3>2, Texts
  <2>3. L + 1 =< PIPE_BUF
    BY <2>1, <2>2
  <2>4. w = 0
    BY <2>3 DEF Splits
  <2>5. n = (L + 1) - w
    BY <2>3
  <2>6. w + n = L + 1
    BY <2>5
  <2>. QED
    BY <1>5, <2>1, <2>4, <2>6 DEF Grown, Holds
<1>10. client' = "data" => mesg_len'["client"] # 0
  BY <1>1 DEF Framed
<1>. QED
  BY <1>2, <1>5, <1>6, <1>7, <1>8, <1>9, <1>10, Zenon DEF Framed

\* The server has sent all its text, and goes on.
LEMMA ServedMoves ==
  ASSUME Kinds, Served, Fixed, NEW here, NEW next, server = here, server' = next,
         \/ here = "send" /\ next = "file"
         \/ here = "send_message" /\ next = "end"
         \/ here = "end" /\ next = "exit",
         offset' = offset, buff' = buff, NEW L \in Nat, L = Len(Text)
  PROVE  Sent' = Sent + L /\ Served'
<1>1. here \in Sends
  BY DEF Sends
<1>2. Sent' = Sent + L
  <3>1. CASE here = "send"
    <4>1. Sent = offset - L /\ Sent' = offset
      BY <3>1 DEF Sent, Text
    <4>2. offset \in Nat
      BY Numbers
    <4>. QED
      BY <4>1, <4>2
  <3>2. CASE here = "send_message"
    <4>1. Sent = 0 /\ Sent' = Total' /\ L = Total
      BY <3>2 DEF Sent, Served
    <4>. QED
      BY <4>1, FixedSame
  <3>3. CASE here = "end"
    <4>1. Text = <<>>
      BY <3>3 DEF Text
    <4>2. Sent = Total /\ Sent' = Total' /\ L = 0
      BY <3>3, <4>1, EmptySeq DEF Sent
    <4>. QED
      BY <4>2, FixedSame, ReplyIs
  <3>. QED
    BY <3>1, <3>2, <3>3
<1>3. Served'
  <3>1. name' = Name /\ target' = target
    BY <1>1, FixedSame DEF Served, Sends, Serving
  <3>2. CASE here = "send"
    BY <3>1, <3>2 DEF Served, Coming, Sends
  <3>3. CASE here = "send_message"
    <4>1. target' # "directory" /\ server' = "end"
      BY <3>1, <3>3 DEF Served
    <4>2. Text' = <<>> /\ Sent' = Total'
      BY <4>1 DEF Text, Sent
    <4>3. Part(Reply', Text', Sent')
      <5>1. Part(Reply, <<>>, Total)
        BY EmptySeq, ReplyIs DEF Part, Total
      <5>. QED
        BY <4>2, <5>1, FixedSame
    <4>. QED
      BY <3>1, <4>1, <4>3 DEF Served, Coming
  <3>4. CASE here = "end"
    BY <3>1, <3>4 DEF Served, Coming, Sends
  <3>. QED
    BY <3>2, <3>3, <3>4
<1>. QED
  BY <1>2, <1>3

\* The server writes what it has read, the message, or the end.
LEMMA ServerWrites ==
  ASSUME TransferIInv, Streaming, Aside, NEW s \in SendsOf("server"), at["server"] = s[1],
         NEW n \in Int, WritesOn("server", s[1], s[2], S!Frame("server", s[1]), n)
  PROVE  TransferIInv'
<1>1. Kinds /\ OnStream /\ NameSent /\ Served /\ Correct /\ Plain /\ Splits /\ Framed
  BY DEF TransferIInv, Carried
<1>2. "client" \in Parties /\ "server" \in Parties /\ "server" # "client"
  BY DEF Parties
<1>3. PICK here, next : here = s[1] /\ next = s[2]
  OBVIOUS
<1>4. /\ server = here /\ here \in Sends
      /\ \/ here = "send" /\ next = "file"
         \/ here = "send_message" /\ next = "end"
         \/ here = "end" /\ next = "exit"
  <2>1. s = <<"send", "file">> \/ s = <<"send_message", "end">> \/ s = <<"end", "exit">>
    BY DEF SendsOf
  <2>. QED
    BY <1>3, <2>1 DEF server, Sends
<1>5. PICK L \in Nat : L = Len(Text)
  BY <1>1, Numbers
<1>6. PICK w \in Nat : w = written["server"]
  BY <1>1, <1>2 DEF Kinds
<1>7. w =< L /\ (L + 1 =< PIPE_BUF => w = 0)
  BY <1>1, <1>4, <1>5, <1>6 DEF Splits
<1>8. Text \in Seq(Any) /\ (here # "end" => L # 0) /\ (here = "end" => Text = <<>> /\ L = 0)
  BY <1>1, <1>4, <1>5, Numbers DEF Sends
<1>9. PICK frame : frame = IF S!Header THEN <<L>> \o Text ELSE Text
  OBVIOUS
<1>10. S!Frame("server", here) = frame
  <2>1. CASE here = "end"
    <3>1. <<0>> \o <<>> = <<0>>
      BY Texts, ConcatEmptySeq
    <3>. QED
      BY <1>8, <1>9, <2>1, <3>1 DEF S!Frame
  <2>2. CASE here # "end"
    <3>1. Text = buff["server"]
      BY <1>4, <2>2 DEF Text
    <3>. QED
      BY <1>5, <1>9, <2>2, <3>1 DEF S!Frame
  <2>. QED
    BY <2>1, <2>2
<1>11. frame \in Seq(Any) /\ Len(frame) = IF S!Header THEN L + 1 ELSE L
  <2>1. CASE S!Header
    <3>1. L \in Any
      BY Texts
    <3>2. <<L>> \o Text \in Seq(Any) /\ Len(<<L>> \o Text) = Len(Text) + 1
      BY <1>8, <3>1, Prefixed
    <3>. QED
      BY <1>5, <1>9, <2>1, <3>2
  <2>2. CASE ~S!Header
    BY <1>5, <1>8, <1>9, <2>2
  <2>. QED
    BY <2>1, <2>2
<1>12. PICK f \in Nat : f = Len(frame)
  BY <1>11
<1>13. WritesOn("server", here, next, frame, n)
  BY <1>3, <1>10
<1>14. Wrote("server", here, next, frame, n, w, f)
  BY <1>1, <1>2, <1>6, <1>11, <1>12, <1>13, Written
<1>15. /\ f = IF S!Header THEN L + 1 ELSE L
       /\ w =< f /\ (S!Header => w < f)
  BY <1>7, <1>11, <1>12
<1>16. /\ w + n =< f /\ (f =< PIPE_BUF => n = f - w)
       /\ (w < f => n >= 1) /\ (w =< f => n >= 0)
  BY <1>14 DEF Wrote
<1>17. n \in Nat /\ (S!Header => n >= 1)
  BY <1>15, <1>16
<1>18. S!In("server") = 1 /\ S!Out("server") = 2
  BY DEF S!In, S!Out
<1>19. /\ stream' \in [S!Both -> Seq(Any)]
       /\ stream'[2] = stream[2] \o SubSeq(frame, w + 1, w + n) /\ stream'[1] = stream[1]
  BY <1>14, <1>18 DEF Wrote
<1>20. /\ written' \in [Parties -> Nat] /\ written'["client"] = written["client"]
       /\ written'["server"] = IF n = f - w THEN 0 ELSE w + n
  BY <1>14, <1>2 DEF Wrote
<1>21. PICK there : there = IF n = f - w THEN next ELSE here
  OBVIOUS
<1>22. At("server", here, there)
  BY <1>14, <1>21 DEF Wrote
<1>23. Fixed
  BY <1>22, AsideSame DEF Fixed, At
<1>24. there \in {here, next} /\ here \in {"send", "send_message", "end"}
       /\ next \in {"file", "end", "exit"}
  BY <1>4, <1>21
<1>25. here \in Talking \ (Lost \cup {"exit"}) /\ there \in Talking /\ there # "error"
       /\ there \in Serving /\ here \in Serving /\ there \notin Lost /\ there \notin Coming
       /\ there \in Sends \cup {"file", "exit"} /\ there \notin {"data", "open"}
  BY <1>24 DEF Talking, Labels, Lost, Over, Serving, Coming, Sends
<1>26. GoesOn("server", here, there) /\ Opened' /\ Present' /\ Justified'
  BY <1>2, <1>22, <1>23, <1>25, AsideSame, TalkKeeps
<1>27. /\ at' \in [Parties -> Labels] /\ server' = there /\ client' = client
       /\ \A y \in Parties : at'[y] = there \/ at'[y] = at[y]
  BY <1>2, <1>26, GoesTo
<1>28. OnStream' /\ NameSent'
  BY <1>1, <1>4, <1>19, <1>20, <1>23, <1>25, <1>27, AsideSame, NameKept
<1>29. Taken' = Taken
  BY <1>27, AsideSame DEF Taken
<1>30. Correct'
  BY <1>1, <1>23, <1>27, AsideSame, FixedSame DEF Correct
<1>31. Kinds'
  <2>1. \A y \in Parties : at'[y] = "data" => S!Header
    BY <1>1, <1>25, <1>27 DEF Kinds
  <2>2. /\ offset' \in 0 .. Len(Contents) /\ buff' \in [Parties -> Seq(Any)]
        /\ printed' \in Seq(Any)
        /\ client' \in Early \cup Late \cup Lost /\ DOMAIN mesg_len' = Parties
        /\ server' \in Coming \cup Serving \cup Lost
    BY <1>1, <1>25, <1>27, AsideSame DEF Kinds
  <2>. QED
    BY <1>1, <1>19, <1>20, <1>23, <1>27, <2>1, <2>2, KindsKept
<1>32. PIPE_BUF \in Nat /\ Streaming'
  <2>1. PIPE_BUF \in PIPE_BUFs
    BY <1>1 DEF Kinds
  <2>. QED
    BY <1>23, <2>1, KernelAssumption, FixedSame
\* Part of the frame was written,
<1>33. CASE n # f - w
  <2>1. there = here /\ written'["server"] = w + n /\ w + n < f /\ w + n \in Nat
    BY <1>16, <1>17, <1>20, <1>21, <1>33
  <2>2. server' = server /\ Sent' = Sent /\ Text' = Text
    BY <1>4, <1>27, <2>1, AsideSame, FixedSame, <1>23 DEF Sent, Text
  <2>3. Served'
    BY <1>1, <1>23, <2>2, AsideSame, FixedSame DEF Served
  <2>4. ~(f =< PIPE_BUF) /\ ~(L + 1 =< PIPE_BUF) /\ w + n < L + 1 /\ w + n =< L
    BY <1>15, <1>16, <1>17, <1>32, <1>33, <2>1
  <2>5. Splits'
    <3>1. written'["server"] =< Len(Text')
      BY <1>5, <2>1, <2>2, <2>4
    <3>2. ~(Len(Text') + 1 =< PIPE_BUF')
      BY <1>5, <2>2, <2>4, AsideSame
    <3>3. server' \in Sends
      BY <1>4, <2>2
    <3>4. Sends \cap Lost = {}
      BY DEF Sends, Lost
    <3>. QED
      BY <3>1, <3>2, <3>3, <3>4, Zenon DEF Splits
  <2>6. Plain'
    <3>1. ~S!Header => w + n =< L /\ stream'[2] = stream[2] \o SubSeq(Text, w + 1, w + n)
      BY <1>9, <1>19, <2>4
    <3>. QED
      BY <1>1, <1>4, <1>5, <1>6, <1>17, <1>23, <1>25, <1>27, <1>29, <2>1, <2>2, <3>1, PlainWritten
  <2>7. S!Header => L # 0
    <3>1. S!Header /\ L = 0 => f = 1
      BY <1>15
    <3>2. f = 1 /\ w < f => n = f - w
      BY <1>16, <1>17
    <3>. QED
      BY <1>15, <1>33, <3>1, <3>2
  <2>8. Framed'
    <3>1. CASE S!Header
      <4>1. w + n =< L + 1 /\ n >= 1
        BY <1>17, <2>4, <3>1
      <4>2. stream'[2] = stream[2] \o SubSeq(<<L>> \o Text, w + 1, w + n)
        BY <1>9, <1>19, <3>1
      <4>3. S!Header => w + n =< L + 1 /\ n >= 1 /\
              stream'[2] = stream[2] \o SubSeq(<<L>> \o Text, w + 1, w + n)
        BY <4>1, <4>2
      <4>4. stream'[2] \in Seq(Any)
        BY <1>19 DEF S!Both
      <4>5. L + 1 =< PIPE_BUF => n = (L + 1) - w
        BY <2>4
      <4>. QED
        BY <1>1, <1>4, <1>5, <1>6, <1>17, <1>23, <1>25, <1>27, <1>29, <2>1, <2>2, <2>4, <2>7, <3>1,
           <4>3, <4>4, <4>5, AsideSame, FramedWritten
    <3>2. CASE ~S!Header
      BY <1>23, <3>2, FixedSame DEF Framed
    <3>. QED
      BY <3>1, <3>2
  <2>. QED
    BY <1>23, <1>26, <1>28, <1>30, <1>31, <2>3, <2>5, <2>6, <2>8, StreamAll
\* or all that was left.
<1>34. CASE n = f - w
  <2>1. there = next /\ written'["server"] = 0 /\ w + n = f
    BY <1>20, <1>21, <1>34
  <2>2. Sent' = Sent + L /\ Served'
    BY <1>1, <1>4, <1>5, <1>23, <1>27, <2>1, AsideSame, ServedMoves
  <2>3. Splits'
    <3>1. server' \in Sends => Len(Text') \in Nat
      <4>1. server' \in Sends => server' = "end"
        BY <1>4, <1>27, <2>1 DEF Sends
      <4>. QED
        BY <4>1, EmptySeq DEF Text
    <3>. QED
      BY <1>23, <2>1, <3>1, SplitsStart
  <2>4. Plain'
    <3>1. CASE ~S!Header
      <4>1. w + n = L /\ w + n =< L
        BY <1>15, <2>1, <3>1
      <4>2. ~S!Header => w + n =< L /\ stream'[2] = stream[2] \o SubSeq(Text, w + 1, w + n)
        BY <1>9, <1>19, <3>1, <4>1
      <4>. QED
        BY <1>1, <1>4, <1>5, <1>6, <1>17, <1>23, <1>25, <1>27, <1>29, <2>1, <2>2, <4>1, <4>2,
           PlainWritten
    <3>2. CASE S!Header
      BY <1>23, <3>2, FixedSame DEF Plain
    <3>. QED
      BY <3>1, <3>2
  <2>5. Framed'
    <3>1. CASE S!Header
      <4>1. w + n = L + 1 /\ w + n =< L + 1 /\ n >= 1
        BY <1>15, <1>17, <2>1, <3>1
      <4>2. stream'[2] = stream[2] \o SubSeq(<<L>> \o Text, w + 1, w + n)
        BY <1>9, <1>19, <3>1
      <4>3. S!Header => w + n =< L + 1 /\ n >= 1 /\
              stream'[2] = stream[2] \o SubSeq(<<L>> \o Text, w + 1, w + n)
        BY <4>1, <4>2
      <4>4. stream'[2] \in Seq(Any)
        BY <1>19 DEF S!Both
      <4>5. L + 1 =< PIPE_BUF => n = (L + 1) - w
        BY <4>1
      <4>6. server' \notin Ending => L # 0
        BY <1>4, <1>8, <1>27, <2>1 DEF Ending
      <4>7. \/ w + n < L + 1 /\ Sent' = Sent /\ Text' = Text /\ written'["server"] = w + n
            \/ (S!Header => w + n = L + 1) /\ Sent' = Sent + L /\ written'["server"] = 0
        BY <2>1, <2>2, <4>1
      <4>8. mesg_len' = mesg_len /\ server' \notin Lost /\ server \in Sends
        BY <1>4, <1>25, <1>27, AsideSame
      <4>. QED
        BY <1>1, <1>5, <1>6, <1>17, <1>23, <1>27, <1>29,
           <4>3, <4>4, <4>5, <4>6, <4>7, <4>8, FramedWritten, ZenonT(60)
    <3>2. CASE ~S!Header
      BY <1>23, <3>2, FixedSame DEF Framed
    <3>. QED
      BY <3>1, <3>2
  <2>. QED
    BY <1>23, <1>26, <1>28, <1>30, <1>31, <2>2, <2>3, <2>4, <2>5, StreamAll
<1>. QED
  BY <1>33, <1>34

LEMMA WriteKeeps ==
  ASSUME TransferIInv, Streaming, NEW x \in Parties, S!Write(x), UNCHANGED queues
  PROVE  TransferIInv'
<1>1. Kinds
  BY DEF TransferIInv
<1>2. Aside
  BY <1>1, WriteIs
<1>3. PICK s \in SendsOf(x) :
        \/ /\ At(x, s[1], "error") /\ S!Readers(S!Out(x)) = {} /\ Still
        \/ /\ at[x] = s[1]
           /\ \E n \in Int : WritesOn(x, s[1], s[2], S!Frame(x, s[1]), n)
  BY <1>1, WriteIs
<1>4. CASE At(x, s[1], "error") /\ S!Readers(S!Out(x)) = {} /\ Still
  BY <1>2, <1>4, AsideSame, WriteBreaks
<1>5. ASSUME NEW n \in Int, at[x] = s[1], WritesOn(x, s[1], s[2], S!Frame(x, s[1]), n)
      PROVE  TransferIInv'
  <2>1. CASE x = "client"
    <3>1. s = <<"send", "receive">>
      BY <2>1 DEF SendsOf
    <3>. QED
      BY <1>2, <1>5, <2>1, <3>1, ClientWrites
  <2>2. CASE x = "server"
    BY <1>2, <1>5, <2>2, ServerWrites
  <2>. QED
    BY <2>1, <2>2 DEF Parties
<1>. QED
  BY <1>3, <1>4, <1>5

-----------------------------------------------------------------------------
(* read and mesg_recv *)

\* n units of the stream are taken off, or put into the buffer.
Takes(x, n) ==
  /\ stream' \in [S!Both -> Seq(Any)] /\ stream'[S!Out(x)] = stream[S!Out(x)]
  /\ stream'[S!In(x)] = SubSeq(stream[S!In(x)], n + 1, Len(stream[S!In(x)]))
Fills(x, n) ==
  /\ buff' \in [Parties -> Seq(Any)] /\ buff'[x] = SubSeq(stream[S!In(x)], 1, n)
  /\ \A y \in Parties : y # x => buff'[y] = buff[y]

LEMMA TakeIs ==
  ASSUME Kinds, Streaming, NEW x \in Parties, NEW n \in Nat, S!Take(x, n),
         NEW l \in Nat, l = Len(stream[S!In(x)]), n =< l
  PROVE  Takes(x, n)
<1>1. stream \in [S!Both -> Seq(Any)]
  BY DEF Kinds
<1>2. S!Out(x) \in S!Both /\ S!In(x) \in S!Both /\ S!In(x) # S!Out(x)
  BY DEF S!Out, S!In, S!Both
<1>3. PICK old \in Seq(Any) : old = stream[S!In(x)]
  BY <1>1, <1>2
<1>4. SubSeq(old, n + 1, l) \in Seq(Any)
  BY <1>3, Slice
<1>5. PICK new \in Seq(Any) : new = SubSeq(old, n + 1, l)
  BY <1>4
<1>6. stream' = [stream EXCEPT ![S!In(x)] = new]
  BY <1>1, <1>2, <1>3, <1>5 DEF S!Take
<1>7. /\ stream' \in [S!Both -> Seq(Any)] /\ stream'[S!Out(x)] = stream[S!Out(x)]
      /\ stream'[S!In(x)] = new
  BY <1>1, <1>2, <1>6
<1>8. new = SubSeq(stream[S!In(x)], n + 1, Len(stream[S!In(x)]))
  BY <1>3, <1>5
<1>. QED
  BY <1>7, <1>8 DEF Takes

LEMMA ReadIntoIs ==
  ASSUME Kinds, Streaming, NEW x \in Parties, NEW n \in Nat, S!ReadInto(x, n),
         NEW l \in Nat, l = Len(stream[S!In(x)]), n =< l
  PROVE  Takes(x, n) /\ Fills(x, n)
<1>1. stream \in [S!Both -> Seq(Any)] /\ buff \in [Parties -> Seq(Any)]
  BY DEF Kinds
<1>2. S!In(x) \in S!Both
  BY DEF S!In, S!Both
<1>3. PICK old \in Seq(Any) : old = stream[S!In(x)]
  BY <1>1, <1>2
<1>4. SubSeq(old, 1, n) \in Seq(Any)
  <2>1. SubSeq(old, 0 + 1, n) \in Seq(Any)
    BY <1>3, Slice
  <2>2. 0 + 1 = 1
    OBVIOUS
  <2>. QED
    BY <2>1, <2>2, Zenon
<1>5. PICK new \in Seq(Any) : new = SubSeq(old, 1, n)
  BY <1>4
<1>6. buff' = [buff EXCEPT ![x] = new]
  BY <1>3, <1>5 DEF S!ReadInto
<1>7. Fills(x, n)
  BY <1>1, <1>3, <1>5, <1>6 DEF Fills
<1>8. Takes(x, n)
  BY TakeIs DEF S!ReadInto
<1>. QED
  BY <1>7, <1>8

LEMMA SameReads ==
  /\ \A x : S!Got(x) = Got(x) /\ S!Ended(x) = Ended(x)
  /\ \A x : Q!Got(x) = Got(x) /\ Q!Ended(x) = Ended(x)
  /\ \A m, n : S!Smaller(m, n) = Smaller(m, n)
BY DEF Got, S!Got, Q!Got, Ended, S!Ended, Q!Ended, Smaller, S!Smaller

\* What a read leaves alone.
Beside == UNCHANGED <<name, target, offset, printed, ends, PIPE_BUF, written, live, queue>>

LEMMA BesideSame ==
  ASSUME Beside
  PROVE  /\ name' = name /\ target' = target /\ offset' = offset /\ printed' = printed
         /\ ends' = ends /\ PIPE_BUF' = PIPE_BUF /\ written' = written /\ live' = live
         /\ queue' = queue
BY DEF Beside

\* The server has got the whole name.
LEMMA ServerGot ==
  ASSUME TransferIInv, Streaming, Beside, NEW here \in {"receive", "data"},
         At("server", here, "open"), Fills("server", Len(name)), buff'["server"] = name,
         name # <<>>, client \in Late \cup Lost, stream' \in [S!Both -> Seq(Any)],
         stream'[2] = stream[2], mesg_len' = mesg_len
  PROVE  TransferIInv'
<1>1. Kinds /\ OnStream /\ NameSent /\ Served /\ Correct /\ Plain /\ Splits /\ Framed
  BY DEF TransferIInv, Carried
<1>2. "client" \in Parties /\ "server" \in Parties /\ "server" # "client"
  BY DEF Parties
<1>3. Fixed
  BY BesideSame DEF Fixed, At
<1>4. here \in Talking \ (Lost \cup {"exit"}) /\ "open" \in Talking
  BY DEF Talking, Labels, Lost, Over
<1>5. GoesOn("server", here, "open") /\ Opened' /\ Present' /\ Justified'
  BY <1>2, <1>3, <1>4, BesideSame, TalkKeeps
<1>6. /\ at' \in [Parties -> Labels] /\ server = here /\ server' = "open" /\ client' = client
      /\ \A y \in Parties : at'[y] = "open" \/ at'[y] = at[y]
  BY <1>2, <1>5, GoesTo
<1>7. /\ buff' \in [Parties -> Seq(Any)] /\ buff'["client"] = buff["client"]
  BY <1>2 DEF Fills
<1>8. server \in Coming /\ server' \in Serving
        /\ server' \notin Coming \cup Sends \cup Lost \cup Ending
      /\ server \notin Serving \cup Sends \cup Lost \cup Ending
      /\ server' \notin {"file", "send", "send_message", "end", "exit", "done"}
  BY <1>6 DEF Coming, Serving, Sends, Lost, Ending
<1>9. client \notin Early /\ client # "send"
  BY DEF Late, Early, Lost
<1>10. OnStream'
  BY <1>1, <1>3, <1>6, <1>8, BesideSame, FixedSame DEF OnStream
<1>11. NameSent'
  BY <1>6, <1>9 DEF NameSent
<1>12. Sent = 0 /\ Sent' = 0
  BY <1>6, <1>8 DEF Sent
<1>13. Served'
  <2>1. name' = Name /\ buff'["server"] = name' /\ offset' = 0
    BY <1>1, <1>8, BesideSame DEF Served, Kinds
  <2>. QED
    BY <1>8, <2>1 DEF Served
<1>14. Splits'
  <2>1. written'["server"] = 0
    BY <1>1, <1>8, BesideSame DEF Splits
  <2>. QED
    BY <1>3, <1>8, <2>1, SplitsStart
<1>15. Taken' = Taken
  BY <1>6, <1>7, BesideSame DEF Taken
<1>16. Correct'
  BY <1>1, <1>3, <1>6, <1>7, BesideSame, FixedSame DEF Correct
<1>17. Plain' /\ Framed'
  BY <1>1, <1>3, <1>6, <1>8, <1>12, <1>15, BesideSame, ReplyKept
<1>18. Kinds'
  <2>1. \A y \in Parties : at'[y] = "data" => S!Header
    BY <1>1, <1>6 DEF Kinds
  <2>2. /\ offset' \in 0 .. Len(Contents) /\ printed' \in Seq(Any) /\ written' \in [Parties -> Nat]
        /\ client' \in Early \cup Late \cup Lost /\ DOMAIN mesg_len' = Parties
        /\ server' \in Coming \cup Serving \cup Lost
    BY <1>1, <1>6, <1>8, BesideSame DEF Kinds
  <2>. QED
    BY <1>1, <1>3, <1>6, <1>7, <2>1, <2>2, KindsKept
<1>. QED
  BY <1>3, <1>5, <1>10, <1>11, <1>13, <1>14, <1>16, <1>17, <1>18, StreamAll

\* A party fails in a read.
LEMMA ReadFails ==
  ASSUME TransferIInv, Streaming, Beside, NEW x \in Parties, NEW here \in {"receive", "data"},
         At(x, here, "error"), Excused, stream' \in [S!Both -> Seq(Any)],
         stream'[S!Out(x)] = stream[S!Out(x)], buff' \in [Parties -> Seq(Any)],
         \A y \in Parties : y # x => buff'[y] = buff[y],
         DOMAIN mesg_len' = Parties, \A y \in Parties : y # x => mesg_len'[y] = mesg_len[y]
  PROVE  TransferIInv'
<1>1. Kinds /\ OnStream /\ NameSent /\ Served /\ Correct /\ Plain /\ Splits /\ Framed
  BY DEF TransferIInv, Carried
<1>2. "client" \in Parties /\ "server" \in Parties /\ "server" # "client"
  BY DEF Parties
<1>3. Fixed
  BY BesideSame DEF Fixed, At
<1>4. here \in Talking \ (Lost \cup {"exit"}) /\ "error" \in Talking /\ here # "wait"
  BY DEF Talking, Labels, Lost, Over
<1>5. GoesOn(x, here, "error") /\ Opened' /\ Present' /\ Justified'
  BY <1>2, <1>3, <1>4, BesideSame, TalkKeeps
<1>6. /\ at' \in [Parties -> Labels]
      /\ \/ x = "client" /\ client = here /\ client' = "error" /\ server' = server
         \/ x = "server" /\ server = here /\ server' = "error" /\ client' = client
      /\ \A y \in Parties : at'[y] = "error" \/ at'[y] = at[y]
  BY <1>5, GoesTo
<1>7. Kinds'
  <2>1. \A y \in Parties : at'[y] = "data" => S!Header
    BY <1>1, <1>6 DEF Kinds
  <2>2. /\ offset' \in 0 .. Len(Contents) /\ printed' \in Seq(Any) /\ written' \in [Parties -> Nat]
        /\ client' \in Early \cup Late \cup Lost /\ server' \in Coming \cup Serving \cup Lost
    BY <1>1, <1>6, BesideSame DEF Kinds, Lost
  <2>. QED
    BY <1>1, <1>3, <1>6, <2>1, <2>2, KindsKept
<1>8. CASE x = "client"
  <2>1. /\ client = here /\ client' = "error" /\ server' = server /\ client \in Late
        /\ client' \in Lost /\ client' \notin Reading /\ client' \notin {"print", "data", "send"}
    BY <1>6, <1>8 DEF Late, Lost, Reading, Early
  <2>2. stream'[1] = stream[1] /\ buff'["server"] = buff["server"]
        /\ mesg_len'["server"] = mesg_len["server"]
    BY <1>2, <1>8 DEF S!Out, S!In
  <2>3. OnStream' /\ NameSent'
    BY <1>1, <1>3, <2>1, <2>2, BesideSame, NameKept
  <2>4. Served' /\ Splits' /\ Sent' = Sent /\ Text' = Text
    BY <1>1, <1>3, <2>1, <2>2, BesideSame, ServedKept
  <2>5. Plain' /\ Framed'
    BY <2>1 DEF Plain, Framed
  <2>6. Correct'
    BY <1>1, <1>3, <2>1, BesideSame, FixedSame DEF Correct
  <2>. QED
    BY <1>3, <1>5, <1>7, <2>3, <2>4, <2>5, <2>6, StreamAll
<1>9. CASE x = "server"
  <2>1. /\ server = here /\ server' = "error" /\ client' = client /\ server \in Coming
        /\ server' \in Lost /\ server' \notin Serving \cup Coming \cup Sends
        /\ server' \notin {"open", "file", "send", "send_message", "end", "exit", "done"}
        /\ server' \in Ending
    BY <1>6, <1>9 DEF Coming, Serving, Sends, Lost, Ending
  <2>2. stream'[2] = stream[2] /\ buff'["client"] = buff["client"]
        /\ mesg_len'["client"] = mesg_len["client"]
    BY <1>2, <1>9 DEF S!Out, S!In
  <2>3. OnStream' /\ NameSent'
    BY <1>1, <1>3, <2>1, <2>2, BesideSame, FixedSame DEF OnStream, NameSent
  <2>4. Served' /\ Splits'
    BY <2>1 DEF Served, Splits
  <2>5. Taken' = Taken
    BY <2>1, <2>2, BesideSame DEF Taken
  <2>6. Plain' /\ Framed'
    BY <1>1, <1>3, <2>1, <2>2, <2>5, BesideSame, ReplyKept
  <2>7. Correct'
    BY <1>1, <1>3, <2>1, <2>2, BesideSame, FixedSame DEF Correct
  <2>. QED
    BY <1>3, <1>5, <1>7, <2>3, <2>4, <2>6, <2>7, StreamAll
<1>. QED
  BY <1>8, <1>9 DEF Parties

\* The client goes on after a read.
LEMMA ClientTurn ==
  ASSUME TransferIInv, Streaming, Beside, NEW here \in {"receive", "data"},
         NEW there \in {"print", "data", "wait"}, At("client", here, there),
         there = "wait" => server \in Ending, there = "data" => S!Header,
         stream' \in [S!Both -> Seq(Any)], stream'[1] = stream[1],
         buff' \in [Parties -> Seq(Any)], buff'["server"] = buff["server"],
         DOMAIN mesg_len' = Parties, mesg_len'["server"] = mesg_len["server"]
  PROVE  /\ Fixed /\ client = here /\ client' = there /\ server' = server
         /\ Kinds' /\ Opened' /\ Present' /\ Justified' /\ OnStream' /\ NameSent'
         /\ Served' /\ Splits' /\ Sent' = Sent /\ Text' = Text
<1>1. Kinds /\ OnStream /\ NameSent /\ Served /\ Correct /\ Plain /\ Splits /\ Framed
  BY DEF TransferIInv, Carried
<1>2. "client" \in Parties /\ "server" \in Parties /\ "server" # "client"
  BY DEF Parties
<1>3. Fixed
  BY BesideSame DEF Fixed, At
<1>4. here \in Talking \ (Lost \cup {"exit"}) /\ there \in Talking /\ here # "wait"
      /\ there # "error"
  BY DEF Talking, Labels, Lost, Over
<1>5. GoesOn("client", here, there) /\ Opened' /\ Present' /\ Justified'
  BY <1>2, <1>3, <1>4, BesideSame, TalkKeeps
<1>6. /\ at' \in [Parties -> Labels] /\ client = here /\ client' = there /\ server' = server
      /\ \A y \in Parties : at'[y] = there \/ at'[y] = at[y]
  BY <1>2, <1>5, GoesTo
<1>7. client \in Late /\ client' \in Late
  BY <1>6 DEF Late
<1>8. Kinds'
  <2>1. \A y \in Parties : at'[y] = "data" => S!Header
    BY <1>1, <1>6 DEF Kinds
  <2>2. /\ offset' \in 0 .. Len(Contents) /\ printed' \in Seq(Any) /\ written' \in [Parties -> Nat]
        /\ client' \in Early \cup Late \cup Lost /\ server' \in Coming \cup Serving \cup Lost
    BY <1>1, <1>6, <1>7, BesideSame DEF Kinds
  <2>. QED
    BY <1>1, <1>3, <1>6, <2>1, <2>2, KindsKept
<1>9. OnStream' /\ NameSent'
  BY <1>1, <1>3, <1>6, <1>7, BesideSame, NameKept
<1>10. Served' /\ Splits' /\ Sent' = Sent /\ Text' = Text
  BY <1>1, <1>3, <1>6, BesideSame, ServedKept
<1>. QED
  BY <1>3, <1>5, <1>6, <1>8, <1>9, <1>10

\* A read without headers.
LEMMA ReadTextIs ==
  ASSUME Kinds, Streaming, NEW x \in Parties, S!ReadText(x), UNCHANGED queues
  PROVE  /\ ~S!Header /\ Beside /\ mesg_len' = mesg_len
         /\ \/ S!AtEnd(x) /\ At(x, "receive", Ended(x)) /\ Still
            \/ /\ At(x, "receive", Got(x))
               /\ \E l \in Nat, n \in Nat :
                    /\ l = Len(stream[S!In(x)]) /\ n =< l /\ n =< MAXBUFF /\ n >= 1
                    /\ n = MAXBUFF \/ n = l
                    /\ Takes(x, n) /\ Fills(x, n)
<1>1. ~S!Header /\ mesg_len' = mesg_len
  BY DEF S!ReadText
<1>2. Beside
  BY DEF S!ReadText, Beside, queues
<1>3. CASE S!AtEnd(x) /\ At(x, "receive", Ended(x)) /\ UNCHANGED <<buff, stream>>
  <2>1. Still
    BY <1>1, <1>2, <1>3, BesideSame DEF Still, At, dataVars
  <2>. QED
    BY <1>1, <1>2, <1>3, <2>1
<1>4. CASE /\ stream[S!In(x)] # <<>> /\ At(x, "receive", Got(x))
           /\ S!ReadInto(x, Smaller(MAXBUFF, Len(stream[S!In(x)])))
  <2>1. stream[S!In(x)] \in Seq(Any)
    BY DEF Kinds, S!In, S!Both
  <2>2. PICK l \in Nat : l = Len(stream[S!In(x)])
    BY <2>1
  <2>3. l > 0
    BY <1>4, <2>1, <2>2
  <2>4. MAXBUFF \in Nat /\ MAXBUFF > 0
    BY Texts
  <2>5. PICK n \in Nat : n = Smaller(MAXBUFF, l)
    BY <2>4 DEF Smaller
  <2>6. n =< l /\ n =< MAXBUFF /\ n >= 1 /\ (n = MAXBUFF \/ n = l)
    BY <2>3, <2>4, <2>5 DEF Smaller
  <2>7. S!ReadInto(x, n)
    BY <1>4, <2>2, <2>5
  <2>8. Takes(x, n) /\ Fills(x, n)
    BY <2>2, <2>6, <2>7, ReadIntoIs
  <2>. QED
    BY <1>1, <1>2, <1>4, <2>2, <2>6, <2>8
<1>. QED
  BY <1>3, <1>4, SameReads, SameSteps DEF S!ReadText

LEMMA Shift == \A p, l, n \in Nat : (p + n) + (l - n) = p + l
OBVIOUS

LEMMA ClientTexts ==
  ASSUME TransferIInv, Streaming, Beside, ~S!Header, mesg_len' = mesg_len,
         At("client", "receive", "print"), NEW n \in Nat, NEW l \in Nat, l = Len(stream[2]),
         n =< l, Takes("client", n), Fills("client", n)
  PROVE  TransferIInv'
<1>1. Kinds /\ Correct /\ Plain /\ "client" \in Parties /\ "server" \in Parties
        /\ "server" # "client"
  BY DEF TransferIInv, Carried, Parties
<1>2. /\ stream' \in [S!Both -> Seq(Any)] /\ stream'[1] = stream[1]
      /\ buff' \in [Parties -> Seq(Any)] /\ buff'["server"] = buff["server"]
      /\ stream'[2] = SubSeq(stream[2], n + 1, Len(stream[2]))
      /\ buff'["client"] = SubSeq(stream[2], 1, n)
  BY <1>1 DEF Takes, Fills, S!In, S!Out
<1>3. DOMAIN mesg_len' = Parties /\ mesg_len'["server"] = mesg_len["server"]
  BY <1>1 DEF Kinds
<1>4. /\ Fixed /\ client = "receive" /\ client' = "print" /\ server' = server
      /\ Kinds' /\ Opened' /\ Present' /\ Justified' /\ OnStream' /\ NameSent'
      /\ Served' /\ Splits' /\ Sent' = Sent /\ Text' = Text
  BY <1>2, <1>3, ClientTurn
<1>5. PICK s \in Seq(Any) : s = stream[2]
  BY <1>1 DEF Kinds, S!Both
<1>6. Part(Reply, s, Taken) /\ client \in Reading /\ client' \in Reading
  BY <1>1, <1>4, <1>5 DEF Plain, Reading
<1>7. PICK p \in Nat : p = Len(printed) /\ p = Taken
  BY <1>1, <1>4 DEF Taken, Kinds
<1>8. Part(Reply, SubSeq(s, n + 1, l), p + n)
  BY <1>5, <1>6, <1>7, PartOfPart, ReplyIs
<1>9. Part(Reply, SubSeq(s, 1, n), p)
  <2>1. Part(Reply, SubSeq(s, 0 + 1, n), p + 0)
    BY <1>5, <1>6, <1>7, PartOfPart, ReplyIs
  <2>2. 0 + 1 = 1 /\ p + 0 = p
    OBVIOUS
  <2>. QED
    BY <2>1, <2>2, Zenon
<1>10. Len(SubSeq(s, 1, n)) = n /\ Len(SubSeq(s, n + 1, l)) = l - n
  BY <1>5
<1>11. Taken' = p + n
  <2>1. Taken' = Len(printed') + Len(buff'["client"])
    BY <1>4 DEF Taken
  <2>2. Len(buff'["client"]) = n /\ Len(printed') = p
    BY <1>2, <1>5, <1>7, <1>10, BesideSame
  <2>. QED
    BY <2>1, <2>2
<1>12. Correct'
  BY <1>1, <1>2, <1>4, <1>5, <1>7, <1>9, BesideSame, FixedSame DEF Correct
<1>13. Plain'
  <2>1. Part(Reply', stream'[2], Taken')
    BY <1>2, <1>4, <1>5, <1>8, <1>11, FixedSame
  <2>2. ASSUME server \notin Lost PROVE Taken' + Len(stream'[2]) = Sent + written["server"]
    <3>1. p + l = Sent + written["server"]
      BY <1>1, <1>5, <1>6, <1>7, <2>2 DEF Plain
    <3>2. Len(stream'[2]) = l - n
      BY <1>2, <1>5, <1>10
    <3>3. (p + n) + (l - n) = p + l
      BY <1>7, Shift, Zenon
    <3>4. Taken' + Len(stream'[2]) = (p + n) + (l - n)
      BY <1>11, <3>2, Zenon
    <3>. QED
      BY <3>1, <3>3, <3>4, Zenon
  <2>. QED
    BY <1>4, <2>1, <2>2, BesideSame DEF Plain
<1>14. Framed'
  BY <1>4, FixedSame DEF Framed
<1>. QED
  BY <1>4, <1>12, <1>13, <1>14, StreamAll

LEMMA CameIs ==
  ASSUME Kinds, OnStream, Streaming, server \in Coming
  PROVE  /\ Came \in Seq(Any) /\ Len(Came) \in Nat /\ Len(Asked) \in Nat /\ Asked \in Seq(Any)
         /\ Len(Came) =< Len(Asked) /\ \A j \in 1 .. Len(Came) : Came[j] = Asked[j]
         /\ Len(Asked) =< PIPE_BUF => Came = <<>> \/ Len(Came) = Len(Asked)
         /\ server = "data" => mesg_len["server"] # 0
<1>1. stream[1] \in Seq(Any)
  BY DEF Kinds, S!Both
<1>2. /\ Len(Came) =< Len(Asked) /\ \A j \in 1 .. Len(Came) : Came[j] = Asked[j]
      /\ Len(Asked) =< PIPE_BUF => Came = <<>> \/ Len(Came) = Len(Asked)
      /\ server = "data" => mesg_len["server"] # 0
  BY DEF OnStream
<1>3. Asked \in Seq(Any) /\ Len(Asked) \in Nat
  BY NameIs
<1>4. CASE server # "data"
  BY <1>1, <1>2, <1>3, <1>4 DEF Came
<1>5. CASE server = "data"
  <2>1. Came = <<mesg_len["server"]>> \o stream[1]
    BY <1>5 DEF Came
  <2>2. PICK m : m = mesg_len["server"]
    OBVIOUS
  <2>3. Len(<<m>> \o stream[1]) = Len(stream[1]) + 1 /\ (<<m>> \o stream[1])[1] = m
    BY <1>1, Prepend
  <2>4. PICK l \in Nat : l = Len(stream[1])
    BY <1>1
  <2>5. Len(Came) = l + 1 /\ Came[1] = m
    BY <2>1, <2>2, <2>3, <2>4
  <2>6. l + 1 \in Nat /\ 1 \in 1 .. l + 1
    BY <2>4
  <2>7. PICK a \in Nat : a = Len(Asked)
    BY <1>3
  <2>8. l + 1 =< a
    BY <1>2, <2>5, <2>7
  <2>9. Came[1] = Asked[1]
    BY <1>2, <2>5, <2>6
  <2>10. Asked[1] \in Any
    BY <1>3, <2>4, <2>7, <2>8
  <2>11. Came \in Seq(Any)
    BY <1>1, <2>1, <2>2, <2>5, <2>9, <2>10, Prefixed
  <2>. QED
    BY <1>2, <1>3, <2>5, <2>6, <2>11
<1>. QED
  BY <1>4, <1>5

LEMMA NameCame ==
  ASSUME Kinds, OnStream, Streaming, server \in Coming, Came # <<>>, Len(Came) = Len(Asked)
  PROVE  client \in Late \cup Lost
<1>1. PICK l \in Nat : l = Len(Came) /\ l = Len(Asked)
  BY CameIs
<1>2. Came \in Seq(Any) /\ Asked \in Seq(Any)
  BY CameIs
<1>3. l > 0 /\ Asked # <<>>
  BY <1>1, <1>2
<1>4. client \notin Early \ {"send"}
  BY DEF OnStream
<1>5. client # "send"
  <2>1. ASSUME client = "send" PROVE Len(Came) < Len(Asked)
    BY <1>3, <2>1 DEF OnStream
  <2>. QED
    BY <1>1, <2>1
<1>. QED
  BY <1>4, <1>5 DEF Kinds

LEMMA Beginning ==
  ASSUME NEW s \in Seq(Any), NEW a \in Nat, a =< Len(s)
  PROVE  /\ SubSeq(s, 1, a) \in Seq(Any) /\ Len(SubSeq(s, 1, a)) = a
         /\ \A j \in 1 .. a : SubSeq(s, 1, a)[j] = s[j]
<1>1. /\ SubSeq(s, 0 + 1, a) \in Seq(Any) /\ Len(SubSeq(s, 0 + 1, a)) = a - 0
      /\ \A j \in 1 .. a - 0 : SubSeq(s, 0 + 1, a)[j] = s[0 + j]
  BY Slice
<1>2. 0 + 1 = 1 /\ a - 0 = a
  OBVIOUS
<1>3. /\ SubSeq(s, 1, a) \in Seq(Any) /\ Len(SubSeq(s, 1, a)) = a
      /\ \A j \in 1 .. a : SubSeq(s, 1, a)[j] = s[0 + j]
  BY <1>1, <1>2, Zenon
<1>. QED
  BY <1>3

LEMMA ServerTexts ==
  ASSUME TransferIInv, Streaming, Beside, ~S!Header, mesg_len' = mesg_len,
         At("server", "receive", "open"), NEW n \in Nat, NEW l \in Nat, l = Len(stream[1]),
         n =< l, n >= 1, n = MAXBUFF \/ n = l, n =< MAXBUFF,
         Takes("server", n), Fills("server", n)
  PROVE  TransferIInv'
<1>1. Kinds /\ OnStream /\ Streaming /\ "server" \in Parties
  BY DEF TransferIInv, Parties
<1>2. server = "receive" /\ server \in Coming
  BY DEF At, server, Coming
<1>3. Came = stream[1] /\ Asked = name /\ Came \in Seq(Any)
  BY <1>1, <1>2, CameIs DEF Came, Asked
<1>4. PICK a \in Nat : a = Len(name)
  BY <1>1, NameIs
<1>5. a =< MAXBUFF /\ a =< PIPE_BUF
  <2>1. PIPE_BUF \in PIPE_BUFs /\ name \in {Name, <<>>}
    BY <1>1 DEF Kinds
  <2>2. PIPE_BUF \in Nat /\ Len(Name) =< PIPE_BUF /\ Len(Name) \in Nat /\ Len(Name) =< MAXBUFF
    BY <2>1, KernelAssumption, Texts
  <2>3. Len(<<>>) = 0 /\ MAXBUFF \in Nat
    BY Texts
  <2>4. CASE name = Name
    BY <1>4, <2>2, <2>4
  <2>5. CASE name = <<>>
    BY <1>4, <2>2, <2>3, <2>5
  <2>. QED
    BY <2>1, <2>4, <2>5
<1>6. Came # <<>>
  BY <1>3
<1>7. Len(Came) = Len(Asked)
  BY <1>1, <1>2, <1>3, <1>4, <1>5, <1>6, CameIs
<1>8. l = a /\ n = a /\ MAXBUFF \in Nat
  BY <1>3, <1>4, <1>5, <1>7, Texts
<1>9. client \in Late \cup Lost
  BY <1>1, <1>2, <1>6, <1>7, NameCame
<1>10. name # <<>>
  BY <1>4, <1>8
<1>11. buff'["server"] = name
  <2>1. buff'["server"] = SubSeq(stream[1], 1, a)
    BY <1>8 DEF Fills, S!In
  <2>2. PICK s \in Seq(Any) : s = stream[1]
    BY <1>3
  <2>3. a =< Len(s)
    BY <1>8, <2>2
  <2>4. /\ SubSeq(s, 1, a) \in Seq(Any) /\ Len(SubSeq(s, 1, a)) = a
        /\ \A j \in 1 .. a : SubSeq(s, 1, a)[j] = s[j]
    BY <2>2, <2>3, Beginning
  <2>5. \A j \in 1 .. a : s[j] = name[j]
    BY <1>1, <1>2, <1>3, <1>8, <2>2, CameIs
  <2>6. name \in Seq(Any)
    BY <1>1, NameIs
  <2>7. SubSeq(s, 1, a) = name
    BY <1>4, <2>4, <2>5, <2>6, SeqEqual
  <2>. QED
    BY <2>1, <2>2, <2>7
<1>12. stream' \in [S!Both -> Seq(Any)] /\ stream'[2] = stream[2]
  BY DEF Takes, S!Out, S!In
<1>13. Fills("server", Len(name))
  BY <1>4, <1>8
<1>. QED
  BY <1>9, <1>10, <1>11, <1>12, <1>13, ServerGot

LEMMA ReadTextKeeps ==
  ASSUME TransferIInv, Streaming, NEW x \in Parties, S!ReadText(x), UNCHANGED queues
  PROVE  TransferIInv'
<1>1. Kinds
  BY DEF TransferIInv
<1>2. ~S!Header /\ Beside /\ mesg_len' = mesg_len
  BY <1>1, ReadTextIs
<1>3. CASE S!AtEnd(x) /\ At(x, "receive", Ended(x)) /\ Still
  BY <1>2, <1>3, BesideSame, ReadEnds
<1>4. CASE /\ At(x, "receive", Got(x))
           /\ \E l \in Nat, n \in Nat :
                /\ l = Len(stream[S!In(x)]) /\ n =< l /\ n =< MAXBUFF /\ n >= 1
                /\ n = MAXBUFF \/ n = l
                /\ Takes(x, n) /\ Fills(x, n)
  <2>1. PICK l \in Nat, n \in Nat :
          /\ l = Len(stream[S!In(x)]) /\ n =< l /\ n =< MAXBUFF /\ n >= 1
          /\ n = MAXBUFF \/ n = l
          /\ Takes(x, n) /\ Fills(x, n)
    BY <1>4
  <2>2. CASE x = "client"
    <3>1. l = Len(stream[2]) /\ At("client", "receive", "print")
          /\ Takes("client", n) /\ Fills("client", n)
      BY <1>4, <2>1, <2>2 DEF S!In, Got
    <3>. QED
      BY <1>2, <2>1, <3>1, ClientTexts
  <2>3. CASE x = "server"
    <3>1. l = Len(stream[1]) /\ At("server", "receive", "open")
          /\ Takes("server", n) /\ Fills("server", n)
      BY <1>4, <2>1, <2>3 DEF S!In, Got
    <3>. QED
      BY <1>2, <2>1, <3>1, ServerTexts
  <2>. QED
    BY <2>2, <2>3 DEF Parties
<1>. QED
  BY <1>1, <1>3, <1>4, ReadTextIs

LEMMA HeadBack ==
  ASSUME NEW s \in Seq(Any), s # <<>>
  PROVE  /\ s[1] \in Any /\ SubSeq(s, 2, Len(s)) \in Seq(Any)
         /\ <<s[1]>> \o SubSeq(s, 2, Len(s)) = s
<1>1. PICK l \in Nat : l = Len(s)
  OBVIOUS
<1>2. l >= 1 /\ 1 + 1 = 2 /\ 1 =< l /\ l =< l /\ 1 \in Nat
  BY <1>1
<1>3. SubSeq(s, 1 + 1, l) \in Seq(Any) /\ Len(SubSeq(s, 1 + 1, l)) = l - 1
      /\ \A j \in 1 .. l - 1 : SubSeq(s, 1 + 1, l)[j] = s[1 + j]
  BY <1>1, <1>2, Slice
<1>4. SubSeq(s, 2, l) \in Seq(Any) /\ Len(SubSeq(s, 2, l)) = l - 1
      /\ \A j \in 1 .. l - 1 : SubSeq(s, 2, l)[j] = s[1 + j]
  BY <1>2, <1>3, Zenon
<1>5. PICK t \in Seq(Any) : t = SubSeq(s, 2, l)
  BY <1>4
<1>6. Len(t) = l - 1 /\ \A j \in 1 .. l - 1 : t[j] = s[1 + j]
  BY <1>4, <1>5
<1>7. s[1] \in Any
  BY <1>1, <1>2
<1>8. PICK e \in Any : e = s[1]
  BY <1>7
<1>9. /\ <<e>> \o t \in Seq(Any) /\ Len(<<e>> \o t) = Len(t) + 1 /\ (<<e>> \o t)[1] = e
      /\ \A j \in 1 .. Len(t) : (<<e>> \o t)[1 + j] = t[j]
  BY Prefixed
<1>10. PICK u \in Seq(Any) : u = <<e>> \o t
  BY <1>9
<1>11. Len(u) = l /\ u[1] = s[1] /\ \A j \in 1 .. l - 1 : u[1 + j] = s[1 + j]
  BY <1>1, <1>6, <1>8, <1>9, <1>10
<1>12. \A k \in 1 .. l : u[k] = s[k]
  <2>1. ASSUME NEW k \in 1 .. l, k # 1 PROVE u[k] = s[k]
    <3>1. k - 1 \in 1 .. l - 1 /\ 1 + (k - 1) = k
      BY <1>1, <2>1
    <3>. QED
      BY <1>11, <3>1
  <2>. QED
    BY <1>11, <2>1
<1>13. u = s
  BY <1>1, <1>11, <1>12, SeqEqual
<1>. QED
  BY <1>1, <1>4, <1>5, <1>7, <1>8, <1>10, <1>13

\* The header that x reads may be there in part.
CutHeader(x) ==
  /\ stream[S!In(x)] # <<>> /\ Len(stream[S!In(x)]) = 1
  /\ PIPE_BUF < 1 + stream[S!In(x)][1]

\* What a read of a header does.
LEMMA ReadHeaderIs ==
  ASSUME Kinds, Streaming, NEW x \in Parties, S!ReadHeader(x), UNCHANGED queues
  PROVE  /\ S!Header /\ Beside /\ buff' = buff
         /\ \/ S!AtEnd(x) /\ At(x, "receive", Ended(x)) /\ Still
            \/ /\ stream[S!In(x)] # <<>> /\ Takes(x, 1)
               /\ At(x, "receive", IF stream[S!In(x)][1] = 0 THEN Ended(x) ELSE "data")
               /\ mesg_len' = [mesg_len EXCEPT ![x] = stream[S!In(x)][1]]
            \/ /\ CutHeader(x) /\ Takes(x, 1) /\ At(x, "receive", "error") /\ mesg_len' = mesg_len
<1>1. S!Header /\ Beside /\ buff' = buff
  BY DEF S!ReadHeader, Beside, queues, S!dataVars
<1>2. CASE S!AtEnd(x) /\ At(x, "receive", Ended(x)) /\ UNCHANGED <<stream, mesg_len>>
  <2>1. Still
    BY <1>1, <1>2, BesideSame DEF Still, At, dataVars
  <2>. QED
    BY <1>1, <1>2, <2>1
<1>3. CASE /\ stream[S!In(x)] # <<>>
           /\ At(x, "receive", IF Head(stream[S!In(x)]) = 0 THEN Ended(x) ELSE "data")
           /\ S!Take(x, 1)
           /\ mesg_len' = [mesg_len EXCEPT ![x] = Head(stream[S!In(x)])]
  <2>1. stream[S!In(x)] \in Seq(Any)
    BY DEF Kinds, S!In, S!Both
  <2>2. PICK s \in Seq(Any) : s = stream[S!In(x)]
    BY <2>1
  <2>3. PICK l \in Nat : l = Len(s)
    OBVIOUS
  <2>4. Head(s) = s[1] /\ 1 =< l
    BY <1>3, <2>2, <2>3
  <2>5. Takes(x, 1)
    <3>1. 1 \in Nat /\ l = Len(stream[S!In(x)])
      BY <2>2, <2>3
    <3>. QED
      BY <1>3, <2>4, <3>1, TakeIs
  <2>. QED
    BY <1>1, <1>3, <2>2, <2>4, <2>5
<1>4. CASE /\ S!MayBeCut(x) /\ At(x, "receive", "error")
           /\ S!Take(x, 1) /\ UNCHANGED mesg_len
  <2>1. PICK s \in Seq(Any) : s = stream[S!In(x)]
    BY DEF Kinds, S!In, S!Both
  <2>2. Len(s) = 1 /\ PIPE_BUF < 1 + Head(s)
    BY <1>4, <2>1 DEF S!MayBeCut
  <2>3. Head(s) = s[1] /\ s # <<>>
    BY <2>2
  <2>4. Takes(x, 1)
    <3>1. 1 \in Nat /\ 1 = Len(stream[S!In(x)]) /\ 1 =< 1
      BY <2>1, <2>2
    <3>. QED
      BY <1>4, <3>1, TakeIs
  <2>5. CutHeader(x)
    BY <2>1, <2>2, <2>3 DEF CutHeader
  <2>. QED
    BY <1>1, <1>4, <2>4, <2>5
<1>. QED
  BY <1>2, <1>3, <1>4, SameReads, SameSteps DEF S!ReadHeader

LEMMA ClientHeader ==
  ASSUME TransferIInv, Streaming, Beside, S!Header, buff' = buff, stream[2] # <<>>,
         At("client", "receive", IF stream[2][1] = 0 THEN "wait" ELSE "data"),
         Takes("client", 1), mesg_len' = [mesg_len EXCEPT !["client"] = stream[2][1]]
  PROVE  TransferIInv'
<1>1. Kinds /\ Correct /\ Plain /\ Framed /\ "client" \in Parties /\ "server" \in Parties
      /\ "server" # "client"
  BY DEF TransferIInv, Carried, Parties
<1>2. stream' \in [S!Both -> Seq(Any)] /\ stream'[1] = stream[1]
      /\ stream'[2] = SubSeq(stream[2], 1 + 1, Len(stream[2]))
  BY <1>1 DEF Takes, S!In, S!Out
<1>3. DOMAIN mesg_len' = Parties /\ mesg_len'["server"] = mesg_len["server"]
      /\ mesg_len'["client"] = stream[2][1]
  BY <1>1 DEF Kinds
<1>4. PICK s \in Seq(Any) : s = stream[2]
  BY <1>1 DEF Kinds, S!Both
<1>5. client = "receive" /\ client \in Reading /\ Whole = s
  BY <1>4 DEF At, client, Reading, Whole
<1>6. PICK mark \in Marks(Reply, Len(s)) : Holds(s, mark)
  BY <1>1, <1>5, FramedHolds
<1>7. 1 \in DOMAIN mark
  BY <1>4, <1>6 DEF Holds, First
<1>8. s[1] = 0 => server \in Ending
  BY <1>6, <1>7 DEF Holds
<1>9. buff' \in [Parties -> Seq(Any)] /\ buff'["server"] = buff["server"]
  BY <1>1 DEF Kinds
<1>10. CASE s[1] = 0
  <2>1. At("client", "receive", "wait") /\ server \in Ending
    BY <1>4, <1>8, <1>10
  <2>2. /\ Fixed /\ client = "receive" /\ client' = "wait" /\ server' = server
        /\ Kinds' /\ Opened' /\ Present' /\ Justified' /\ OnStream' /\ NameSent'
        /\ Served' /\ Splits' /\ Sent' = Sent /\ Text' = Text
    BY <1>2, <1>3, <1>9, <2>1, ClientTurn
  <2>3. client' \notin Reading /\ client' # "print"
    BY <2>2 DEF Reading, Early
  <2>4. Plain' /\ Framed'
    BY <2>3 DEF Plain, Framed
  <2>5. Correct'
    BY <1>1, <2>2, <2>3, BesideSame, FixedSame DEF Correct
  <2>. QED
    BY <2>2, <2>4, <2>5, StreamAll
<1>11. CASE s[1] # 0
  <2>1. At("client", "receive", "data")
    BY <1>4, <1>11
  <2>2. /\ Fixed /\ client = "receive" /\ client' = "data" /\ server' = server
        /\ Kinds' /\ Opened' /\ Present' /\ Justified' /\ OnStream' /\ NameSent'
        /\ Served' /\ Splits' /\ Sent' = Sent /\ Text' = Text
    BY <1>2, <1>3, <1>9, <2>1, ClientTurn
  <2>3. Whole' = s
    <3>1. Whole' = <<s[1]>> \o SubSeq(s, 2, Len(s))
      BY <1>2, <1>3, <1>4, <2>2 DEF Whole
    <3>. QED
      BY <1>4, <3>1, HeadBack
  <2>4. Taken' = Taken
    BY <2>2, BesideSame DEF Taken
  <2>5. Holds(s, mark)'
    BY <1>6, <2>2, <2>4, BesideSame, FixedSame DEF Holds
  <2>6. Framed'
    <3>1. mesg_len'["client"] # 0
      BY <1>3, <1>4, <1>11
    <3>2. mark \in Marks(Reply', Len(Whole'))
      BY <1>6, <2>2, <2>3, FixedSame
    <3>. QED
      BY <2>3, <2>5, <3>1, <3>2 DEF Framed, Holds
  <2>7. Plain'
    BY <2>2, FixedSame DEF Plain
  <2>8. Correct'
    BY <1>1, <2>2, BesideSame, FixedSame DEF Correct
  <2>. QED
    BY <2>2, <2>6, <2>7, <2>8, StreamAll
<1>. QED
  BY <1>10, <1>11

\* The header of the name has come.
LEMMA ServerWaits ==
  ASSUME TransferIInv, Streaming, Beside, S!Header, buff' = buff, Came' = Came,
         At("server", "receive", "data"), stream' \in [S!Both -> Seq(Any)],
         stream'[2] = stream[2], DOMAIN mesg_len' = Parties, mesg_len'["server"] # 0,
         mesg_len'["client"] = mesg_len["client"]
  PROVE  TransferIInv'
<1>1. Kinds /\ OnStream /\ NameSent /\ Served /\ Correct /\ Plain /\ Splits /\ Framed
  BY DEF TransferIInv, Carried
<1>2. "client" \in Parties /\ "server" \in Parties /\ "server" # "client"
  BY DEF Parties
<1>3. Fixed
  BY BesideSame DEF Fixed, At
<1>4. "receive" \in Talking \ (Lost \cup {"exit"}) /\ "data" \in Talking
  BY DEF Talking, Labels, Lost, Over
<1>5. GoesOn("server", "receive", "data") /\ Opened' /\ Present' /\ Justified'
  BY <1>2, <1>3, <1>4, BesideSame, TalkKeeps
<1>6. /\ at' \in [Parties -> Labels] /\ server = "receive" /\ server' = "data"
      /\ client' = client /\ \A y \in Parties : at'[y] = "data" \/ at'[y] = at[y]
  BY <1>2, <1>5, GoesTo
<1>7. /\ server \in Coming /\ server' \in Coming
      /\ server' \notin Serving \cup Sends \cup Lost \cup Ending
      /\ server \notin Serving \cup Sends \cup Lost \cup Ending
      /\ server' \notin {"open", "file", "send", "send_message", "end", "exit", "done"}
  BY <1>6 DEF Coming, Serving, Sends, Lost, Ending
<1>8. OnStream'
  BY <1>1, <1>3, <1>6, <1>7, BesideSame, FixedSame DEF OnStream
<1>9. NameSent'
  BY <1>1, <1>6, <1>7, BesideSame DEF NameSent
<1>10. Sent = 0 /\ Sent' = 0
  BY <1>6, <1>7 DEF Sent
<1>11. Served'
  BY <1>1, <1>7, BesideSame DEF Served
<1>12. Splits'
  <2>1. written'["server"] = 0
    BY <1>1, <1>7, BesideSame DEF Splits
  <2>. QED
    BY <1>3, <1>7, <2>1, SplitsStart
<1>13. Taken' = Taken
  BY <1>6, BesideSame DEF Taken
<1>14. Correct'
  BY <1>1, <1>3, <1>6, BesideSame, FixedSame DEF Correct
<1>15. Plain' /\ Framed'
  BY <1>1, <1>3, <1>6, <1>7, <1>10, <1>13, BesideSame, ReplyKept
<1>16. Kinds'
  <2>1. \A y \in Parties : at'[y] = "data" => S!Header
    OBVIOUS
  <2>2. /\ offset' \in 0 .. Len(Contents) /\ printed' \in Seq(Any) /\ written' \in [Parties -> Nat]
        /\ buff' \in [Parties -> Seq(Any)]
        /\ client' \in Early \cup Late \cup Lost /\ server' \in Coming \cup Serving \cup Lost
    BY <1>1, <1>6, <1>7, BesideSame DEF Kinds
  <2>. QED
    BY <1>1, <1>3, <1>6, <2>1, <2>2, KindsKept
<1>. QED
  BY <1>3, <1>5, <1>8, <1>9, <1>11, <1>12, <1>14, <1>15, <1>16, StreamAll

LEMMA ServerHeader ==
  ASSUME TransferIInv, Streaming, Beside, S!Header, buff' = buff, stream[1] # <<>>,
         At("server", "receive", IF stream[1][1] = 0 THEN "error" ELSE "data"),
         Takes("server", 1), mesg_len' = [mesg_len EXCEPT !["server"] = stream[1][1]]
  PROVE  TransferIInv'
<1>1. Kinds /\ OnStream /\ "client" \in Parties /\ "server" \in Parties /\ "server" # "client"
  BY DEF TransferIInv, Parties
<1>2. stream' \in [S!Both -> Seq(Any)] /\ stream'[2] = stream[2]
      /\ stream'[1] = SubSeq(stream[1], 1 + 1, Len(stream[1]))
  BY <1>1 DEF Takes, S!In, S!Out
<1>3. /\ DOMAIN mesg_len' = Parties /\ mesg_len'["client"] = mesg_len["client"]
      /\ mesg_len'["server"] = stream[1][1]
      /\ \A y \in Parties : y # "server" => mesg_len'[y] = mesg_len[y]
  BY <1>1 DEF Kinds
<1>4. PICK s \in Seq(Any) : s = stream[1]
  BY <1>1 DEF Kinds, S!Both
<1>5. server = "receive" /\ server \in Coming /\ Came = s
  BY <1>4 DEF At, server, Coming, Came
<1>6. s[1] = Len(name)
  <2>1. PICK l \in Nat : l = Len(s)
    OBVIOUS
  <2>2. l >= 1
    BY <1>4, <2>1
  <2>3. s[1] = Asked[1]
    BY <1>1, <1>5, <2>1, <2>2, CameIs
  <2>4. Asked = <<Len(name)>> \o name
    BY DEF Asked
  <2>5. name \in Seq(Any)
    BY <1>1, NameIs
  <2>6. (<<Len(name)>> \o name)[1] = Len(name)
    BY <2>5, Prepend
  <2>. QED
    BY <2>3, <2>4, <2>6
<1>7. CASE s[1] = 0
  <2>1. name = <<>>
    <3>1. Len(name) = 0
      BY <1>6, <1>7
    <3>2. name \in {Name, <<>>}
      BY <1>1 DEF Kinds
    <3>3. Len(Name) > 0
      BY Texts
    <3>4. Len(Name) # 0
      BY <3>3
    <3>. QED
      BY <3>1, <3>2, <3>4
  <2>2. Excused
    BY <2>1 DEF Excused, Answerable
  <2>3. At("server", "receive", "error")
    BY <1>4, <1>7
  <2>4. buff' \in [Parties -> Seq(Any)] /\ \A y \in Parties : y # "server" => buff'[y] = buff[y]
    BY <1>1 DEF Kinds
  <2>5. stream'[S!Out("server")] = stream[S!Out("server")]
    BY <1>2 DEF S!Out, S!In
  <2>. QED
    BY <1>1, <1>2, <1>3, <2>2, <2>3, <2>4, <2>5, ReadFails
<1>8. CASE s[1] # 0
  <2>1. At("server", "receive", "data")
    BY <1>4, <1>8
  <2>2. server' = "data"
    BY <1>1, <2>1 DEF At, server, Kinds
  <2>3. Came' = Came
    <3>1. Came' = <<s[1]>> \o SubSeq(s, 2, Len(s))
      BY <1>2, <1>3, <1>4, <2>2 DEF Came
    <3>2. s # <<>>
      BY <1>4
    <3>. QED
      BY <1>5, <3>1, <3>2, HeadBack
  <2>. QED
    BY <1>2, <1>3, <1>4, <1>8, <2>1, <2>3, ServerWaits
<1>. QED
  BY <1>7, <1>8

\* A header is cut only if write may split the frame.
LEMMA CutSplits ==
  ASSUME TransferIInv, Streaming, S!Header, NEW x \in Parties, at[x] = "receive", CutHeader(x)
  PROVE  MaySplit
<1>1. Kinds /\ OnStream /\ Framed
  BY DEF TransferIInv, Carried
<1>2. PICK s \in Seq(Any) : s = stream[S!In(x)]
  BY <1>1 DEF Kinds, S!In, S!Both
<1>3. Len(s) = 1 /\ s # <<>> /\ PIPE_BUF < 1 + s[1]
  BY <1>2 DEF CutHeader
<1>4. PIPE_BUF \in Nat /\ MAXBUFF \in Nat
  <2>1. PIPE_BUF \in PIPE_BUFs
    BY <1>1 DEF Kinds
  <2>. QED
    BY <2>1, KernelAssumption, Texts
<1>5. s[1] \in 0 .. MAXBUFF
  <2>1. CASE x = "client"
    <3>1. client = "receive" /\ client \in Reading /\ Whole = s
      BY <1>2, <2>1 DEF client, Reading, Whole, S!In
    <3>2. PICK mark \in Marks(Reply, Len(s)) : Holds(s, mark)
      BY <1>1, <3>1, FramedHolds
    <3>3. 1 \in DOMAIN mark
      BY <1>3, <3>2 DEF Holds, First
    <3>. QED
      BY <3>2, <3>3 DEF Holds, Frames
  <2>2. CASE x = "server"
    <3>1. server \in Coming /\ Came = s
      BY <1>2, <2>2 DEF server, Coming, Came, S!In
    <3>2. s[1] = Asked[1]
      BY <1>1, <1>3, <3>1, CameIs
    <3>3. name \in Seq(Any) /\ name \in {Name, <<>>}
      BY <1>1, NameIs DEF Kinds
    <3>4. PICK a \in Nat : a = Len(name)
      BY <3>3
    <3>5. Asked = <<a>> \o name
      BY <3>4 DEF Asked
    <3>6. Asked[1] = a
      BY <3>3, <3>5, Prepend
    <3>7. a =< MAXBUFF
      <4>1. CASE name = Name
        BY <3>4, <4>1, Texts
      <4>2. CASE name = <<>>
        BY <3>4, <4>2, Texts
      <4>. QED
        BY <3>3, <4>1, <4>2
    <3>. QED
      BY <1>4, <3>2, <3>4, <3>6, <3>7
  <2>. QED
    BY <2>1, <2>2 DEF Parties
<1>6. PIPE_BUF < MAXBUFF + 1
  BY <1>3, <1>4, <1>5
<1>. QED
  BY <1>6 DEF MaySplit, S!Header

\* The read of the header fails.
LEMMA CutKeeps ==
  ASSUME TransferIInv, Streaming, Beside, S!Header, buff' = buff, NEW x \in Parties,
         CutHeader(x), Takes(x, 1), At(x, "receive", "error"), mesg_len' = mesg_len
  PROVE  TransferIInv'
<1>1. Kinds
  BY DEF TransferIInv
<1>2. Excused
  <2>1. at[x] = "receive"
    BY DEF At
  <2>. QED
    BY <2>1, CutSplits DEF Excused
<1>3. /\ stream' \in [S!Both -> Seq(Any)] /\ stream'[S!Out(x)] = stream[S!Out(x)]
      /\ buff' \in [Parties -> Seq(Any)] /\ \A y \in Parties : y # x => buff'[y] = buff[y]
      /\ DOMAIN mesg_len' = Parties /\ \A y \in Parties : y # x => mesg_len'[y] = mesg_len[y]
  BY <1>1 DEF Takes, Kinds
<1>. QED
  BY <1>2, <1>3, ReadFails

LEMMA ReadHeaderKeeps ==
  ASSUME TransferIInv, Streaming, NEW x \in Parties, S!ReadHeader(x), UNCHANGED queues
  PROVE  TransferIInv'
<1>1. Kinds
  BY DEF TransferIInv
<1>2. S!Header /\ Beside /\ buff' = buff
  BY <1>1, ReadHeaderIs
<1>3. CASE S!AtEnd(x) /\ At(x, "receive", Ended(x)) /\ Still
  BY <1>2, <1>3, BesideSame, ReadEnds
<1>4. CASE /\ stream[S!In(x)] # <<>> /\ Takes(x, 1)
           /\ At(x, "receive", IF stream[S!In(x)][1] = 0 THEN Ended(x) ELSE "data")
           /\ mesg_len' = [mesg_len EXCEPT ![x] = stream[S!In(x)][1]]
  <2>1. CASE x = "client"
    <3>1. /\ stream[2] # <<>> /\ Takes("client", 1)
          /\ At("client", "receive", IF stream[2][1] = 0 THEN "wait" ELSE "data")
          /\ mesg_len' = [mesg_len EXCEPT !["client"] = stream[2][1]]
      BY <1>4, <2>1 DEF S!In, Ended
    <3>. QED
      BY <1>2, <3>1, ClientHeader
  <2>2. CASE x = "server"
    <3>1. /\ stream[1] # <<>> /\ Takes("server", 1)
          /\ At("server", "receive", IF stream[1][1] = 0 THEN "error" ELSE "data")
          /\ mesg_len' = [mesg_len EXCEPT !["server"] = stream[1][1]]
      BY <1>4, <2>2 DEF S!In, Ended
    <3>. QED
      BY <1>2, <3>1, ServerHeader
  <2>. QED
    BY <2>1, <2>2 DEF Parties
<1>5. CASE CutHeader(x) /\ Takes(x, 1) /\ At(x, "receive", "error") /\ mesg_len' = mesg_len
  BY <1>2, <1>5, CutKeeps
<1>. QED
  BY <1>1, <1>3, <1>4, <1>5, ReadHeaderIs

LEMMA ReadDataIs ==
  ASSUME Kinds, Streaming, NEW x \in Parties, S!ReadData(x), UNCHANGED queues,
         NEW m \in Nat, m = mesg_len[x]
  PROVE  /\ S!Header /\ Beside /\ mesg_len' = mesg_len
         /\ \E l \in Nat, n \in Nat :
              /\ l = Len(stream[S!In(x)]) /\ n =< l /\ Takes(x, n) /\ Fills(x, n)
              /\ \/ n = m /\ At(x, "data", Got(x))
                 \/ n < m /\ n = l /\ At(x, "data", "error")
<1>1. S!Header
  <2>1. at[x] = "data"
    BY DEF S!ReadData
  <2>. QED
    BY <2>1 DEF Kinds
<1>2. mesg_len' = mesg_len /\ Beside
  BY DEF S!ReadData, Beside, queues
<1>3. stream[S!In(x)] \in Seq(Any)
  BY DEF Kinds, S!In, S!Both
<1>4. PICK l \in Nat : l = Len(stream[S!In(x)])
  BY <1>3
<1>5. PICK n \in Nat : n = Smaller(m, l)
  BY <1>4 DEF Smaller
<1>6. n =< l /\ (n = m \/ (n < m /\ n = l))
  BY <1>4, <1>5 DEF Smaller
<1>7. /\ S!ReadInto(x, n)
      /\ At(x, "data", IF n = m THEN Got(x) ELSE "error")
  BY <1>4, <1>5, SameReads, SameSteps DEF S!ReadData
<1>8. Takes(x, n) /\ Fills(x, n)
  BY <1>4, <1>6, <1>7, ReadIntoIs
<1>9. \/ n = m /\ At(x, "data", Got(x))
      \/ n < m /\ n = l /\ At(x, "data", "error")
  BY <1>6, <1>7
<1>. QED
  BY <1>1, <1>2, <1>4, <1>6, <1>8, <1>9

LEMMA TailBack ==
  ASSUME NEW s \in Seq(Any), NEW m \in Nat, NEW n \in Nat, n =< Len(s),
         NEW V \in Seq(Any), V = <<m>> \o s
  PROVE  SubSeq(s, n + 1, Len(s)) = SubSeq(V, (n + 1) + 1, Len(V))
<1>1. PICK l \in Nat : l = Len(s)
  OBVIOUS
<1>2. Len(V) = l + 1 /\ \A j \in 1 .. l : V[1 + j] = s[j]
  BY <1>1, Prepend
<1>3. n + 1 \in Nat /\ l + 1 \in Nat /\ n + 1 =< l + 1 /\ l + 1 =< Len(V) /\ n =< l /\ l =< Len(s)
  BY <1>1, <1>2
<1>4. PICK a \in Nat, b \in Nat : a = n + 1 /\ b = l + 1
  BY <1>3
<1>5. a =< b /\ b =< Len(V)
  BY <1>3, <1>4
<1>6. /\ SubSeq(V, a + 1, b) \in Seq(Any) /\ Len(SubSeq(V, a + 1, b)) = b - a
      /\ \A j \in 1 .. b - a : SubSeq(V, a + 1, b)[j] = V[a + j]
  BY <1>5, Slice
<1>7. /\ SubSeq(s, n + 1, l) \in Seq(Any) /\ Len(SubSeq(s, n + 1, l)) = l - n
      /\ \A j \in 1 .. l - n : SubSeq(s, n + 1, l)[j] = s[n + j]
  BY <1>3, Slice
<1>8. PICK t \in Seq(Any) : t = SubSeq(V, a + 1, b)
  BY <1>6
<1>9. PICK u \in Seq(Any) : u = SubSeq(s, n + 1, l)
  BY <1>7
<1>10. b - a = l - n
  BY <1>4
<1>11. Len(t) = l - n /\ Len(u) = l - n
  BY <1>6, <1>7, <1>8, <1>9, <1>10
<1>12. \A j \in 1 .. l - n : t[j] = u[j]
  <2>1. ASSUME NEW j \in 1 .. l - n PROVE t[j] = u[j]
    <3>1. n + j \in 1 .. l /\ 1 + (n + j) = a + j
      BY <1>1, <1>3, <1>4, <2>1
    <3>2. V[a + j] = s[n + j]
      BY <1>2, <3>1
    <3>3. t[j] = V[a + j]
      BY <1>6, <1>8, <1>10, <2>1
    <3>4. u[j] = s[n + j]
      BY <1>7, <1>9, <2>1
    <3>. QED
      BY <3>2, <3>3, <3>4
  <2>. QED
    BY <2>1
<1>13. t = u
  BY <1>11, <1>12, SeqEqual
<1>. QED
  BY <1>1, <1>2, <1>4, <1>8, <1>9, <1>13

\* The server cannot have written more than it sends.
LEMMA SentNumbers ==
  ASSUME Kinds, Served, Splits, Streaming, server \notin Lost
  PROVE  written["server"] \in Nat /\ Sent \in Nat /\ Len(Text) \in Nat
         /\ written["server"] =< Len(Text)
<1>1. Len(Text) \in Nat /\ offset \in Nat /\ Total \in Nat /\ (server \in Sends => Sent \in Nat)
  BY Numbers
<1>2. written["server"] \in Nat
  BY DEF Kinds, Parties
<1>3. Sent \in Nat
  BY <1>1 DEF Sent, Sends
<1>4. CASE server \in Sends
  BY <1>1, <1>2, <1>3, <1>4 DEF Splits
<1>5. CASE server \notin Sends
  <2>1. written["server"] = 0
    BY <1>5 DEF Splits
  <2>. QED
    BY <1>1, <1>3, <2>1
<1>. QED
  BY <1>4, <1>5

LEMMA FirstFrame ==
  ASSUME Kinds, Framed, Streaming, S!Header, client = "data", NEW s \in Seq(Any), s = stream[2],
         NEW m, m = mesg_len["client"]
  PROVE  /\ m \in Nat /\ m # 0 /\ Whole = <<m>> \o s /\ Whole \in Seq(Any) /\ Whole[1] = m
         /\ Len(Whole) = Len(s) + 1 /\ \A j \in 1 .. Len(s) : Whole[1 + j] = s[j]
         /\ \E mark \in Marks(Reply, Len(Whole)) :
              Holds(Whole, mark) /\ Whole # <<>> /\ 1 \in DOMAIN mark
<1>1. client \in Reading
  BY DEF Reading
<1>2. m \in Nat /\ Whole \in Seq(Any)
  BY <1>1, WholeIs
<1>3. m # 0
  BY <1>1 DEF Framed
<1>4. Whole = <<m>> \o s
  BY DEF Whole
<1>5. /\ Len(Whole) = Len(s) + 1 /\ Whole[1] = m
      /\ \A j \in 1 .. Len(s) : Whole[1 + j] = s[j]
  BY <1>4, Prepend
<1>6. PICK mark \in Marks(Reply, Len(Whole)) : Holds(Whole, mark)
  BY <1>1, FramedHolds
<1>7. Len(s) + 1 > 0
  OBVIOUS
<1>8. Whole # <<>>
  BY <1>5, <1>7
<1>9. 1 \in DOMAIN mark
  BY <1>6, <1>8 DEF Holds, First
<1>. QED
  BY <1>2, <1>3, <1>4, <1>5, <1>6, <1>8, <1>9

LEMMA FrameOff ==
  ASSUME NEW r \in Seq(Any), NEW s \in Seq(Any), NEW m \in Nat, m =< Len(s),
         NEW V \in Seq(Any), V = <<m>> \o s, NEW mark \in Marks(r, Len(V)),
         Frames(r, V, mark), NEW taken \in Nat, First(V, mark, taken),
         NEW W \in Seq(Any), W = SubSeq(s, m + 1, Len(s))
  PROVE  Behind(r, V, mark, W, taken, m)
<1>1. PICK l \in Nat : l = Len(s)
  OBVIOUS
<1>2. PICK n \in Nat : n = m + 1
  OBVIOUS
<1>3. n >= 1 /\ n - 1 = m /\ n =< l + 1
  BY <1>1, <1>2
<1>4. Len(V) = l + 1 /\ V[1] = m
  BY <1>1, Prepend
<1>5. V[1] = n - 1 /\ n =< Len(V) /\ V # <<>>
  BY <1>3, <1>4
<1>6. SubSeq(s, m + 1, Len(s)) = SubSeq(V, (m + 1) + 1, Len(V))
  BY TailBack
<1>7. W = SubSeq(V, n + 1, Len(V))
  BY <1>2, <1>6
<1>8. Behind(r, V, mark, W, taken, n - 1)
  BY <1>3, <1>5, <1>7, FrameTaken
<1>. QED
  BY <1>3, <1>8, Zenon

\* The frame is taken off what the client has before it.
LEMMA FrameRead ==
  ASSUME Kinds, Served, Splits, Framed, Streaming, S!Header, client = "data",
         NEW s \in Seq(Any), s = stream[2], NEW m \in Nat, m = mesg_len["client"],
         m =< Len(s), NEW taken \in Nat, taken = Taken,
         NEW W \in Seq(Any), W = SubSeq(s, m + 1, Len(s))
  PROVE  /\ Part(Reply, SubSeq(s, 1, m), taken)
         /\ \E moved \in Marks(Reply, Len(W)) :
              /\ Frames(Reply, W, moved) /\ First(W, moved, taken + m)
              /\ server \notin Lost =>
                   LastFrame(W, moved, written["server"], taken + m, Sent, Len(Text))
              /\ server \notin Ending => \A k \in DOMAIN moved : W[k] # 0
              /\ MAXBUFF + 1 =< PIPE_BUF => \A k \in DOMAIN moved : k + W[k] =< Len(W)
<1>1. /\ Whole = <<m>> \o s /\ Whole \in Seq(Any) /\ Whole[1] = m
      /\ Len(Whole) = Len(s) + 1 /\ \A j \in 1 .. Len(s) : Whole[1 + j] = s[j]
      /\ \E mark \in Marks(Reply, Len(Whole)) :
           Holds(Whole, mark) /\ Whole # <<>> /\ 1 \in DOMAIN mark
  BY FirstFrame
<1>2. PICK mark \in Marks(Reply, Len(Whole)) : Holds(Whole, mark) /\ Whole # <<>>
  BY <1>1
<1>3. PICK V \in Seq(Any) : V = Whole
  BY <1>1
<1>4. PICK l \in Nat : l = Len(s)
  OBVIOUS
<1>5. /\ mark \in Marks(Reply, Len(V)) /\ Frames(Reply, V, mark) /\ First(V, mark, taken)
      /\ V = <<m>> \o s
  BY <1>1, <1>2, <1>3 DEF Holds
<1>6. Reply \in Seq(Any)
  BY ReplyIs
<1>7. Behind(Reply, V, mark, W, taken, m)
  BY <1>5, <1>6, FrameOff
<1>8. Part(Reply, SubSeq(s, 1, m), taken)
  <2>1. /\ SubSeq(s, 1, m) \in Seq(Any) /\ Len(SubSeq(s, 1, m)) = m
        /\ \A j \in 1 .. m : SubSeq(s, 1, m)[j] = s[j]
    BY Beginning
  <2>2. \A j \in 1 .. m : s[j] = Reply[taken + j]
    <3>1. \A j \in 1 .. m : j \in 1 .. l
      BY <1>4
    <3>. QED
      BY <1>1, <1>3, <1>4, <1>7, <3>1 DEF Behind
  <2>. QED
    BY <1>7, <2>1, <2>2 DEF Part, Behind
<1>9. PICK moved \in Marks(Reply, Len(W)) :
           /\ Frames(Reply, W, moved) /\ First(W, moved, taken + m)
           /\ \A w \in Nat, sent \in Nat, len \in Nat :
                LastFrame(V, mark, w, taken, sent, len) /\ w =< len
                  => LastFrame(W, moved, w, taken + m, sent, len)
           /\ (\A k \in DOMAIN mark : V[k] # 0) => \A k \in DOMAIN moved : W[k] # 0
           /\ (\A k \in DOMAIN mark : k + V[k] =< Len(V)) =>
                \A k \in DOMAIN moved : k + W[k] =< Len(W)
  BY <1>7, Zenon DEF Behind
<1>10. ASSUME server \notin Lost
       PROVE  LastFrame(W, moved, written["server"], taken + m, Sent, Len(Text))
  <2>1. /\ written["server"] \in Nat /\ Sent \in Nat /\ Len(Text) \in Nat
        /\ written["server"] =< Len(Text)
    BY <1>10, SentNumbers
  <2>2. LastFrame(V, mark, written["server"], taken, Sent, Len(Text))
    BY <1>2, <1>3, <1>10 DEF Holds
  <2>. QED
    BY <1>9, <2>1, <2>2, Zenon
<1>11. server \notin Ending => \A k \in DOMAIN moved : W[k] # 0
  BY <1>2, <1>3, <1>9, Zenon DEF Holds
<1>12. MAXBUFF + 1 =< PIPE_BUF => \A k \in DOMAIN moved : k + W[k] =< Len(W)
  BY <1>2, <1>3, <1>9, Zenon DEF Holds
<1>. QED
  BY <1>8, <1>9, <1>10, <1>11, <1>12, Zenon

\* A short read is that of a frame that write has split.
LEMMA ShortFrame ==
  ASSUME Kinds, Framed, Streaming, S!Header, client = "data", NEW s \in Seq(Any), s = stream[2],
         NEW m \in Nat, m = mesg_len["client"], Len(s) < m
  PROVE  MaySplit
<1>1. PICK mark \in Marks(Reply, Len(Whole)) : Holds(Whole, mark) /\ 1 \in DOMAIN mark
  BY FirstFrame
<1>2. Whole[1] = m /\ Len(Whole) = Len(s) + 1
  BY FirstFrame
<1>3. PICK l \in Nat : l = Len(s)
  OBVIOUS
<1>4. ~(1 + Whole[1] =< Len(Whole))
  <2>1. ~(1 + m =< l + 1)
    BY <1>3
  <2>. QED
    BY <1>2, <1>3, <2>1
<1>5. ~(MAXBUFF + 1 =< PIPE_BUF)
  BY <1>1, <1>4 DEF Holds
<1>6. PIPE_BUF \in PIPE_BUFs
  BY DEF Kinds
<1>7. PIPE_BUF \in Nat /\ MAXBUFF \in Nat
  BY <1>6, KernelAssumption, Texts
<1>. QED
  BY <1>5, <1>7 DEF MaySplit, S!Header

LEMMA ClientData ==
  ASSUME TransferIInv, Streaming, Beside, S!Header, mesg_len' = mesg_len,
         At("client", "data", "print"), NEW m \in Nat, m = mesg_len["client"],
         m =< Len(stream[2]), Takes("client", m), Fills("client", m)
  PROVE  TransferIInv'
<1>1. Kinds /\ Served /\ Correct /\ Plain /\ Splits /\ Framed
      /\ "client" \in Parties /\ "server" \in Parties /\ "server" # "client"
  BY DEF TransferIInv, Carried, Parties
<1>2. /\ stream' \in [S!Both -> Seq(Any)] /\ stream'[1] = stream[1]
      /\ buff' \in [Parties -> Seq(Any)] /\ buff'["server"] = buff["server"]
      /\ stream'[2] = SubSeq(stream[2], m + 1, Len(stream[2]))
      /\ buff'["client"] = SubSeq(stream[2], 1, m)
  BY <1>1 DEF Takes, Fills, S!In, S!Out
<1>3. DOMAIN mesg_len' = Parties /\ mesg_len'["server"] = mesg_len["server"]
  BY <1>1 DEF Kinds
<1>4. /\ Fixed /\ client = "data" /\ client' = "print" /\ server' = server
      /\ Kinds' /\ Opened' /\ Present' /\ Justified' /\ OnStream' /\ NameSent'
      /\ Served' /\ Splits' /\ Sent' = Sent /\ Text' = Text
  BY <1>2, <1>3, ClientTurn
<1>5. PICK s \in Seq(Any) : s = stream[2]
  BY <1>1 DEF Kinds, S!Both
<1>6. PICK W \in Seq(Any) : W = stream'[2]
  BY <1>2 DEF S!Both
<1>7. W = SubSeq(s, m + 1, Len(s)) /\ m =< Len(s)
  BY <1>2, <1>5, <1>6
<1>8. PICK p \in Nat : p = Len(printed) /\ p = Taken
  BY <1>1, <1>4 DEF Taken, Kinds
<1>9. /\ Part(Reply, SubSeq(s, 1, m), p)
      /\ \E moved \in Marks(Reply, Len(W)) :
           /\ Frames(Reply, W, moved) /\ First(W, moved, p + m)
           /\ server \notin Lost => LastFrame(W, moved, written["server"], p + m, Sent, Len(Text))
           /\ server \notin Ending => \A k \in DOMAIN moved : W[k] # 0
           /\ MAXBUFF + 1 =< PIPE_BUF => \A k \in DOMAIN moved : k + W[k] =< Len(W)
  BY <1>1, <1>4, <1>5, <1>7, <1>8, FrameRead, ZenonT(60)
<1>10. Taken' = p + m
  <2>1. Taken' = Len(printed') + Len(buff'["client"])
    BY <1>4 DEF Taken
  <2>2. Len(SubSeq(s, 1, m)) = m
    BY <1>7, Beginning
  <2>3. Len(buff'["client"]) = m /\ Len(printed') = p
    BY <1>2, <1>5, <1>8, <2>2, BesideSame
  <2>. QED
    BY <2>1, <2>3
<1>11. Correct'
  BY <1>1, <1>2, <1>4, <1>5, <1>8, <1>9, BesideSame, FixedSame DEF Correct
<1>12. Plain'
  BY <1>4, FixedSame DEF Plain
<1>13. Framed'
  <2>1. Whole' = W /\ client' # "data"
    BY <1>4, <1>6 DEF Whole
  <2>2. PICK moved \in Marks(Reply, Len(W)) :
           /\ Frames(Reply, W, moved) /\ First(W, moved, p + m)
           /\ server \notin Lost => LastFrame(W, moved, written["server"], p + m, Sent, Len(Text))
           /\ server \notin Ending => \A k \in DOMAIN moved : W[k] # 0
           /\ MAXBUFF + 1 =< PIPE_BUF => \A k \in DOMAIN moved : k + W[k] =< Len(W)
    BY <1>9
  <2>3. /\ Frames(Reply', Whole', moved) /\ First(Whole', moved, Taken')
        /\ server' \notin Lost =>
             LastFrame(Whole', moved, written'["server"], Taken', Sent', Len(Text'))
        /\ server' \notin Ending => \A k \in DOMAIN moved : Whole'[k] # 0
        /\ MAXBUFF + 1 =< PIPE_BUF' => \A k \in DOMAIN moved : k + Whole'[k] =< Len(Whole')
        /\ moved \in Marks(Reply', Len(Whole'))
    BY <1>4, <1>10, <2>1, <2>2, BesideSame, FixedSame
  <2>. QED
    BY <2>1, <2>3 DEF Framed
<1>. QED
  BY <1>4, <1>11, <1>12, <1>13, StreamAll

LEMMA ServerName ==
  ASSUME Kinds, OnStream, Streaming, S!Header, server = "data",
         NEW s \in Seq(Any), s = stream[1]
  PROVE  /\ mesg_len["server"] = Len(name) /\ Len(name) \in Nat
         /\ Len(s) =< Len(name) /\ \A j \in 1 .. Len(s) : s[j] = name[j]
         /\ Len(s) = Len(name) => client \in Late \cup Lost
         /\ Len(s) < Len(name) => MaySplit
         /\ name # <<>>
<1>1. server \in Coming
  BY DEF Coming
<1>2. PICK m : m = mesg_len["server"]
  OBVIOUS
<1>3. Came = <<m>> \o s
  BY <1>2 DEF Came
<1>4. PICK l \in Nat : l = Len(s)
  OBVIOUS
<1>5. Len(Came) = l + 1 /\ Came[1] = m /\ \A j \in 1 .. l : Came[1 + j] = s[j]
  BY <1>3, <1>4, Prepend
<1>6. name \in Seq(Any) /\ name \in {Name, <<>>}
  BY NameIs DEF Kinds
<1>7. PICK a \in Nat : a = Len(name)
  BY <1>6
<1>8. Asked = <<a>> \o name
  BY <1>7 DEF Asked
<1>9. Len(Asked) = a + 1 /\ Asked[1] = a /\ \A j \in 1 .. a : Asked[1 + j] = name[j]
  BY <1>6, <1>7, <1>8, Prepend
<1>10. /\ Len(Came) =< Len(Asked) /\ \A j \in 1 .. Len(Came) : Came[j] = Asked[j]
       /\ Len(Asked) =< PIPE_BUF => Came = <<>> \/ Len(Came) = Len(Asked)
       /\ mesg_len["server"] # 0
  BY <1>1, CameIs
<1>11. l =< a
  BY <1>4, <1>5, <1>7, <1>9, <1>10
<1>12. m = a
  BY <1>4, <1>5, <1>9, <1>10
<1>13. \A j \in 1 .. l : s[j] = name[j]
  <2>1. ASSUME NEW j \in 1 .. l PROVE s[j] = name[j]
    <3>1. 1 + j \in 1 .. l + 1 /\ j \in 1 .. a
      BY <1>4, <1>7, <1>11, <2>1
    <3>2. Came[1 + j] = Asked[1 + j]
      BY <1>5, <1>10, <3>1
    <3>. QED
      BY <1>5, <1>9, <2>1, <3>1, <3>2
  <2>. QED
    BY <2>1
<1>14. Len(Came) # 0
  BY <1>4, <1>5
<1>15. Came # <<>>
  BY <1>14
<1>16. l = a => client \in Late \cup Lost
  BY <1>1, <1>5, <1>9, <1>15, NameCame
<1>17. l < a => MaySplit
  <2>1. ASSUME l < a PROVE MaySplit
    <3>1. ~(l + 1 = a + 1)
      BY <1>4, <1>7, <2>1
    <3>2. ~(a + 1 =< PIPE_BUF)
      BY <1>5, <1>9, <1>10, <1>15, <3>1
    <3>3. PIPE_BUF \in PIPE_BUFs
      BY DEF Kinds
    <3>4. PIPE_BUF \in Nat
      BY <3>3, KernelAssumption
    <3>5. a =< MAXBUFF /\ MAXBUFF \in Nat
      <4>1. CASE name = Name
        BY <1>7, <4>1, Texts
      <4>2. CASE name = <<>>
        BY <1>7, <4>2, Texts
      <4>. QED
        BY <1>6, <4>1, <4>2
    <3>6. PIPE_BUF < MAXBUFF + 1
      BY <1>7, <3>2, <3>4, <3>5
    <3>. QED
      BY <3>6 DEF MaySplit, S!Header
  <2>. QED
    BY <2>1
<1>18. name # <<>>
  BY <1>2, <1>7, <1>10, <1>12
<1>. QED
  BY <1>2, <1>4, <1>7, <1>11, <1>12, <1>13, <1>16, <1>17, <1>18

LEMMA ServerData ==
  ASSUME TransferIInv, Streaming, Beside, S!Header, mesg_len' = mesg_len,
         At("server", "data", "open"), NEW m \in Nat, m = mesg_len["server"],
         m =< Len(stream[1]), Takes("server", m), Fills("server", m)
  PROVE  TransferIInv'
<1>1. Kinds /\ OnStream /\ server = "data"
  BY DEF TransferIInv, At, server
<1>2. PICK s \in Seq(Any) : s = stream[1]
  BY <1>1 DEF Kinds, S!Both
<1>3. PICK a \in Nat : a = Len(name) /\ a = m
  BY <1>1, <1>2, ServerName
<1>4. PICK l \in Nat : l = Len(s)
  OBVIOUS
<1>5. /\ l =< a /\ \A j \in 1 .. l : s[j] = name[j] /\ name # <<>>
      /\ l = a => client \in Late \cup Lost
  BY <1>1, <1>2, <1>3, <1>4, ServerName
<1>6. l = a
  BY <1>2, <1>3, <1>4, <1>5
<1>7. name \in Seq(Any) /\ name # <<>>
  BY <1>1, <1>2, NameIs, ServerName
<1>8. SubSeq(s, 1, a) = name
  <2>1. a =< Len(s)
    BY <1>4, <1>6
  <2>2. /\ SubSeq(s, 1, a) \in Seq(Any) /\ Len(SubSeq(s, 1, a)) = a
        /\ \A j \in 1 .. a : SubSeq(s, 1, a)[j] = s[j]
    BY <1>2, <1>3, <2>1, Beginning
  <2>3. \A j \in 1 .. a : s[j] = name[j]
    BY <1>5, <1>6
  <2>. QED
    BY <1>3, <1>7, <2>2, <2>3, SeqEqual
<1>9. buff'["server"] = name
  BY <1>2, <1>3, <1>8 DEF Fills, S!In
<1>10. Fills("server", Len(name))
  BY <1>3
<1>11. stream' \in [S!Both -> Seq(Any)] /\ stream'[2] = stream[2]
  BY DEF Takes, S!Out, S!In
<1>. QED
  BY <1>5, <1>6, <1>7, <1>9, <1>10, <1>11, ServerGot

\* The read of the text falls short.
LEMMA DataShort ==
  ASSUME TransferIInv, Streaming, Beside, S!Header, mesg_len' = mesg_len,
         NEW x \in Parties, At(x, "data", "error"), MaySplit,
         NEW n \in Nat, Takes(x, n), Fills(x, n)
  PROVE  TransferIInv'
<1>1. Kinds
  BY DEF TransferIInv
<1>2. Excused
  BY DEF Excused
<1>3. /\ stream' \in [S!Both -> Seq(Any)] /\ stream'[S!Out(x)] = stream[S!Out(x)]
      /\ buff' \in [Parties -> Seq(Any)] /\ \A y \in Parties : y # x => buff'[y] = buff[y]
      /\ DOMAIN mesg_len' = Parties /\ \A y \in Parties : y # x => mesg_len'[y] = mesg_len[y]
  BY <1>1 DEF Takes, Fills, Kinds
<1>. QED
  BY <1>2, <1>3, ReadFails

LEMMA ReadDataKeeps ==
  ASSUME TransferIInv, Streaming, NEW x \in Parties, S!ReadData(x), UNCHANGED queues
  PROVE  TransferIInv'
<1>1. Kinds /\ OnStream /\ Framed
  BY DEF TransferIInv, Carried
<1>2. at[x] = "data"
  BY DEF S!ReadData
<1>3. S!Header
  BY <1>1, <1>2 DEF Kinds
<1>4. CASE x = "client"
  <2>1. client = "data"
    BY <1>2, <1>4 DEF client
  <2>2. PICK s \in Seq(Any) : s = stream[2]
    BY <1>1 DEF Kinds, S!Both
  <2>3. PICK m \in Nat : m = mesg_len["client"]
    BY <1>1, <1>3, <2>1, <2>2, FirstFrame
  <2>4. Beside /\ mesg_len' = mesg_len
    BY <1>1, <1>4, <2>3, ReadDataIs
  <2>5. PICK l \in Nat, n \in Nat :
          /\ l = Len(stream[S!In(x)]) /\ n =< l /\ Takes(x, n) /\ Fills(x, n)
          /\ \/ n = m /\ At(x, "data", Got(x))
             \/ n < m /\ n = l /\ At(x, "data", "error")
    BY <1>1, <1>4, <2>3, ReadDataIs
  <2>6. l = Len(s) /\ l = Len(stream[2])
    BY <1>4, <2>2, <2>5 DEF S!In
  <2>7. CASE n = m /\ At(x, "data", Got(x))
    <3>1. /\ At("client", "data", "print") /\ m =< Len(stream[2])
          /\ Takes("client", m) /\ Fills("client", m)
      BY <1>4, <2>5, <2>6, <2>7 DEF Got
    <3>. QED
      BY <1>3, <2>3, <2>4, <3>1, ClientData
  <2>8. CASE n < m /\ n = l /\ At(x, "data", "error")
    <3>1. Len(s) < m
      BY <2>6, <2>8
    <3>2. MaySplit
      BY <1>1, <1>3, <2>1, <2>2, <2>3, <3>1, ShortFrame
    <3>. QED
      BY <1>3, <2>4, <2>5, <2>8, <3>2, DataShort
  <2>. QED
    BY <2>5, <2>7, <2>8
<1>5. CASE x = "server"
  <2>1. server = "data"
    BY <1>2, <1>5 DEF server
  <2>2. PICK s \in Seq(Any) : s = stream[1]
    BY <1>1 DEF Kinds, S!Both
  <2>3. PICK m \in Nat : m = mesg_len["server"] /\ m = Len(name)
    BY <1>1, <1>3, <2>1, <2>2, ServerName
  <2>4. Beside /\ mesg_len' = mesg_len
    BY <1>1, <1>5, <2>3, ReadDataIs
  <2>5. PICK l \in Nat, n \in Nat :
          /\ l = Len(stream[S!In(x)]) /\ n =< l /\ Takes(x, n) /\ Fills(x, n)
          /\ \/ n = m /\ At(x, "data", Got(x))
             \/ n < m /\ n = l /\ At(x, "data", "error")
    BY <1>1, <1>5, <2>3, ReadDataIs
  <2>6. l = Len(s) /\ l = Len(stream[1])
    BY <1>5, <2>2, <2>5 DEF S!In
  <2>7. CASE n = m /\ At(x, "data", Got(x))
    <3>1. /\ At("server", "data", "open") /\ m =< Len(stream[1])
          /\ Takes("server", m) /\ Fills("server", m)
      BY <1>5, <2>5, <2>6, <2>7 DEF Got
    <3>. QED
      BY <1>3, <2>3, <2>4, <3>1, ServerData
  <2>8. CASE n < m /\ n = l /\ At(x, "data", "error")
    <3>1. Len(s) < Len(name)
      BY <2>3, <2>6, <2>8
    <3>2. MaySplit
      BY <1>1, <1>3, <2>1, <2>2, <3>1, ServerName
    <3>. QED
      BY <1>3, <2>4, <2>5, <2>8, <3>2, DataShort
  <2>. QED
    BY <2>5, <2>7, <2>8
<1>. QED
  BY <1>4, <1>5 DEF Parties

Mesgs == [mesg_type : {1, 2}, text : Seq(Any)]

\* The messages follow each other, up to the unit sent.
Followed(r, msgs, taken, sent) ==
  \E mark \in [1 .. Len(msgs) + 1 -> 0 .. Len(r)] :
    Follow(r, msgs, mark, taken) /\ mark[Len(msgs) + 1] = sent

\* A message is put behind the others, or the first is taken off.
LEMMA FollowGrows ==
  ASSUME NEW r \in Seq(Any), NEW msgs \in Seq(Mesgs), NEW msg \in Mesgs,
         NEW taken \in Nat, NEW sent \in Nat, NEW mark, Follow(r, msgs, mark, taken),
         mark[Len(msgs) + 1] = sent, Part(r, msg.text, sent), NEW L \in Nat, L = Len(msg.text)
  PROVE  Followed(r, Append(msgs, msg), taken, sent + L)
<1>1. PICK l \in Nat : l = Len(msgs)
  OBVIOUS
<1>2. /\ Append(msgs, msg) \in Seq(Mesgs) /\ Len(Append(msgs, msg)) = l + 1
      /\ \A k \in 1 .. l : Append(msgs, msg)[k] = msgs[k]
      /\ Append(msgs, msg)[l + 1] = msg
  BY <1>1, AppendProperties
<1>3. PICK new \in Seq(Mesgs) : new = Append(msgs, msg)
  BY <1>2
<1>4. /\ Len(new) = l + 1 /\ \A k \in 1 .. l : new[k] = msgs[k]
      /\ new[l + 1] = msg
  BY <1>2, <1>3
<1>5. PICK R \in Nat : R = Len(r)
  OBVIOUS
<1>6. /\ mark \in [1 .. l + 1 -> 0 .. R] /\ mark[1] = taken
      /\ \A k \in 1 .. l : /\ Part(r, msgs[k].text, mark[k])
                            /\ mark[k + 1] = mark[k] + Len(msgs[k].text)
  BY <1>1, <1>5 DEF Follow
<1>7. sent + L =< R
  BY <1>5 DEF Part
<1>8. DEFINE moved == [k \in 1 .. (l + 1) + 1 |-> IF k = l + 2 THEN sent + L ELSE mark[k]]
<1>9. moved \in [1 .. (l + 1) + 1 -> 0 .. R]
  <2>1. ASSUME NEW k \in 1 .. (l + 1) + 1, k # l + 2 PROVE mark[k] \in 0 .. R
    <3>1. k \in 1 .. l + 1
      BY <1>1, <2>1
    <3>. QED
      BY <1>6, <3>1
  <2>2. sent + L \in 0 .. R
    BY <1>5, <1>7
  <2>. QED
    BY <2>1, <2>2
<1>10. moved[l + 2] = sent + L /\ \A k \in 1 .. l + 1 : moved[k] = mark[k]
  <2>1. l + 2 \in 1 .. (l + 1) + 1
    BY <1>1
  <2>2. \A k \in 1 .. l + 1 : k \in 1 .. (l + 1) + 1 /\ k # l + 2
    BY <1>1
  <2>. QED
    BY <2>1, <2>2
<1>11. HIDE DEF moved
<1>12. moved[1] = taken
  BY <1>1, <1>6, <1>10
<1>13. ASSUME NEW k \in 1 .. l + 1
       PROVE  Part(r, new[k].text, moved[k]) /\ moved[k + 1] = moved[k] + Len(new[k].text)
  <2>1. CASE k = l + 1
    <3>1. new[k] = msg /\ moved[k] = sent /\ k + 1 = l + 2
      BY <1>1, <1>4, <1>10, <2>1
    <3>. QED
      BY <1>10, <3>1
  <2>2. CASE k # l + 1
    <3>1. k \in 1 .. l /\ k + 1 \in 1 .. l + 1
      BY <1>1, <1>13, <2>2
    <3>2. new[k] = msgs[k] /\ moved[k] = mark[k] /\ moved[k + 1] = mark[k + 1]
      BY <1>4, <1>10, <1>13, <3>1
    <3>. QED
      BY <1>6, <3>1, <3>2
  <2>. QED
    BY <2>1, <2>2
<1>14. Follow(r, new, moved, taken)
  BY <1>4, <1>5, <1>9, <1>12, <1>13 DEF Follow
<1>15. Len(new) + 1 = l + 2
  BY <1>1, <1>4
<1>16. moved[Len(new) + 1] = sent + L /\ moved \in [1 .. Len(new) + 1 -> 0 .. Len(r)]
  BY <1>4, <1>5, <1>9, <1>10, <1>15
<1>17. Followed(r, new, taken, sent + L)
  BY <1>14, <1>16, Zenon DEF Followed
<1>. QED
  BY <1>3, <1>17, Zenon

Behead(msgs, rest) ==
  \A k \in 1 .. Len(rest) : k + 1 \in 1 .. Len(msgs) /\ rest[k] = msgs[k + 1]

LEMMA FollowTaken ==
  ASSUME NEW r \in Seq(Any), NEW msgs \in Seq(Mesgs), msgs # <<>>, NEW mark, NEW taken \in Nat,
         Follow(r, msgs, mark, taken), NEW L \in Nat, L = Len(msgs[1].text),
         NEW rest \in Seq(Mesgs), rest = SubSeq(msgs, 2, Len(msgs)),
         NEW sent, sent = mark[Len(msgs) + 1]
  PROVE  /\ Part(r, msgs[1].text, taken) /\ Behead(msgs, rest)
         /\ Followed(r, rest, taken + L, sent)
<1>1. PICK l \in Nat : l = Len(msgs)
  OBVIOUS
<1>2. l >= 1
  BY <1>1
<1>3. Len(rest) = l - 1 /\ l - 1 \in Nat /\ \A k \in 1 .. l - 1 : rest[k] = msgs[k + 1]
  BY <1>1, <1>2
<1>4. PICK R \in Nat : R = Len(r)
  OBVIOUS
<1>5. /\ mark \in [1 .. l + 1 -> 0 .. R] /\ mark[1] = taken
      /\ \A k \in 1 .. l : /\ Part(r, msgs[k].text, mark[k])
                            /\ mark[k + 1] = mark[k] + Len(msgs[k].text)
  BY <1>1, <1>4 DEF Follow
<1>6. DEFINE moved == [k \in 1 .. (l - 1) + 1 |-> mark[k + 1]]
<1>7. \A k \in 1 .. (l - 1) + 1 : k + 1 \in 1 .. l + 1
  BY <1>1, <1>2
<1>8. moved \in [1 .. (l - 1) + 1 -> 0 .. R]
  BY <1>5, <1>7
<1>9. \A k \in 1 .. (l - 1) + 1 : moved[k] = mark[k + 1]
  OBVIOUS
<1>10. HIDE DEF moved
<1>11. 1 \in 1 .. l /\ 1 \in 1 .. (l - 1) + 1 /\ 1 + 1 = 2
  BY <1>1, <1>2
<1>12. Part(r, msgs[1].text, taken) /\ mark[2] = taken + L
  BY <1>5, <1>11
<1>13. moved[1] = taken + L
  BY <1>9, <1>11, <1>12
<1>14. ASSUME NEW k \in 1 .. l - 1
       PROVE  /\ Part(r, rest[k].text, moved[k]) /\ moved[k + 1] = moved[k] + Len(rest[k].text)
  <2>1. k + 1 \in 1 .. l /\ k \in 1 .. (l - 1) + 1 /\ k + 1 \in 1 .. (l - 1) + 1
    BY <1>1, <1>14
  <2>. QED
    BY <1>3, <1>5, <1>9, <1>14, <2>1
<1>15. Follow(r, rest, moved, taken + L)
  BY <1>3, <1>4, <1>8, <1>13, <1>14 DEF Follow
<1>16. moved[Len(rest) + 1] = mark[Len(msgs) + 1]
  <2>1. (l - 1) + 1 = l /\ l \in 1 .. (l - 1) + 1
    BY <1>1, <1>2
  <2>. QED
    BY <1>1, <1>3, <1>9, <2>1
<1>17. moved \in [1 .. Len(rest) + 1 -> 0 .. Len(r)]
  BY <1>3, <1>4, <1>8
<1>18. Behead(msgs, rest)
  BY <1>1, <1>3 DEF Behead
<1>19. Followed(r, rest, taken + L, sent)
  BY <1>15, <1>16, <1>17, Zenon DEF Followed
<1>. QED
  BY <1>12, <1>18, <1>19

-----------------------------------------------------------------------------
(* msgsnd and msgrcv *)

\* What msgsnd leaves alone.
Untouched == UNCHANGED <<dataVars, ends, PIPE_BUF, live>>

LEMMA UntouchedSame ==
  ASSUME Untouched
  PROVE  /\ name' = name /\ target' = target /\ offset' = offset /\ buff' = buff
         /\ printed' = printed
         /\ ends' = ends /\ PIPE_BUF' = PIPE_BUF /\ live' = live
BY DEF Untouched, dataVars

\* A message of text is put into the queue of key c.
Posted(c, type, text) ==
  /\ queue' \in [{1, 2} -> Seq(Mesgs)]
  /\ queue'[c] = Append(queue[c], [mesg_type |-> type, text |-> text])
  /\ \A k \in {1, 2} : k # c => queue'[k] = queue[k]

LEMMA SendIs ==
  ASSUME TransferIInv, ~Streaming, NEW x \in Parties, Q!Send(x), UNCHANGED streams
  PROVE  /\ Untouched
         /\ \E s \in SendsOf(x) :
              /\ At(x, s[1], s[2])
              /\ Posted(Q!QOut(x), Q!TypeOf(x), IF s[1] = "end" THEN <<>> ELSE buff[x])
<1>1. Kinds /\ Present /\ Justified
  BY DEF TransferIInv
<1>2. PICK s \in SendsOf(x) :
        /\ at[x] = s[1]
        /\ \/ Q!QOut(x) \notin live
           \/ /\ Q!At(x, s[1], s[2])
              /\ queue' = [queue EXCEPT ![Q!QOut(x)] =
                   Append(@, [mesg_type |-> Q!TypeOf(x),
                              text |-> IF s[1] = "end" THEN <<>> ELSE buff[x]])]
  BY SameFunctions DEF Q!Send
<1>3. Untouched
  BY DEF Q!Send, Untouched, streams, dataVars, Q!dataVars
<1>4. s[1] \in {"send", "send_message", "end"} /\ (x = "client" => s[1] = "send")
  BY DEF SendsOf
<1>5. live = Q!Keys
  <2>1. CASE x = "client"
    BY <1>1, <1>2, <1>4, <2>1 DEF client, Present, Lost
  <2>2. CASE x = "server"
    <3>1. server \in {"send", "send_message", "end"}
      BY <1>2, <1>4, <2>2 DEF server
    <3>2. client # "done"
      BY <1>1, <3>1 DEF Justified, Ending, Lost
    <3>. QED
      BY <1>1, <3>1, <3>2 DEF Present, Lost
  <2>. QED
    BY <2>1, <2>2 DEF Parties
<1>6. Q!QOut(x) \in live /\ Q!QOut(x) \in {1, 2} /\ Q!TypeOf(x) \in {1, 2}
  BY <1>5 DEF Q!Keys, Q!QOut, Q!TypeOf
<1>7. PICK text : text = IF s[1] = "end" THEN <<>> ELSE buff[x]
  OBVIOUS
<1>8. text \in Seq(Any)
  <2>1. <<>> \in Seq(Any)
    OBVIOUS
  <2>2. buff[x] \in Seq(Any)
    BY <1>1 DEF Kinds
  <2>. QED
    BY <1>7, <2>1, <2>2
<1>9. PICK msg : msg = [mesg_type |-> Q!TypeOf(x), text |-> text]
  OBVIOUS
<1>10. msg \in Mesgs
  BY <1>6, <1>8, <1>9 DEF Mesgs
<1>11. PICK c : c = Q!QOut(x)
  OBVIOUS
<1>12. queue \in [{1, 2} -> Seq(Mesgs)]
  BY <1>1 DEF Kinds, Mesgs
<1>13. queue' = [queue EXCEPT ![c] = Append(queue[c], msg)]
  BY <1>2, <1>6, <1>7, <1>9, <1>11
<1>14. c \in {1, 2}
  BY <1>6, <1>11
<1>15. Append(queue[c], msg) \in Seq(Mesgs)
  BY <1>10, <1>12, <1>14, AppendProperties
<1>16. Posted(c, Q!TypeOf(x), text)
  BY <1>9, <1>12, <1>13, <1>14, <1>15 DEF Posted
<1>17. At(x, s[1], s[2])
  BY <1>2, <1>6, SameSteps
<1>. QED
  BY <1>3, <1>7, <1>11, <1>16, <1>17

\* The name is put into an empty queue.
LEMMA ClientSends ==
  ASSUME TransferIInv, ~Streaming, Untouched, At("client", "send", "receive"),
         Posted(1, 1, buff["client"])
  PROVE  TransferIInv'
<1>1. Kinds /\ OnStream /\ NameSent /\ Served /\ Correct /\ Queued
  BY DEF TransferIInv, Carried
<1>2. "client" \in Parties /\ "server" \in Parties /\ "server" # "client"
  BY DEF Parties
<1>3. Fixed
  BY UntouchedSame DEF Fixed, At
<1>4. "send" \in Talking \ (Lost \cup {"exit"}) /\ "receive" \in Talking
  BY DEF Talking, Labels, Lost, Over
<1>5. GoesOn("client", "send", "receive") /\ Opened' /\ Present' /\ Justified'
  BY <1>2, <1>3, <1>4, UntouchedSame, TalkKeeps
<1>6. /\ at' \in [Parties -> Labels] /\ client = "send" /\ client' = "receive" /\ server' = server
      /\ \A y \in Parties : at'[y] = "receive" \/ at'[y] = at[y]
  BY <1>2, <1>5, GoesTo
<1>7. client \in Early /\ client' \in Late /\ client' \notin Early /\ client \in Reading
      /\ client \notin Late \cup Lost
  BY <1>6 DEF Early, Late, Reading, Lost
<1>8. server \in Coming \cup Lost /\ server \notin Serving
  <2>1. server \notin Serving
    BY <1>1, <1>7 DEF NameSent
  <2>. QED
    BY <1>1, <2>1 DEF Kinds
<1>9. Boxed /\ ~Answered
  BY <1>1, <1>7, <1>8 DEF Queued, Answered
<1>10. queue[1] = <<>> /\ (~Q!One => queue[2] = <<>>) /\ Taken = 0
  BY <1>7, <1>9 DEF Boxed
<1>11. buff["client"] = name
  BY <1>1, <1>6 DEF NameSent
<1>12. Boxed'
  <2>1. queue'[1] = <<[mesg_type |-> 1, text |-> name]>>
    BY <1>10, <1>11 DEF Posted
  <2>2. ~Q!One => queue'[2] = <<>>
    BY <1>10 DEF Posted
  <2>3. Taken' = Taken
    BY <1>6, UntouchedSame DEF Taken
  <2>4. queue'[1] # <<>>
    BY <2>1
  <2>. QED
    BY <1>3, <1>7, <1>10, <2>1, <2>2, <2>3, <2>4, FixedSame DEF Boxed
<1>13. Coming \cap Serving = {} /\ Serving \cap Lost = {}
  BY DEF Coming, Serving, Lost
<1>14. Queued'
  BY <1>6, <1>8, <1>12, <1>13 DEF Queued
<1>15. NameSent'
  BY <1>6, <1>8 DEF NameSent
<1>16. Served'
  BY <1>1, <1>3, <1>6, <1>8, <1>13, UntouchedSame DEF Served, Sends, Serving, Coming, Lost
<1>17. Correct'
  BY <1>1, <1>3, <1>6, UntouchedSame, FixedSame DEF Correct
<1>18. Kinds'
  <2>1. \A y \in Parties : at'[y] # "data"
    BY <1>1, <1>6 DEF Kinds
  <2>2. /\ offset' \in 0 .. Len(Contents) /\ buff' \in [Parties -> Seq(Any)]
        /\ printed' \in Seq(Any)
        /\ client' \in Early \cup Late \cup Lost /\ server' \in Coming \cup Serving \cup Lost
    BY <1>1, <1>6, <1>7, UntouchedSame DEF Kinds
  <2>3. queue' \in [{1, 2} -> Seq([mesg_type : {1, 2}, text : Seq(Any)])]
    BY DEF Posted, Mesgs
  <2>. QED
    BY <1>1, <1>3, <1>6, <2>1, <2>2, <2>3, KindsKept
<1>. QED
  BY <1>3, <1>5, <1>14, <1>15, <1>16, <1>17, <1>18, QueueAll

LEMMA RepliesIn ==
  ASSUME Kinds, ~Streaming
  PROVE  /\ Q!QOut("server") = Q!QIn("client") /\ Q!QIn("client") \in {1, 2}
         /\ Q!TypeOf("server") \in {1, 2} /\ Replies \in Seq(Mesgs)
         /\ queue \in [{1, 2} -> Seq(Mesgs)]
<1>1. Q!QOut("server") = Q!QIn("client") /\ Q!QIn("client") \in {1, 2}
        /\ Q!TypeOf("server") \in {1, 2}
  BY DEF Q!QOut, Q!QIn, Q!TypeOf
<1>2. queue \in [{1, 2} -> Seq(Mesgs)]
  BY DEF Kinds, Mesgs
<1>. QED
  BY <1>1, <1>2 DEF Replies

\* A message is put behind the replies.
LEMMA AnswerGrows ==
  ASSUME Kinds, Served, ~Streaming, Answered, Fixed, server \in Sends, client' = client,
         client \in Reading, Taken' = Taken, NEW L \in Nat, L = Len(Text), Sent' = Sent + L,
         server' \notin Ending => L # 0, NEW msg \in Mesgs, msg.text = Text,
         msg.mesg_type = Q!TypeOf("server"), Replies' = Append(Replies, msg)
  PROVE  Answered'
<1>1. Replies \in Seq(Mesgs)
  BY RepliesIn
<1>2. server \notin Lost \cup Ending
  BY DEF Sends, Lost, Ending
<1>3. PICK mark \in [1 .. Len(Replies) + 1 -> 0 .. Total] :
          /\ Follow(Reply, Replies, mark, Taken)
          /\ server \notin Lost => mark[Len(Replies) + 1] = Sent
          /\ \A k \in 1 .. Len(Replies) : Replies[k].mesg_type = Q!TypeOf("server")
          /\ server \notin Ending => \A k \in 1 .. Len(Replies) : Replies[k].text # <<>>
  BY Zenon DEF Answered
<1>4. PICK taken \in Nat, sent \in Nat : taken = Taken /\ sent = Sent
  BY Numbers
<1>5. Part(Reply, msg.text, sent) /\ L = Len(msg.text)
  BY <1>4, Numbers
<1>6. PICK msgs \in Seq(Mesgs) : msgs = Replies
  BY <1>1
<1>7. Follow(Reply, msgs, mark, taken) /\ mark[Len(msgs) + 1] = sent
  BY <1>2, <1>3, <1>4, <1>6
<1>8. PICK new : new = Append(msgs, msg)
  OBVIOUS
<1>9. Followed(Reply, Append(msgs, msg), taken, sent + L)
  BY <1>4, <1>5, <1>6, <1>7, FollowGrows, ReplyIs
<1>10. PICK moved \in [1 .. Len(new) + 1 -> 0 .. Len(Reply)] :
            /\ Follow(Reply, new, moved, taken) /\ moved[Len(new) + 1] = sent + L
  BY <1>8, <1>9, Zenon DEF Followed
<1>11. Replies' = new
  BY <1>6, <1>8
<1>12. PICK l \in Nat : l = Len(msgs)
  OBVIOUS
<1>13. /\ Len(new) = l + 1 /\ (\A k \in 1 .. l : new[k] = msgs[k]) /\ new[l + 1] = msg
  BY <1>8, <1>12, AppendProperties
<1>14. \A k \in 1 .. Len(new) : k \in 1 .. l \/ k = l + 1
  BY <1>12, <1>13
<1>15. \A k \in 1 .. Len(new) : new[k].mesg_type = Q!TypeOf("server")
  BY <1>3, <1>6, <1>12, <1>13, <1>14
<1>16. server' \notin Ending => \A k \in 1 .. Len(new) : new[k].text # <<>>
  <2>1. ASSUME server' \notin Ending PROVE msg.text # <<>>
    BY <1>5, <2>1
  <2>. QED
    BY <1>2, <1>3, <1>6, <1>12, <1>13, <1>14, <2>1
<1>17. client' \notin Early
  BY DEF Answered
<1>18. Q!TypeOf("server")' = Q!TypeOf("server")
  BY FixedSame DEF Q!TypeOf
<1>19. Taken' = taken /\ Sent' = sent + L
  BY <1>4
<1>20. Reply' = Reply /\ Total' = Len(Reply)
  BY FixedSame DEF Total
<1>21. /\ moved \in [1 .. Len(Replies') + 1 -> 0 .. Total']
       /\ Follow(Reply', Replies', moved, Taken')
       /\ moved[Len(Replies') + 1] = Sent'
       /\ \A k \in 1 .. Len(Replies') : Replies'[k].mesg_type = Q!TypeOf("server")'
       /\ server' \notin Ending => \A k \in 1 .. Len(Replies') : Replies'[k].text # <<>>
  BY <1>10, <1>11, <1>15, <1>16, <1>18, <1>19, <1>20, Zenon
<1>. QED
  BY <1>17, <1>21 DEF Answered

LEMMA ServerSends ==
  ASSUME TransferIInv, ~Streaming, Untouched, NEW here, NEW next, At("server", here, next),
         \/ here = "send" /\ next = "file"
         \/ here = "send_message" /\ next = "end"
         \/ here = "end" /\ next = "exit",
         Posted(Q!QOut("server"), Q!TypeOf("server"),
                IF here = "end" THEN <<>> ELSE buff["server"])
  PROVE  TransferIInv'
<1>1. Kinds /\ OnStream /\ NameSent /\ Served /\ Correct /\ Queued
  BY DEF TransferIInv, Carried
<1>2. "client" \in Parties /\ "server" \in Parties /\ "server" # "client"
  BY DEF Parties
<1>3. Fixed
  BY UntouchedSame DEF Fixed, At
<1>4. here \in Talking \ (Lost \cup {"exit"}) /\ next \in Talking /\ next # "error"
  BY DEF Talking, Labels, Lost, Over
<1>5. GoesOn("server", here, next) /\ Opened' /\ Present' /\ Justified'
  BY <1>2, <1>3, <1>4, UntouchedSame, TalkKeeps
<1>6. /\ at' \in [Parties -> Labels] /\ server = here /\ server' = next /\ client' = client
      /\ \A y \in Parties : at'[y] = next \/ at'[y] = at[y]
  BY <1>2, <1>5, GoesTo
<1>7. /\ server \in Sends /\ server \in Serving /\ server' \in Serving
      /\ server' \notin Coming \cup Lost /\ server' # "data"
      /\ (server' \notin Ending => here # "end")
  BY <1>6 DEF Sends, Serving, Coming, Lost, Ending
<1>8. PICK L \in Nat : L = Len(Text)
  BY <1>1, Numbers
<1>9. Sent' = Sent + L /\ Served'
  BY <1>1, <1>3, <1>6, <1>8, UntouchedSame, ServedMoves
<1>10. NameSent'
  BY <1>1, <1>3, <1>6, <1>7, UntouchedSame DEF NameSent
<1>11. Taken' = Taken
  BY <1>6, UntouchedSame DEF Taken
<1>12. Correct'
  BY <1>1, <1>3, <1>6, UntouchedSame, FixedSame DEF Correct
<1>13. PICK msg : msg = [mesg_type |-> Q!TypeOf("server"), text |-> Text]
  OBVIOUS
<1>14. msg \in Mesgs /\ msg.text = Text /\ msg.mesg_type = Q!TypeOf("server")
  BY <1>1, <1>13, Numbers, RepliesIn DEF Mesgs
<1>15. Text = IF here = "end" THEN <<>> ELSE buff["server"]
  BY <1>6 DEF Text
<1>16. Replies' = Append(Replies, msg)
  <2>1. queue'[Q!QIn("client")] = Append(queue[Q!QIn("client")], msg)
    BY <1>1, <1>13, <1>15, RepliesIn DEF Posted
  <2>2. Q!QIn("client")' = Q!QIn("client")
    BY <1>3, FixedSame DEF Q!QIn
  <2>. QED
    BY <2>1, <2>2 DEF Replies
<1>17. server' \notin Ending => L # 0
  <2>1. server' \notin Ending => server \in {"send", "send_message"}
    BY <1>6, <1>7
  <2>. QED
    BY <1>1, <1>8, <2>1, Numbers
<1>18. Queued'
  <2>1. ASSUME client \in Reading PROVE Answered'
    <3>1. Answered
      BY <1>1, <1>7, <2>1 DEF Queued
    <3>. QED
      BY <1>1, <1>3, <1>6, <1>7, <1>8, <1>9, <1>11, <1>14, <1>16, <1>17, <2>1, <3>1, AnswerGrows
  <2>. QED
    BY <1>6, <1>7, <2>1 DEF Queued
<1>19. Kinds'
  <2>1. \A y \in Parties : at'[y] # "data"
    BY <1>1, <1>6, <1>7 DEF Kinds
  <2>2. /\ offset' \in 0 .. Len(Contents) /\ buff' \in [Parties -> Seq(Any)]
        /\ printed' \in Seq(Any)
        /\ client' \in Early \cup Late \cup Lost /\ server' \in Coming \cup Serving \cup Lost
    BY <1>1, <1>6, <1>7, UntouchedSame DEF Kinds
  <2>3. queue' \in [{1, 2} -> Seq([mesg_type : {1, 2}, text : Seq(Any)])]
    BY DEF Posted, Mesgs
  <2>. QED
    BY <1>1, <1>3, <1>6, <2>1, <2>2, <2>3, KindsKept
<1>. QED
  BY <1>3, <1>5, <1>9, <1>10, <1>12, <1>18, <1>19, QueueAll

LEMMA SendKeeps ==
  ASSUME TransferIInv, ~Streaming, NEW x \in Parties, Q!Send(x), UNCHANGED streams
  PROVE  TransferIInv'
<1>1. Untouched
  BY SendIs
<1>2. PICK s \in SendsOf(x) :
        /\ At(x, s[1], s[2])
        /\ Posted(Q!QOut(x), Q!TypeOf(x), IF s[1] = "end" THEN <<>> ELSE buff[x])
  BY SendIs
<1>3. CASE x = "client"
  <2>1. s[1] = "send" /\ s[2] = "receive"
    BY <1>3 DEF SendsOf
  <2>2. Q!QOut(x) = 1 /\ Q!TypeOf(x) = 1
    BY <1>3 DEF Q!QOut, Q!TypeOf
  <2>3. At("client", "send", "receive") /\ Posted(1, 1, buff["client"])
    BY <1>2, <1>3, <2>1, <2>2
  <2>. QED
    BY <1>1, <2>3, ClientSends
<1>4. CASE x = "server"
  <2>1. PICK here, next : here = s[1] /\ next = s[2]
    OBVIOUS
  <2>2. \/ here = "send" /\ next = "file"
        \/ here = "send_message" /\ next = "end"
        \/ here = "end" /\ next = "exit"
    <3>1. s = <<"send", "file">> \/ s = <<"send_message", "end">> \/ s = <<"end", "exit">>
      BY <1>4 DEF SendsOf
    <3>. QED
      BY <2>1, <3>1
  <2>3. /\ At("server", here, next)
        /\ Posted(Q!QOut("server"), Q!TypeOf("server"),
                  IF here = "end" THEN <<>> ELSE buff["server"])
    BY <1>2, <1>4, <2>1
  <2>. QED
    BY <1>1, <2>2, <2>3, ServerSends
<1>. QED
  BY <1>3, <1>4 DEF Parties

\* What msgrcv leaves alone.
Remaining == UNCHANGED <<name, target, offset, printed, ends, PIPE_BUF, live>>

LEMMA RemainingSame ==
  ASSUME Remaining
  PROVE  /\ name' = name /\ target' = target /\ offset' = offset /\ printed' = printed
         /\ ends' = ends /\ PIPE_BUF' = PIPE_BUF /\ live' = live
BY DEF Remaining

\* The i-th message of queue c is received.
Picks(x, c, i) ==
  /\ c = Q!QIn(x) /\ i \in DOMAIN queue[c]
  /\ queue[c][i].mesg_type = Q!TypeOf(Other(x))
  /\ \A j \in 1 .. i - 1 : queue[c][j].mesg_type # Q!TypeOf(Other(x))
  /\ At(x, "receive", IF queue[c][i].text = <<>> THEN Ended(x) ELSE Got(x))
  /\ queue' = [queue EXCEPT ![c] = Q!Without(@, i)]
  /\ buff' = [buff EXCEPT ![x] = queue[c][i].text]

LEMMA ReceiveIs ==
  ASSUME TransferIInv, ~Streaming, NEW x \in Parties, Q!Receive(x), UNCHANGED streams
  PROVE  Remaining /\ \E c \in {1, 2} : \E i : Picks(x, c, i)
<1>1. Kinds /\ Present /\ Justified
  BY DEF TransferIInv
<1>2. at[x] = "receive"
  BY DEF Q!Receive, Q!At
<1>3. live = Q!Keys
  <2>1. CASE x = "client"
    BY <1>1, <1>2, <2>1 DEF client, Present, Lost
  <2>2. CASE x = "server"
    <3>1. server = "receive"
      BY <1>2, <2>2 DEF server
    <3>2. client # "done"
      BY <1>1, <3>1 DEF Justified, Ending, Lost
    <3>. QED
      BY <1>1, <3>1, <3>2 DEF Present, Lost
  <2>. QED
    BY <2>1, <2>2 DEF Parties
<1>4. Q!QIn(x) \in live /\ Q!QIn(x) \in {1, 2}
  BY <1>3 DEF Q!Keys, Q!QIn
<1>5. PICK c : c = Q!QIn(x)
  OBVIOUS
<1>6. Q!Other(x) = Other(x)
  BY DEF Q!Other, Other
<1>7. PICK i \in DOMAIN queue[c] :
           /\ queue[c][i].mesg_type = Q!TypeOf(Other(x))
           /\ \A j \in 1 .. i - 1 : queue[c][j].mesg_type # Q!TypeOf(Other(x))
           /\ Q!At(x, "receive", IF queue[c][i].text = <<>> THEN Q!Ended(x) ELSE Q!Got(x))
           /\ queue' = [queue EXCEPT ![c] = Q!Without(@, i)]
           /\ buff' = [buff EXCEPT ![x] = queue[c][i].text]
           /\ UNCHANGED <<name, target, offset, printed, live>>
  BY <1>4, <1>5, <1>6 DEF Q!Receive
<1>8. Remaining
  BY <1>7 DEF Remaining, streams
<1>9. Picks(x, c, i)
  BY <1>5, <1>7, SameReads, SameSteps DEF Picks
<1>. QED
  BY <1>4, <1>5, <1>8, <1>9

LEMMA WithoutFirst ==
  ASSUME NEW q \in Seq(Mesgs), q # <<>>
  PROVE  /\ Q!Without(q, 1) = SubSeq(q, 2, Len(q)) /\ SubSeq(q, 2, Len(q)) \in Seq(Mesgs)
         /\ Len(SubSeq(q, 2, Len(q))) = Len(q) - 1
<1>1. PICK l \in Nat : l = Len(q)
  OBVIOUS
<1>2. l >= 1 /\ 1 \in Nat /\ 1 =< l /\ l =< Len(q) /\ 1 + 1 = 2 /\ 1 - 1 = 0
  BY <1>1
<1>3. SubSeq(q, 1 + 1, l) \in Seq(Mesgs) /\ Len(SubSeq(q, 1 + 1, l)) = l - 1
  BY <1>2, Slice
<1>4. SubSeq(q, 2, l) \in Seq(Mesgs) /\ Len(SubSeq(q, 2, l)) = l - 1
  BY <1>2, <1>3, Zenon
<1>5. SubSeq(q, 1, 0) = <<>>
  <2>1. SubSeq(q, 0 + 1, 0) \in Seq(Mesgs) /\ Len(SubSeq(q, 0 + 1, 0)) = 0 - 0
    BY <1>1, <1>2, Slice
  <2>2. 0 + 1 = 1 /\ 0 - 0 = 0
    OBVIOUS
  <2>3. SubSeq(q, 1, 0) \in Seq(Mesgs) /\ Len(SubSeq(q, 1, 0)) = 0
    BY <2>1, <2>2, Zenon
  <2>. QED
    BY <2>3, EmptySeq
<1>6. Q!Without(q, 1) = SubSeq(q, 1, 0) \o SubSeq(q, 2, l)
  BY <1>1, <1>2 DEF Q!Without
<1>7. <<>> \o SubSeq(q, 2, l) = SubSeq(q, 2, l)
  BY <1>4, ConcatEmptySeq
<1>8. Q!Without(q, 1) = SubSeq(q, 2, l)
  BY <1>5, <1>6, <1>7
<1>. QED
  BY <1>1, <1>4, <1>8

\* The first message is taken off queue c.
LEMMA PicksFirst ==
  ASSUME Kinds, ~Streaming, NEW x \in Parties, NEW c \in {1, 2}, Picks(x, c, 1),
         NEW text, text = queue[c][1].text
  PROVE  /\ queue' \in [{1, 2} -> Seq(Mesgs)] /\ queue[c] \in Seq(Mesgs) /\ queue[c] # <<>>
         /\ queue'[c] = SubSeq(queue[c], 2, Len(queue[c]))
         /\ \A k \in {1, 2} : k # c => queue'[k] = queue[k]
         /\ buff' \in [Parties -> Seq(Any)] /\ buff'[x] = text /\ text \in Seq(Any)
         /\ \A y \in Parties : y # x => buff'[y] = buff[y]
         /\ At(x, "receive", IF text = <<>> THEN Ended(x) ELSE Got(x))
<1>1. queue \in [{1, 2} -> Seq(Mesgs)]
  BY RepliesIn
<1>2. PICK q \in Seq(Mesgs) : q = queue[c]
  BY <1>1
<1>3. 1 \in DOMAIN q
  BY <1>2 DEF Picks
<1>4. q # <<>> /\ q[1] \in Mesgs
  BY <1>3
<1>5. text \in Seq(Any)
  BY <1>2, <1>4 DEF Mesgs
<1>6. /\ Q!Without(q, 1) = SubSeq(q, 2, Len(q)) /\ SubSeq(q, 2, Len(q)) \in Seq(Mesgs)
  BY <1>4, WithoutFirst
<1>7. PICK rest \in Seq(Mesgs) : rest = SubSeq(q, 2, Len(q))
  BY <1>6
<1>8. queue' = [queue EXCEPT ![c] = rest]
  BY <1>1, <1>2, <1>6, <1>7 DEF Picks
<1>9. /\ queue' \in [{1, 2} -> Seq(Mesgs)] /\ queue'[c] = rest
      /\ \A k \in {1, 2} : k # c => queue'[k] = queue[k]
  BY <1>1, <1>8
<1>10. buff \in [Parties -> Seq(Any)] /\ buff' = [buff EXCEPT ![x] = text]
  BY DEF Kinds, Picks
<1>11. /\ buff' \in [Parties -> Seq(Any)] /\ buff'[x] = text
       /\ \A y \in Parties : y # x => buff'[y] = buff[y]
  BY <1>5, <1>10
<1>12. At(x, "receive", IF text = <<>> THEN Ended(x) ELSE Got(x))
  BY DEF Picks
<1>. QED
  BY <1>2, <1>4, <1>5, <1>7, <1>9, <1>11, <1>12

LEMMA AnswerStarts ==
  ASSUME Replies' = <<>>, client' \notin Early, Taken' = 0, server' \notin Lost => Sent' = 0,
         Total' \in Nat, Total' = Len(Reply')
  PROVE  Answered'
<1>1. PICK mark : mark = [k \in 1 .. 0 + 1 |-> 0]
  OBVIOUS
<1>2. mark[0 + 1] = 0 /\ mark[1] = 0
  <2>1. 0 + 1 = 1 /\ 1 \in 1 .. 0 + 1
    OBVIOUS
  <2>. QED
    BY <1>1, <2>1
<1>3. mark \in [1 .. 0 + 1 -> 0 .. Total']
  BY <1>1
<1>4. Len(Replies') = 0 /\ \A k \in 1 .. 0 : FALSE
  BY EmptySeq
<1>5. Follow(Reply', Replies', mark, Taken')
  BY <1>2, <1>3, <1>4 DEF Follow
<1>6. /\ mark \in [1 .. Len(Replies') + 1 -> 0 .. Total']
      /\ Follow(Reply', Replies', mark, Taken')
      /\ server' \notin Lost => mark[Len(Replies') + 1] = Sent'
      /\ \A k \in 1 .. Len(Replies') : Replies'[k].mesg_type = Q!TypeOf("server")'
      /\ server' \notin Ending => \A k \in 1 .. Len(Replies') : Replies'[k].text # <<>>
  BY <1>2, <1>3, <1>4, <1>5
<1>. QED
  BY <1>6, Zenon DEF Answered

\* The server receives the name.
LEMMA ServerReceives ==
  ASSUME TransferIInv, ~Streaming, Remaining, NEW c \in {1, 2}, NEW i, Picks("server", c, i)
  PROVE  TransferIInv'
<1>1. Kinds /\ OnStream /\ NameSent /\ Served /\ Correct /\ Queued
  BY DEF TransferIInv, Carried
<1>2. "client" \in Parties /\ "server" \in Parties /\ "server" # "client"
  BY DEF Parties
<1>3. c = 1 /\ i \in DOMAIN queue[1]
  BY DEF Picks, Q!QIn
<1>4. server = "receive" /\ server \in Coming
  BY DEF Picks, At, server, Coming
<1>5. Boxed
  BY <1>1, <1>4 DEF Queued
<1>6. queue[1] = <<[mesg_type |-> 1, text |-> name]>> /\ queue[1] # <<>>
  <2>1. queue[1] # <<>>
    BY <1>3
  <2>. QED
    BY <1>5, <2>1 DEF Boxed
<1>7. i = 1 /\ Len(queue[1]) = 1 /\ queue[1][1].text = name
  BY <1>3, <1>6
<1>8. Picks("server", 1, 1)
  BY <1>3, <1>7
<1>9. /\ queue' \in [{1, 2} -> Seq(Mesgs)] /\ queue[1] \in Seq(Mesgs)
      /\ queue'[1] = SubSeq(queue[1], 2, Len(queue[1]))
      /\ \A k \in {1, 2} : k # 1 => queue'[k] = queue[k]
      /\ buff' \in [Parties -> Seq(Any)] /\ buff'["server"] = name
      /\ \A y \in Parties : y # "server" => buff'[y] = buff[y]
      /\ At("server", "receive", IF name = <<>> THEN Ended("server") ELSE Got("server"))
  BY <1>1, <1>2, <1>7, <1>8, PicksFirst
<1>10. queue'[1] = <<>> /\ queue'[2] = queue[2]
  <2>1. Len(SubSeq(queue[1], 2, Len(queue[1]))) = Len(queue[1]) - 1
        /\ SubSeq(queue[1], 2, Len(queue[1])) \in Seq(Mesgs)
    BY <1>6, <1>9, WithoutFirst
  <2>2. queue'[1] \in Seq(Mesgs) /\ Len(queue'[1]) = 0
    BY <1>7, <1>9, <2>1
  <2>. QED
    BY <1>9, <2>2, EmptySeq
<1>11. PICK there : there = IF name = <<>> THEN "error" ELSE "open"
  OBVIOUS
<1>12. At("server", "receive", there)
  BY <1>9, <1>11 DEF Ended, Got
<1>13. Fixed
  BY <1>12, RemainingSame DEF Fixed, At
<1>14. "receive" \in Talking \ (Lost \cup {"exit"}) /\ there \in Talking
         /\ there \in {"error", "open"}
  BY <1>11 DEF Talking, Labels, Lost, Over
<1>15. there = "error" => Excused
  BY <1>11 DEF Excused, Answerable
<1>16. GoesOn("server", "receive", there) /\ Opened' /\ Present' /\ Justified'
  BY <1>2, <1>12, <1>13, <1>14, <1>15, RemainingSame, TalkKeeps
<1>17. /\ at' \in [Parties -> Labels] /\ server' = there /\ client' = client
       /\ \A y \in Parties : at'[y] = there \/ at'[y] = at[y]
  BY <1>2, <1>16, GoesTo
<1>18. client \in Late \cup Lost /\ client \notin Early
  <2>1. client \notin Early
    BY <1>5, <1>6 DEF Boxed
  <2>. QED
    BY <1>1, <2>1 DEF Kinds
<1>19. /\ server' \notin Coming \cup Sends /\ server' \in Serving \cup Lost
       /\ server' \notin {"file", "send", "send_message", "end", "exit", "done"}
  BY <1>14, <1>17 DEF Coming, Sends, Serving, Lost
<1>20. Sent' = 0
  BY <1>19 DEF Sent
<1>21. buff'["client"] = buff["client"]
  BY <1>2, <1>9
<1>22. NameSent'
  BY <1>1, <1>13, <1>17, <1>18, <1>21, RemainingSame DEF NameSent
<1>23. Served'
  <2>1. server' = "open" => name' = Name /\ buff'["server"] = name' /\ offset' = 0
    BY <1>1, <1>4, <1>9, <1>11, <1>17, RemainingSame DEF Served, Kinds
  <2>2. server' \in Serving => server' = "open"
    BY <1>14, <1>17 DEF Serving
  <2>. QED
    BY <1>19, <2>1, <2>2 DEF Served
<1>24. Correct'
  BY <1>1, <1>13, <1>17, <1>21, RemainingSame, FixedSame DEF Correct
<1>25. Queued'
  <2>1. ASSUME client \in Reading PROVE Answered'
    <3>1. Taken' = Taken
      BY <1>17, <1>21, RemainingSame DEF Taken
    <3>2. Taken' = 0
      BY <1>5, <2>1, <3>1 DEF Boxed
    <3>3. Q!QIn("client")' = Q!QIn("client")
      BY <1>13, FixedSame DEF Q!QIn
    <3>4. Replies' = <<>>
      BY <1>5, <1>10, <3>3 DEF Replies, Q!QIn, Boxed
    <3>5. Total' \in Nat /\ Total' = Len(Reply')
      BY <1>13, FixedSame, ReplyIs DEF Total
    <3>. QED
      BY <1>17, <1>18, <1>20, <3>2, <3>4, <3>5, AnswerStarts
  <2>. QED
    BY <1>17, <1>19, <2>1 DEF Queued
<1>26. Kinds'
  <2>1. \A y \in Parties : at'[y] # "data"
    BY <1>1, <1>14, <1>17 DEF Kinds
  <2>2. /\ offset' \in 0 .. Len(Contents) /\ printed' \in Seq(Any)
        /\ client' \in Early \cup Late \cup Lost /\ server' \in Coming \cup Serving \cup Lost
    BY <1>1, <1>17, <1>19, RemainingSame DEF Kinds
  <2>3. queue' \in [{1, 2} -> Seq([mesg_type : {1, 2}, text : Seq(Any)])]
    BY <1>9 DEF Mesgs
  <2>. QED
    BY <1>1, <1>9, <1>13, <1>17, <2>1, <2>2, <2>3, KindsKept
<1>. QED
  BY <1>13, <1>16, <1>22, <1>23, <1>24, <1>25, <1>26, QueueAll

\* What the client receives is the first of the replies.
LEMMA ReplyFirst ==
  ASSUME Kinds, ~Streaming, Queued, NEW c \in {1, 2}, NEW i, Picks("client", c, i)
  PROVE  /\ Answered /\ server \in Serving \cup Lost /\ client = "receive"
         /\ c = Q!QIn("client") /\ i = 1 /\ Replies = queue[c]
<1>1. client = "receive" /\ client \in Reading
  BY DEF Picks, At, client, Reading
<1>2. c = Q!QIn("client") /\ Replies = queue[c] /\ i \in DOMAIN queue[c]
      /\ queue[c][i].mesg_type = Q!TypeOf("server")
      /\ \A j \in 1 .. i - 1 : queue[c][j].mesg_type # Q!TypeOf("server")
  BY DEF Picks, Replies, Other
<1>3. ~Boxed
  <2>1. SUFFICES ASSUME Boxed PROVE FALSE
    OBVIOUS
  <2>2. CASE Q!One
    <3>1. c = 1 /\ Q!TypeOf("server") = 2
      BY <1>2, <2>2 DEF Q!QIn, Q!TypeOf
    <3>2. queue[1] = <<[mesg_type |-> 1, text |-> name]>> \/ queue[1] = <<>>
      BY <2>1 DEF Boxed
    <3>3. queue[1] # <<>>
      BY <1>2, <3>1
    <3>4. i = 1 /\ queue[1][1].mesg_type = 1
      BY <1>2, <3>1, <3>2, <3>3
    <3>. QED
      BY <1>2, <3>1, <3>4
  <2>3. CASE ~Q!One
    <3>1. c = 2
      BY <1>2, <2>3 DEF Q!QIn
    <3>2. queue[2] = <<>>
      BY <2>1, <2>3 DEF Boxed
    <3>. QED
      BY <1>2, <3>1, <3>2
  <2>. QED
    BY <2>2, <2>3
<1>4. server \notin Coming
  BY <1>3 DEF Queued
<1>5. Answered /\ server \in Serving \cup Lost
  BY <1>1, <1>3, <1>4 DEF Queued, Kinds
<1>6. i = 1
  <2>1. \A k \in 1 .. Len(Replies) : Replies[k].mesg_type = Q!TypeOf("server")
    BY <1>5, Zenon DEF Answered
  <2>2. Replies \in Seq(Mesgs)
    BY RepliesIn
  <2>3. PICK l \in Nat : l = Len(Replies)
    BY <2>2
  <2>4. i \in 1 .. l
    BY <1>2, <2>2, <2>3
  <2>5. ASSUME i # 1 PROVE FALSE
    <3>1. 1 \in 1 .. i - 1 /\ 1 \in 1 .. l
      BY <2>3, <2>4, <2>5
    <3>. QED
      BY <1>2, <2>1, <2>3, <3>1
  <2>. QED
    BY <2>5
<1>. QED
  BY <1>1, <1>2, <1>5, <1>6

\* The first message is taken off the replies.
LEMMA AnswerTaken ==
  ASSUME Kinds, ~Streaming, Answered, Fixed, Replies # <<>>, server' = server, Sent' = Sent,
         NEW p \in Nat, p = Taken, NEW L \in Nat, L = Len(Replies[1].text), Taken' = p + L,
         client' \notin Early, Replies' = SubSeq(Replies, 2, Len(Replies))
  PROVE  Answered'
<1>1. PICK msgs \in Seq(Mesgs) : msgs = Replies
  BY RepliesIn
<1>2. PICK mark \in [1 .. Len(msgs) + 1 -> 0 .. Total] :
          /\ Follow(Reply, msgs, mark, p)
          /\ server \notin Lost => mark[Len(msgs) + 1] = Sent
          /\ \A k \in 1 .. Len(msgs) : msgs[k].mesg_type = Q!TypeOf("server")
          /\ server \notin Ending => \A k \in 1 .. Len(msgs) : msgs[k].text # <<>>
  BY <1>1, Zenon DEF Answered
<1>3. PICK rest \in Seq(Mesgs) : rest = SubSeq(msgs, 2, Len(msgs))
  BY <1>1, WithoutFirst
<1>4. Reply \in Seq(Any) /\ msgs # <<>> /\ L = Len(msgs[1].text)
  BY <1>1, ReplyIs
<1>5. PICK sent : sent = mark[Len(msgs) + 1]
  OBVIOUS
<1>6. Behead(msgs, rest) /\ Followed(Reply, rest, p + L, sent)
  BY <1>1, <1>2, <1>3, <1>4, <1>5, FollowTaken
<1>7. \A k \in 1 .. Len(rest) : k + 1 \in 1 .. Len(msgs) /\ rest[k] = msgs[k + 1]
  BY <1>6 DEF Behead
<1>8. PICK moved \in [1 .. Len(rest) + 1 -> 0 .. Len(Reply)] :
        Follow(Reply, rest, moved, p + L) /\ moved[Len(rest) + 1] = mark[Len(msgs) + 1]
  BY <1>5, <1>6, Zenon DEF Followed
<1>9. \A k \in 1 .. Len(rest) : rest[k].mesg_type = Q!TypeOf("server")
  BY <1>2, <1>7
<1>10. server \notin Ending => \A k \in 1 .. Len(rest) : rest[k].text # <<>>
  BY <1>2, <1>7
<1>11. Q!TypeOf("server")' = Q!TypeOf("server")
  BY FixedSame DEF Q!TypeOf
<1>12. Reply' = Reply /\ Total' = Len(Reply)
  BY FixedSame DEF Total
<1>13. Replies' = rest
  BY <1>1, <1>3
<1>14. /\ moved \in [1 .. Len(Replies') + 1 -> 0 .. Total']
       /\ Follow(Reply', Replies', moved, Taken')
       /\ server' \notin Lost => moved[Len(Replies') + 1] = Sent'
       /\ \A k \in 1 .. Len(Replies') : Replies'[k].mesg_type = Q!TypeOf("server")'
       /\ server' \notin Ending => \A k \in 1 .. Len(Replies') : Replies'[k].text # <<>>
  BY <1>2, <1>8, <1>9, <1>10, <1>11, <1>12, <1>13, Zenon
<1>. QED
  BY <1>14, Zenon DEF Answered

LEMMA ClientReceives ==
  ASSUME TransferIInv, ~Streaming, Remaining, NEW c \in {1, 2}, NEW i, Picks("client", c, i)
  PROVE  TransferIInv'
<1>1. Kinds /\ OnStream /\ NameSent /\ Served /\ Splits /\ Correct /\ Queued
  BY DEF TransferIInv, Carried
<1>2. "client" \in Parties /\ "server" \in Parties /\ "server" # "client"
  BY DEF Parties
<1>3. /\ Answered /\ server \in Serving \cup Lost /\ client = "receive"
      /\ c = Q!QIn("client") /\ i = 1 /\ Replies = queue[c]
  BY <1>1, ReplyFirst
<1>4. Picks("client", c, 1)
  BY <1>3
<1>5. PICK text : text = queue[c][1].text
  OBVIOUS
<1>6. /\ queue' \in [{1, 2} -> Seq(Mesgs)] /\ queue[c] \in Seq(Mesgs) /\ queue[c] # <<>>
      /\ queue'[c] = SubSeq(queue[c], 2, Len(queue[c]))
      /\ \A k \in {1, 2} : k # c => queue'[k] = queue[k]
      /\ buff' \in [Parties -> Seq(Any)] /\ buff'["client"] = text /\ text \in Seq(Any)
      /\ \A y \in Parties : y # "client" => buff'[y] = buff[y]
      /\ At("client", "receive", IF text = <<>> THEN Ended("client") ELSE Got("client"))
  BY <1>1, <1>2, <1>4, <1>5, PicksFirst, SMTT(30)
<1>7. PICK there : there = IF text = <<>> THEN "wait" ELSE "print"
  OBVIOUS
<1>8. At("client", "receive", there)
  BY <1>6, <1>7 DEF Ended, Got
<1>9. Fixed
  BY <1>8, RemainingSame DEF Fixed, At
<1>10. PICK L \in Nat : L = Len(text)
  BY <1>6
<1>11. PICK p \in Nat : p = Taken /\ p = Len(printed)
  BY <1>1, <1>3 DEF Taken, Kinds
<1>12. Part(Reply, text, p) /\ (text = <<>> => server \in Ending)
  <2>1. PICK msgs \in Seq(Mesgs) : msgs = Replies
    BY <1>3, <1>6
  <2>2. PICK mark : /\ Follow(Reply, msgs, mark, p)
                    /\ server \notin Ending => \A k \in 1 .. Len(msgs) : msgs[k].text # <<>>
    BY <1>3, <1>11, <2>1, Zenon DEF Answered
  <2>3. msgs # <<>> /\ msgs[1].text = text
    BY <1>3, <1>5, <1>6, <2>1
  <2>4. 1 \in 1 .. Len(msgs)
    BY <2>1, <2>3
  <2>5. Part(Reply, text, p)
    BY <2>2, <2>3, <2>4 DEF Follow
  <2>. QED
    BY <2>2, <2>3, <2>4, <2>5
<1>13. "receive" \in Talking \ (Lost \cup {"exit"}) /\ there \in Talking
         /\ there \in {"wait", "print"}
       /\ there # "error"
  BY <1>7 DEF Talking, Labels, Lost, Over
<1>14. GoesOn("client", "receive", there) /\ Opened' /\ Present' /\ Justified'
  BY <1>2, <1>7, <1>8, <1>9, <1>12, <1>13, RemainingSame, TalkKeeps
<1>15. /\ at' \in [Parties -> Labels] /\ client' = there /\ server' = server
       /\ \A y \in Parties : at'[y] = there \/ at'[y] = at[y]
  BY <1>2, <1>14, GoesTo
<1>16. client' \in Late /\ client' \notin Early /\ (there = "wait" => client' \notin Reading)
  BY <1>13, <1>15 DEF Late, Early, Reading
<1>17. buff'["server"] = buff["server"]
  BY <1>2, <1>6
<1>18. NameSent'
  BY <1>15, <1>16 DEF NameSent, Early
<1>19. Served' /\ Sent' = Sent
  BY <1>1, <1>9, <1>15, <1>17, RemainingSame, ServedKept
<1>20. Correct'
  <2>1. Part(Reply', printed', 0)
    BY <1>1, <1>9, RemainingSame, FixedSame DEF Correct
  <2>2. Part(Reply', buff'["client"], Len(printed'))
    BY <1>6, <1>9, <1>11, <1>12, RemainingSame, FixedSame
  <2>. QED
    BY <2>1, <2>2 DEF Correct
<1>21. Queued'
  <2>1. CASE there = "wait"
    <3>1. client' \notin Reading /\ server' \notin Coming
      BY <1>3, <1>15, <1>16, <2>1 DEF Serving, Coming, Lost
    <3>. QED
      BY <3>1 DEF Queued
  <2>2. CASE there = "print"
    <3>1. Taken' = p + L
      BY <1>6, <1>10, <1>11, <1>15, <2>2, RemainingSame DEF Taken
    <3>2. Replies' = SubSeq(Replies, 2, Len(Replies))
      <4>1. Q!QIn("client")' = Q!QIn("client")
        BY <1>9, FixedSame DEF Q!QIn
      <4>2. Replies' = queue'[c]
        BY <1>3, <4>1 DEF Replies
      <4>. QED
        BY <1>3, <1>6, <4>2
    <3>3. Replies # <<>> /\ L = Len(Replies[1].text)
      BY <1>3, <1>5, <1>6, <1>10
    <3>4. Answered'
      BY <1>1, <1>3, <1>9, <1>11, <1>15, <1>16, <1>19, <3>1, <3>2, <3>3, AnswerTaken
    <3>5. server' \notin Coming
      BY <1>3, <1>15 DEF Serving, Coming, Lost
    <3>. QED
      BY <3>4, <3>5 DEF Queued
  <2>. QED
    BY <1>13, <2>1, <2>2
<1>22. Kinds'
  <2>1. \A y \in Parties : at'[y] # "data"
    BY <1>1, <1>13, <1>15 DEF Kinds
  <2>2. /\ offset' \in 0 .. Len(Contents) /\ printed' \in Seq(Any)
        /\ client' \in Early \cup Late \cup Lost /\ server' \in Coming \cup Serving \cup Lost
    BY <1>1, <1>15, <1>16, RemainingSame DEF Kinds
  <2>3. queue' \in [{1, 2} -> Seq([mesg_type : {1, 2}, text : Seq(Any)])]
    BY <1>6 DEF Mesgs
  <2>. QED
    BY <1>1, <1>6, <1>9, <1>15, <2>1, <2>2, <2>3, KindsKept
<1>. QED
  BY <1>9, <1>14, <1>18, <1>19, <1>20, <1>21, <1>22, QueueAll

LEMMA ReceiveKeeps ==
  ASSUME TransferIInv, ~Streaming, NEW x \in Parties, Q!Receive(x), UNCHANGED streams
  PROVE  TransferIInv'
<1>1. Remaining
  BY ReceiveIs
<1>2. PICK c \in {1, 2} : \E i : Picks(x, c, i)
  BY ReceiveIs
<1>3. PICK i : Picks(x, c, i)
  BY <1>2
<1>4. CASE x = "client"
  BY <1>1, <1>3, <1>4, ClientReceives
<1>5. CASE x = "server"
  BY <1>1, <1>3, <1>5, ServerReceives
<1>. QED
  BY <1>4, <1>5 DEF Parties

LEMMA RemoveKeeps ==
  ASSUME TransferIInv, ~Streaming, Q!ClientRemove, UNCHANGED streams
  PROVE  TransferIInv'
<1>1. Kinds /\ OnStream /\ NameSent /\ Served /\ Splits /\ Correct /\ Queued /\ Justified
        /\ Present /\ Opened
  BY DEF TransferIInv, Carried
<1>2. At("client", "wait", "done") /\ "client" \in Parties /\ "server" \in Parties
  BY SameSteps DEF Q!ClientRemove, Parties
<1>3. /\ name' = name /\ target' = target /\ offset' = offset /\ buff' = buff /\ printed' = printed
      /\ PIPE_BUF' = PIPE_BUF /\ queue' = [k \in {1, 2} |-> <<>>]
  BY DEF Q!ClientRemove, Q!dataVars, streams
<1>4. Fixed
  BY <1>2, <1>3 DEF Fixed, At
<1>5. /\ at["client"] = "wait" /\ at'["client"] = "done" /\ at' \in [Parties -> Labels]
      /\ \A y \in Parties : y # "client" => at'[y] = at[y]
  BY <1>1, <1>2, AtMoves DEF Kinds, Labels
<1>6. client = "wait" /\ client' = "done" /\ server' = server
  BY <1>2, <1>5 DEF client, server
<1>7. server \in Ending /\ server \notin Coming
  BY <1>1, <1>6 DEF Justified, Ending, Coming, Lost
<1>8. Opened' /\ Present'
  BY <1>4, <1>6, FixedSame DEF Opened, Present
<1>9. Justified'
  BY <1>1, <1>3, <1>4, <1>5, <1>6, <1>7, FixedSame, JustifiedKept
<1>10. NameSent'
  BY <1>1, <1>6 DEF NameSent, Late
<1>11. Served'
  BY <1>1, <1>3, <1>4, <1>6, ServedKept
<1>12. Correct'
  BY <1>1, <1>3, <1>4, <1>6, FixedSame DEF Correct
<1>13. Queued'
  BY <1>6, <1>7 DEF Queued, Reading, Early
<1>14. Kinds'
  <2>1. queue' \in [{1, 2} -> Seq([mesg_type : {1, 2}, text : Seq(Any)])]
    <3>1. <<>> \in Seq([mesg_type : {1, 2}, text : Seq(Any)])
      OBVIOUS
    <3>. QED
      BY <1>3, <3>1
  <2>2. /\ offset' \in 0 .. Len(Contents) /\ printed' \in Seq(Any)
        /\ buff' \in [Parties -> Seq(Any)]
        /\ client' \in Early \cup Late \cup Lost /\ server' \in Coming \cup Serving \cup Lost
    BY <1>1, <1>3, <1>6 DEF Kinds, Late
  <2>3. \A y \in Parties : at'[y] # "data"
    BY <1>1, <1>5 DEF Kinds
  <2>. QED
    BY <1>1, <1>4, <1>5, <2>1, <2>2, <2>3, KindsKept
<1>. QED
  BY <1>4, <1>8, <1>9, <1>10, <1>11, <1>12, <1>13, <1>14, QueueAll

LEMMA StreamStepKeeps ==
  ASSUME TransferIInv, Streaming, NEW x \in Parties, S!StreamStep(x), UNCHANGED queues
  PROVE  TransferIInv'
<1>1. CASE x = S!Creator /\ S!Create
  BY <1>1, CreateKeeps
<1>2. CASE x = "client" /\ S!Fork
  BY <1>2, ForkKeeps
<1>3. CASE x = "client" /\ S!ClientStart
  BY <1>3, ClientStartKeeps
<1>4. CASE x = "client" /\ S!ClientEnd
  BY <1>4, StreamEndKeeps
<1>5. CASE x = "server" /\ S!ServerEnd
  BY <1>5, StreamEndKeeps
<1>6. CASE \E c \in S!Both : S!OpenBoth(c)
  BY <1>6, OpenBothKeeps
<1>7. CASE S!CloseUnused(x)
  BY <1>7, CloseUnusedKeeps
<1>8. CASE S!Write(x)
  BY <1>8, WriteKeeps
<1>9. CASE S!ReadText(x)
  BY <1>9, ReadTextKeeps
<1>10. CASE S!ReadHeader(x)
  BY <1>10, ReadHeaderKeeps
<1>11. CASE S!ReadData(x)
  BY <1>11, ReadDataKeeps
<1>12. CASE S!Fails(x)
  BY <1>12, StreamEndKeeps
<1>13. CASE S!Functions(x) /\ UNCHANGED S!streamVars
  <2>1. Functions(x)
    BY <1>13, SameFunctions
  <2>2. Outside
    BY <1>13 DEF S!streamVars, queues, Outside
  <2>. QED
    BY <2>1, <2>2, FunctionsKeep
<1>. QED
  BY <1>1, <1>2, <1>3, <1>4, <1>5, <1>6, <1>7, <1>8, <1>9, <1>10, <1>11, <1>12, <1>13
     DEF S!StreamStep

LEMMA QueueStepKeeps ==
  ASSUME TransferIInv, ~Streaming, NEW x \in Parties, Q!QueueStep(x), UNCHANGED streams
  PROVE  TransferIInv'
<1>1. CASE x = "server" /\ Q!ServerGet
  BY <1>1, GetKeeps
<1>2. CASE x = "server" /\ Q!ServerEnd
  BY <1>2, QueueEndKeeps
<1>3. CASE x = "client" /\ Q!ClientGet
  BY <1>3, GetKeeps
<1>4. CASE x = "client" /\ Q!ClientRemove
  BY <1>4, RemoveKeeps
<1>5. CASE Q!Send(x)
  BY <1>5, SendKeeps
<1>6. CASE Q!Receive(x)
  BY <1>6, ReceiveKeeps
<1>7. CASE Q!Functions(x) /\ UNCHANGED Q!queueVars
  <2>1. Functions(x)
    BY <1>7, SameFunctions
  <2>2. Outside
    BY <1>7 DEF Q!queueVars, streams, Outside
  <2>. QED
    BY <2>1, <2>2, FunctionsKeep
<1>8. CASE Q!Fail(x) /\ UNCHANGED <<Q!dataVars, Q!queueVars>>
  BY <1>8, QueueEndKeeps
<1>. QED
  BY <1>1, <1>2, <1>3, <1>4, <1>5, <1>6, <1>7, <1>8 DEF Q!QueueStep

LEMMA StutterKeeps ==
  ASSUME TransferIInv, UNCHANGED vars
  PROVE  TransferIInv'
<1>1. /\ Still /\ at' = at /\ ends' = ends /\ live' = live /\ program' = program
  BY DEF vars, transferVars, streams, queues, Still
<1>2. Kinds /\ Opened /\ Present
  BY DEF TransferIInv
<1>3. client' = client /\ server' = server
  BY <1>1 DEF client, server
<1>4. ClientKeeps /\ ServerKeeps /\ at' \in [Parties -> Labels]
  BY <1>1, <1>2, <1>3 DEF ClientKeeps, ServerKeeps, Kinds
<1>5. Present'
  BY <1>1, <1>2, <1>3, StillSame DEF Present, Q!Keys
<1>6. Opened'
  <2>1. S!Named' = S!Named /\ S!Forks' = S!Forks /\ Streaming' = Streaming
    BY <1>1 DEF S!Named, S!Forks, Streaming
  <2>2. \A x : S!EndsOf(x)' = S!EndsOf(x)
    BY <1>1 DEF S!EndsOf
  <2>. QED
    BY <1>1, <1>2, <1>3, <2>1, <2>2, Zenon DEF Opened
<1>. QED
  BY <1>1, <1>3, <1>4, <1>5, <1>6, StillInvariant

LEMMA StepKeeps ==
  ASSUME TransferIInv, [Next]_vars
  PROVE  TransferIInv'
<1>1. CASE UNCHANGED vars
  BY <1>1, StutterKeeps
<1>2. ASSUME NEW x \in Parties, Step(x) PROVE TransferIInv'
  BY <1>2, StreamStepKeeps, QueueStepKeeps DEF Step
<1>3. ASSUME NEW x \in Parties, Killed(x) PROVE TransferIInv'
  BY <1>3, StreamEndKeeps, QueueEndKeeps DEF Killed
<1>. QED
  BY <1>1, <1>2, <1>3 DEF Next

-----------------------------------------------------------------------------
(* The theorems *)

LEMMA InitKeeps == ASSUME Init PROVE TransferIInv
<1>1. /\ client = "main" /\ server \in {"main", "unborn"} /\ at \in [Parties -> Labels]
      /\ Streaming /\ S!Forks => server = "unborn"
      /\ \A x \in Parties : at[x] \in {"main", "unborn"}
  BY DEF Init, client, server, Parties, Labels
<1>2. /\ name \in {Name, <<>>} /\ target \in Targets /\ offset = 0
      /\ buff = [x \in Parties |-> <<>>] /\ printed = <<>>
  BY DEF Init, TransferInit
<1>3. Streaming => /\ stream = [c \in S!Both |-> <<>>] /\ ends = {} /\ PIPE_BUF \in PIPE_BUFs
                   /\ written = [x \in Parties |-> 0] /\ mesg_len = [x \in Parties |-> 0]
  BY DEF Init, S!StreamsInit, S!Parties, Parties
<1>4. queue = [k \in {1, 2} |-> <<>>]
  BY DEF Init, Q!QueuesInit
<1>5. <<>> \in Seq(Any) /\ Len(<<>>) = 0
  OBVIOUS
<1>6. Len(Contents) \in Nat /\ Total \in Nat /\ Reply \in Seq(Any)
  BY ReplyIs
<1>7. Kinds
  <2>1. <<>> \in Seq([mesg_type : {1, 2}, text : Seq(Any)])
    OBVIOUS
  <2>2. program \in S!StreamPrograms \cup Q!QueuePrograms
    BY DEF Init
  <2>3. client \in Early /\ server \in Coming
    BY <1>1 DEF Early, Coming
  <2>4. \A x \in Parties : at[x] # "data"
    BY <1>1
  <2>5. /\ buff \in [Parties -> Seq(Any)] /\ printed \in Seq(Any) /\ offset \in 0 .. Len(Contents)
        /\ name \in {Name, <<>>} /\ target \in Targets
    BY <1>2, <1>5, <1>6
  <2>6. Streaming => /\ stream \in [S!Both -> Seq(Any)] /\ written \in [Parties -> Nat]
                     /\ DOMAIN mesg_len = Parties /\ PIPE_BUF \in PIPE_BUFs
    <3>1. [c \in S!Both |-> <<>>] \in [S!Both -> Seq(Any)]
      BY <1>5
    <3>2. /\ [x \in Parties |-> 0] \in [Parties -> Nat]
          /\ DOMAIN [x \in Parties |-> 0] = Parties
      OBVIOUS
    <3>. QED
      BY <1>3, <3>1, <3>2, Zenon
  <2>7. queue \in [{1, 2} -> Seq([mesg_type : {1, 2}, text : Seq(Any)])]
    BY <1>4, <2>1
  <2>. QED
    BY <1>1, <2>2, <2>3, <2>4, <2>5, <2>6, <2>7 DEF Kinds
<1>8. Opened
  <2>1. \A x \in Parties : at[x] \notin Talking /\ at[x] # "opening"
    BY <1>1 DEF Talking
  <2>2. Streaming => \A x : S!EndsOf(x) = {}
    BY <1>3 DEF S!EndsOf
  <2>. QED
    BY <1>1, <2>1, <2>2 DEF Opened
<1>9. Present
  <2>1. ~Streaming => server = "main"
    BY DEF Init, server, Parties
  <2>. QED
    BY <1>1, <2>1 DEF Present
<1>10. Part(Reply, <<>>, 0)
  BY <1>5, <1>6 DEF Part, Total
<1>11. /\ Taken = 0 /\ Sent = 0 /\ server \notin Sends \cup Serving \cup Lost
       /\ client \in Early \ {"send"} /\ server \in Coming \ {"data"}
  BY <1>1, <1>2, <1>5 DEF Taken, Sent, Sends, Serving, Lost, Early, Coming
<1>12. OnStream
  <2>1. SUFFICES ASSUME Streaming PROVE OnStream
    BY DEF OnStream
  <2>2. Came = <<>> /\ written["client"] = 0
    BY <1>3, <1>11, <2>1 DEF Came, S!Both, Parties
  <2>3. Len(Asked) \in Nat
    BY <1>7, NameIs
  <2>4. client \notin Late
    BY <1>1 DEF Late
  <2>. QED
    BY <1>5, <1>11, <2>2, <2>3, <2>4 DEF OnStream
<1>13. NameSent /\ Served /\ Correct
  BY <1>1, <1>2, <1>10, <1>11 DEF NameSent, Served, Correct, Sends
<1>14. Plain
  BY <1>3, <1>5, <1>10, <1>11 DEF Plain, S!Both, Parties
<1>15. Splits
  BY <1>3, <1>11 DEF Splits, Parties
<1>16. Framed
  <2>1. SUFFICES ASSUME Streaming, S!Header PROVE Framed
    BY DEF Framed
  <2>2. Whole = <<>> /\ written["server"] = 0
    BY <1>1, <1>3, <2>1 DEF Whole, S!Both, Parties
  <2>3. PICK mark : mark = [k \in {} |-> 0]
    OBVIOUS
  <2>4. mark \in Marks(Reply, Len(Whole)) /\ DOMAIN mark = {}
    <3>1. mark \in [{} -> 0 .. Len(Reply)] /\ DOMAIN mark = {}
      BY <2>3
    <3>2. {} \in SUBSET (1 .. Len(Whole))
      OBVIOUS
    <3>. QED
      BY <3>1, <3>2 DEF Marks
  <2>5. Frames(Reply, Whole, mark) /\ First(Whole, mark, Taken)
    BY <2>2, <2>4 DEF Frames, First
  <2>6. LastFrame(Whole, mark, written["server"], Taken, Sent, Len(Text))
    BY <1>11, <2>2, <2>4 DEF LastFrame, AllWhole
  <2>. QED
    BY <1>1, <2>4, <2>5, <2>6 DEF Framed
<1>17. Queued
  BY <1>1, <1>4, <1>11 DEF Queued, Boxed, Late
<1>18. Justified
  BY <1>1 DEF Justified
<1>. QED
  BY <1>7, <1>8, <1>9, <1>12, <1>13, <1>14, <1>15, <1>16, <1>17, <1>18 DEF TransferIInv, Carried

\* What the programs on the kernel's streams and queues keep.
THEOREM TransferInvariant == Spec => []TransferIInv
BY InitKeeps, StepKeeps, PTL DEF Spec

LEMMA NoErrorUnexcused == ASSUME TransferIInv PROVE ErrorsJustified
BY DEF TransferIInv, Justified, ErrorsJustified, Excused

\* err_sys is for a bad name or a killed partner.
THEOREM TransferErrors == Spec => []ErrorsJustified
BY TransferInvariant, NoErrorUnexcused, PTL

Prints == client = "print" /\ printed' = printed \o buff["client"]

LEMMA FunctionPrints ==
  ASSUME NEW x, Functions(x)
  PROVE  name' = name /\ target' = target /\ (printed' = printed \/ Prints)
BY DEF Functions, ClientName, ClientPrint, ServerOpen, ServerFile, At, dataVars, client, Prints

LEMMA StreamPrints ==
  ASSUME NEW x \in Parties, S!StreamStep(x) \/ S!StreamKill(x)
  PROVE  name' = name /\ target' = target /\ (printed' = printed \/ Prints)
<1>1. CASE x = S!Creator /\ S!Create
  BY <1>1 DEF S!Create, S!dataVars
<1>2. CASE x = "client" /\ S!Fork
  BY <1>2 DEF S!Fork, S!dataVars
<1>3. CASE x = "client" /\ S!ClientStart
  BY <1>3 DEF S!ClientStart, S!dataVars
<1>4. CASE x = "client" /\ S!ClientEnd
  BY <1>4 DEF S!ClientEnd, S!dataVars
<1>5. CASE x = "server" /\ S!ServerEnd
  BY <1>5 DEF S!ServerEnd, S!dataVars
<1>6. CASE \E c \in S!Both : S!OpenBoth(c)
  BY <1>6 DEF S!OpenBoth, S!dataVars
<1>7. CASE S!CloseUnused(x)
  BY <1>7 DEF S!CloseUnused, S!dataVars
<1>8. CASE S!Write(x)
  BY <1>8 DEF S!Write, S!dataVars
<1>9. CASE S!ReadText(x)
  BY <1>9 DEF S!ReadText
<1>10. CASE S!ReadHeader(x)
  BY <1>10 DEF S!ReadHeader, S!dataVars
<1>11. CASE S!ReadData(x)
  BY <1>11 DEF S!ReadData
<1>12. CASE S!Fails(x) \/ S!StreamKill(x)
  BY <1>12 DEF S!Fails, S!StreamKill, S!dataVars
<1>13. CASE S!Functions(x)
  BY <1>13, SameFunctions, FunctionPrints
<1>. QED
  BY <1>1, <1>2, <1>3, <1>4, <1>5, <1>6, <1>7, <1>8, <1>9, <1>10, <1>11, <1>12, <1>13
     DEF S!StreamStep

LEMMA QueuePrints ==
  ASSUME NEW x \in Parties, Q!QueueStep(x) \/ Q!QueueKill(x)
  PROVE  name' = name /\ target' = target /\ (printed' = printed \/ Prints)
<1>1. CASE Q!ServerGet \/ Q!ClientGet
  BY <1>1 DEF Q!ServerGet, Q!ClientGet, Q!dataVars
<1>2. CASE Q!ServerEnd \/ Q!ClientRemove
  BY <1>2 DEF Q!ServerEnd, Q!ClientRemove, Q!dataVars
<1>3. CASE Q!Send(x)
  BY <1>3 DEF Q!Send, Q!dataVars
<1>4. CASE Q!Receive(x)
  BY <1>4 DEF Q!Receive, Q!dataVars
<1>5. CASE Q!Functions(x)
  BY <1>5, SameFunctions, FunctionPrints
<1>6. CASE Q!Fail(x) /\ UNCHANGED <<Q!dataVars, Q!queueVars>>
  BY <1>6 DEF Q!dataVars
<1>7. CASE Q!QueueKill(x)
  BY <1>7 DEF Q!QueueKill, Q!dataVars
<1>. QED
  BY <1>1, <1>2, <1>3, <1>4, <1>5, <1>6, <1>7 DEF Q!QueueStep

\* A step that prints takes the next part of the reply.
LEMMA StepPrints ==
  ASSUME TransferIInv, TransferIInv', [Next]_vars
  PROVE  [FT!PrintSome]_(FT!vars)
<1>1. name' = name /\ target' = target /\ (printed' = printed \/ Prints)
  BY StreamPrints, QueuePrints DEF Next, Step, Killed, vars, transferVars, dataVars
<1>2. Reply' = Reply
  BY <1>1 DEF Reply, Answerable, Contents
<1>3. CASE printed' = printed
  BY <1>2, <1>3, SMTT(30) DEF FT!vars
<1>4. CASE Prints /\ printed' # printed
  <2>1. /\ Part(Reply, printed', 0) /\ printed \in Seq(Any) /\ printed' \in Seq(Any)
        /\ buff["client"] \in Seq(Any) /\ Reply \in Seq(Any)
    BY <1>2, ReplyIs DEF TransferIInv, Carried, Correct, Kinds, Parties
  <2>2. PICK text \in Seq(Any) : text = buff["client"]
    BY <2>1
  <2>3. Len(printed') = Len(printed) + Len(text)
    BY <1>4, <2>1, <2>2, Join DEF Prints
  <2>4. Len(text) # 0
    <3>1. SUFFICES ASSUME Len(text) = 0 PROVE FALSE
      OBVIOUS
    <3>2. text = <<>>
      BY <3>1
    <3>. QED
      BY <1>4, <2>1, <2>2, <3>2 DEF Prints
  <2>5. printed' = SubSeq(Reply, 1, Len(printed'))
    BY <2>1, PartIsAll
  <2>6. Len(printed') \in Len(printed) + 1 .. Len(Reply)
    BY <2>1, <2>3, <2>4 DEF Part
  <2>. QED
    BY <1>2, <2>5, <2>6 DEF FT!PrintSome
<1>. QED
  BY <1>1, <1>3, <1>4

LEMMA StartsPrinting == ASSUME Init PROVE FT!Init
BY DEF Init, TransferInit, FT!Init, FT!Replies, Reply, Contents, Answerable, Targets

\* What the client prints is the reply, from its beginning and in order: the programs on
\* streams and queues implement FileTransfer, whoever is killed.
THEOREM TransferPrints == Spec => PrintsInOrder
<1>1. Init => TransferIInv /\ FT!Init
  BY InitKeeps, StartsPrinting
<1>2. TransferIInv /\ [Next]_vars => TransferIInv' /\ [FT!PrintSome]_(FT!vars)
  BY StepKeeps, StepPrints
<1>3. PrintsInOrder <=> FT!Init /\ [][FT!PrintSome]_(FT!vars)
  BY PTL DEF PrintsInOrder, FT!Spec
<1>. QED
  BY <1>1, <1>2, <1>3, PTL DEF Spec

-----------------------------------------------------------------------------
(* The bounds of the buffers, the streams and the queues *)

KnownNames ==
  /\ fifos \subseteq {1, 2} /\ live \subseteq {1, 2}
  /\ ends \subseteq Parties \X {1, 2} \X {"read", "write"}

BuffersHold == \A x \in Parties : Len(buff[x]) =< MAXBUFF

StreamsHold == \A c \in DOMAIN stream : Len(stream[c]) =< Capacity

\* A queue is as full as it has units of text, each known by its message and its place.
Units(q) == UNION {{j} \X DOMAIN q[j].text : j \in DOMAIN q}
QueuesHold == \A k \in {1, 2} :
  /\ IsFiniteSet(Units(queue[k])) /\ Cardinality(Units(queue[k])) =< msg_qbytes
  /\ \A j \in DOMAIN queue[k] : Len(queue[k][j].text) =< MAXBUFF

Bounds == KnownNames /\ BuffersHold /\ StreamsHold /\ QueuesHold

LEMMA StreamNames ==
  ASSUME KnownNames, NEW x \in Parties, S!StreamStep(x) \/ S!StreamKill(x), UNCHANGED queues
  PROVE  KnownNames'
<1>. DEFINE All == Parties \X {1, 2} \X {"read", "write"}
<1>. SUFFICES fifos' \subseteq {1, 2} /\ ends' \subseteq All
  BY DEF KnownNames, queues
<1>1. \A y \in Parties : S!Kept(y) \subseteq All
  BY DEF S!Kept, S!In, S!Out, Parties
<1>2. fifos \subseteq {1, 2} /\ ends \subseteq All
  BY DEF KnownNames
<1>3. CASE S!Create
  <2>1. {S!Creator} \X {1, 2} \X {"read", "write"} \subseteq All
    BY DEF S!Creator, Parties
  <2>. QED
    BY <1>2, <1>3, <2>1 DEF S!Create, S!Both
<1>4. CASE S!Fork
  BY <1>2, <1>4 DEF S!Fork, S!Both, S!Parties, Parties
<1>5. CASE S!ClientStart
  BY <1>2, <1>5 DEF S!ClientStart, S!streamVars
<1>6. CASE S!ClientEnd \/ S!ServerEnd
  BY <1>2, <1>6 DEF S!ClientEnd, S!ServerEnd, S!Closes
<1>7. ASSUME NEW c \in S!Both, S!OpenBoth(c)
      PROVE  fifos' \subseteq {1, 2} /\ ends' \subseteq All
  <2>1. ends' = ends \cup {e \in S!Kept("client") \cup S!Kept("server") : e[2] = c}
        /\ fifos' = fifos
    BY <1>7 DEF S!OpenBoth
  <2>. QED
    BY <1>1, <1>2, <2>1 DEF Parties
<1>8. CASE S!CloseUnused(x)
  <2>1. ends' = (ends \ S!EndsOf(x)) \cup S!Kept(x) /\ fifos' = fifos
    BY <1>8 DEF S!CloseUnused
  <2>. QED
    BY <1>1, <1>2, <2>1
<1>9. CASE S!Write(x)
  BY <1>2, <1>9 DEF S!Write
<1>10. CASE S!ReadText(x) \/ S!ReadHeader(x) \/ S!ReadData(x)
  BY <1>2, <1>10 DEF S!ReadText, S!ReadHeader, S!ReadData
<1>11. CASE S!Fails(x) \/ S!StreamKill(x)
  BY <1>2, <1>11 DEF S!Fails, S!StreamKill, S!Closes
<1>12. CASE UNCHANGED S!streamVars
  BY <1>2, <1>12 DEF S!streamVars
<1>. QED
  BY <1>3, <1>4, <1>5, <1>6, <1>7, <1>8, <1>9, <1>10, <1>11, <1>12 DEF S!StreamStep

LEMMA QueueNames ==
  ASSUME KnownNames, NEW x \in Parties, Q!QueueStep(x) \/ Q!QueueKill(x), UNCHANGED streams
  PROVE  KnownNames'
<1>. SUFFICES live' \subseteq {1, 2}
  BY DEF KnownNames, streams
<1>1. live \subseteq {1, 2}
  BY DEF KnownNames
<1>2. CASE Q!ServerGet
  BY <1>1, <1>2 DEF Q!ServerGet, Q!Keys
<1>3. CASE Q!ClientGet \/ Q!ServerEnd
  BY <1>1, <1>3 DEF Q!ClientGet, Q!ServerEnd, Q!queueVars
<1>4. CASE Q!ClientRemove
  BY <1>4 DEF Q!ClientRemove
<1>5. CASE Q!Send(x) \/ Q!Receive(x)
  BY <1>1, <1>5 DEF Q!Send, Q!Receive, Q!queueVars
<1>6. CASE UNCHANGED Q!queueVars
  BY <1>1, <1>6 DEF Q!queueVars
<1>. QED
  BY <1>2, <1>3, <1>4, <1>5, <1>6 DEF Q!QueueStep, Q!QueueKill

\* Two lengths add up.
LEMMA JoinHolds ==
  ASSUME NEW s \in Seq(Any), NEW f \in Seq(Any), NEW w \in Nat, NEW n \in Int, w + n =< Len(f),
         NEW c, Len(s) =< c, Len(s) + n =< c
  PROVE  Len(s \o SubSeq(f, w + 1, w + n)) =< c
<1>1. \A j \in w + 1 .. w + n : f[j] \in Any
  <2>1. \A j \in w + 1 .. w + n : j \in 1 .. Len(f)
    OBVIOUS
  <2>. QED
    BY <2>1, ElementOfSeq
<1>2. w + 1 \in Int /\ w + n \in Int
  OBVIOUS
<1>3. PICK t : t = SubSeq(f, w + 1, w + n)
  OBVIOUS
<1>4. t \in Seq(Any) /\ Len(t) = IF w + 1 =< w + n THEN (w + n) - (w + 1) + 1 ELSE 0
  BY <1>1, <1>2, <1>3, SubSeqProperties
<1>5. Len(s \o t) = Len(s) + Len(t)
  BY <1>4, Join
<1>6. Len(t) = n \/ Len(t) = 0
  BY <1>4
<1>. QED
  BY <1>3, <1>5, <1>6

LEMMA FrameIs ==
  ASSUME Kinds, NEW x \in Parties, NEW here
  PROVE  S!Frame(x, here) \in Seq(Any) /\ Len(S!Frame(x, here)) \in Nat
<1>1. \A y \in Parties : buff[y] \in Seq(Any) /\ Len(buff[y]) \in Nat
  BY DEF Kinds
<1>2. <<>> \in Seq(Any) /\ <<0>> \in Seq(Any)
  BY Texts
<1>3. S!Frame(x, here) \in Seq(Any)
  BY <1>1, <1>2, Prefixed, Texts DEF S!Frame
<1>. QED
  BY <1>3

\* write puts nothing into a stream that is full.
LEMMA WriteHolds ==
  ASSUME Kinds, Streaming, StreamsHold, NEW x \in Parties, S!Write(x)
  PROVE  StreamsHold'
<1>1. Writes(x)
  BY WriteCases
<1>2. PICK s \in SendsOf(x) :
        \/ stream' = stream
        \/ \E n \in IF Len(S!Frame(x, s[1])) =< PIPE_BUF
                    THEN {Len(S!Frame(x, s[1])) - written[x]}
                    ELSE 1 .. Len(S!Frame(x, s[1])) - written[x] :
             /\ Len(stream[S!Out(x)]) + n =< Capacity
             /\ stream' = [stream EXCEPT
                  ![S!Out(x)] = @ \o SubSeq(S!Frame(x, s[1]), written[x] + 1, written[x] + n)]
  BY <1>1 DEF Writes
<1>3. CASE stream' = stream
  BY <1>3 DEF StreamsHold
<1>4. ASSUME NEW n \in IF Len(S!Frame(x, s[1])) =< PIPE_BUF
                    THEN {Len(S!Frame(x, s[1])) - written[x]}
                    ELSE 1 .. Len(S!Frame(x, s[1])) - written[x],
             Len(stream[S!Out(x)]) + n =< Capacity,
             stream' = [stream EXCEPT
                  ![S!Out(x)] = @ \o SubSeq(S!Frame(x, s[1]), written[x] + 1, written[x] + n)]
      PROVE  StreamsHold'
  <2>1. PICK c : c = S!Out(x)
    OBVIOUS
  <2>2. stream \in [S!Both -> Seq(Any)] /\ c \in S!Both
    BY <2>1 DEF Kinds, S!Out, S!In, S!Both
  <2>3. PICK f \in Seq(Any) : f = S!Frame(x, s[1])
    BY FrameIs
  <2>4. PICK w \in Nat : w = written[x]
    BY DEF Kinds
  <2>5. PICK l \in Nat : l = Len(f)
    OBVIOUS
  <2>6. n \in Int /\ w + n =< l
    <3>1. n \in IF l =< PIPE_BUF THEN {l - w} ELSE 1 .. l - w
      BY <1>4, <2>3, <2>4, <2>5
    <3>. QED
      BY <3>1, Amounts
  <2>7. PICK old \in Seq(Any) : old = stream[c]
    BY <2>2
  <2>8. Len(old) =< Capacity /\ Len(old) + n =< Capacity
    BY <1>4, <2>1, <2>2, <2>7 DEF StreamsHold
  <2>9. Len(old \o SubSeq(f, w + 1, w + n)) =< Capacity
    BY <2>5, <2>6, <2>8, JoinHolds
  <2>10. stream' = [stream EXCEPT ![c] = old \o SubSeq(f, w + 1, w + n)]
    BY <1>4, <2>1, <2>2, <2>3, <2>4, <2>7
  <2>11. \A k \in S!Both : stream'[k] = IF k = c THEN old \o SubSeq(f, w + 1, w + n) ELSE stream[k]
    BY <2>2, <2>10
  <2>12. DOMAIN stream' = S!Both /\ DOMAIN stream = S!Both
    BY <2>2, <2>10
  <2>. QED
    BY <2>9, <2>11, <2>12 DEF StreamsHold
<1>. QED
  BY <1>3, <1>4, <1>2

LEMMA TakeHolds ==
  ASSUME Kinds, Streaming, StreamsHold, NEW x \in Parties, NEW n \in Nat, Takes(x, n),
         n =< Len(stream[S!In(x)])
  PROVE  StreamsHold'
<1>1. stream \in [S!Both -> Seq(Any)] /\ S!In(x) \in S!Both
      /\ \A c \in S!Both : c = S!In(x) \/ c = S!Out(x)
  BY DEF Kinds, S!Out, S!In, S!Both
<1>2. PICK s \in Seq(Any) : s = stream[S!In(x)]
  BY <1>1
<1>3. PICK l \in Nat : l = Len(s)
  OBVIOUS
<1>4. Len(SubSeq(s, n + 1, l)) = l - n
  BY <1>2, <1>3, Slice
<1>5. l =< Capacity
  BY <1>1, <1>2, <1>3 DEF StreamsHold
<1>6. Len(stream'[S!In(x)]) =< Capacity
  <2>1. Len(stream'[S!In(x)]) = l - n
    BY <1>2, <1>3, <1>4 DEF Takes
  <2>. QED
    BY <1>5, <2>1, KernelAssumption
<1>7. Len(stream'[S!Out(x)]) =< Capacity
  BY <1>1 DEF StreamsHold, Takes, S!Out, S!In, S!Both
<1>8. DOMAIN stream' = S!Both
  BY DEF Takes
<1>. QED
  BY <1>1, <1>6, <1>7, <1>8 DEF StreamsHold

LEMMA FillHolds ==
  ASSUME Kinds, Streaming, BuffersHold, NEW x \in Parties, NEW n \in Nat, Fills(x, n),
         n =< Len(stream[S!In(x)]), n =< MAXBUFF
  PROVE  BuffersHold'
<1>1. stream[S!In(x)] \in Seq(Any)
  BY DEF Kinds, S!In, S!Both
<1>2. PICK s \in Seq(Any) : s = stream[S!In(x)]
  BY <1>1
<1>3. Len(SubSeq(s, 1, n)) = n
  <2>1. Len(SubSeq(s, 0 + 1, n)) = n - 0
    BY <1>2, Slice
  <2>2. 0 + 1 = 1 /\ n - 0 = n
    OBVIOUS
  <2>. QED
    BY <2>1, <2>2
<1>4. Len(buff'[x]) = n
  BY <1>2, <1>3 DEF Fills
<1>. QED
  BY <1>4 DEF Fills, BuffersHold

LEMMA FunctionHolds ==
  ASSUME Kinds, BuffersHold, NEW x, Functions(x)
  PROVE  BuffersHold'
<1>1. buff \in [Parties -> Seq(Any)] /\ name \in {Name, <<>>}
  BY DEF Kinds
<1>2. CASE ClientName
  <2>1. Len(name) =< MAXBUFF
    BY <1>1, Texts
  <2>. QED
    BY <1>1, <1>2, <2>1 DEF ClientName, BuffersHold
<1>3. CASE ClientPrint
  BY <1>3 DEF ClientPrint, BuffersHold
<1>4. CASE ServerOpen
  BY <1>1, <1>4, Texts DEF ServerOpen, BuffersHold
<1>5. CASE ServerFile
  <2>1. CASE UNCHANGED dataVars
    BY <2>1 DEF dataVars, BuffersHold
  <2>2. CASE ~UNCHANGED dataVars
    <3>1. PICK n : n = Smaller(MAXBUFF, Len(Contents) - offset)
      OBVIOUS
    <3>2. PICK o \in Nat : o = offset
      BY ReplyIs DEF Kinds
    <3>3. PICK c \in Nat : c = Len(Contents) /\ o =< c
      BY <3>2, ReplyIs DEF Kinds
    <3>4. n \in Nat /\ n =< MAXBUFF /\ o + n =< c
      BY <3>1, <3>2, <3>3, Texts DEF Smaller
    <3>5. buff' = [buff EXCEPT !["server"] = SubSeq(Contents, o + 1, o + n)]
      BY <1>5, <2>2, <3>1, <3>2 DEF ServerFile
    <3>6. Len(SubSeq(Contents, o + 1, o + n)) = n
      <4>1. o + n \in Nat /\ o =< o + n /\ (o + n) - o = n
        BY <3>4
      <4>2. Len(SubSeq(Contents, o + 1, o + n)) = (o + n) - o
        BY <3>3, <3>4, <4>1, ReplyIs, Slice
      <4>. QED
        BY <4>1, <4>2
    <3>. QED
      BY <1>1, <3>4, <3>5, <3>6 DEF BuffersHold
  <2>. QED
    BY <2>1, <2>2
<1>. QED
  BY <1>2, <1>3, <1>4, <1>5 DEF Functions

\* The header says no more than the buffer holds.
LEMMA HeaderHolds ==
  ASSUME TransferIInv, Streaming, NEW x \in Parties, at[x] = "data"
  PROVE  mesg_len[x] \in Nat /\ mesg_len[x] =< MAXBUFF
<1>1. Kinds /\ Framed /\ OnStream
  BY DEF TransferIInv, Carried
<1>2. S!Header /\ \A c \in {1, 2} : stream[c] \in Seq(Any)
  BY <1>1 DEF Kinds, S!Both
<1>3. CASE x = "client"
  <2>1. client = "data"
    BY <1>3 DEF client
  <2>2. PICK s \in Seq(Any) : s = stream[2]
    BY <1>2
  <2>3. PICK m : m = mesg_len["client"]
    OBVIOUS
  <2>4. /\ m \in Nat /\ Whole[1] = m
        /\ \E mark \in Marks(Reply, Len(Whole)) :
             Holds(Whole, mark) /\ Whole # <<>> /\ 1 \in DOMAIN mark
    BY <1>1, <1>2, <2>1, <2>2, <2>3, FirstFrame
  <2>5. PICK mark : Frames(Reply, Whole, mark) /\ 1 \in DOMAIN mark
    BY <2>4 DEF Holds
  <2>6. Whole[1] =< MAXBUFF
    BY <2>5, FrameAt
  <2>. QED
    BY <1>3, <2>3, <2>4, <2>6
<1>4. CASE x = "server"
  <2>1. server = "data"
    BY <1>4 DEF server
  <2>2. PICK s \in Seq(Any) : s = stream[1]
    BY <1>2
  <2>3. mesg_len["server"] = Len(name) /\ Len(name) \in Nat
    BY <1>1, <1>2, <2>1, <2>2, ServerName
  <2>4. Len(name) =< MAXBUFF
    BY <1>1, Texts DEF Kinds
  <2>. QED
    BY <1>4, <2>3, <2>4
<1>. QED
  BY <1>3, <1>4 DEF Parties

\* The queue and the buffers and streams, when a stream program goes on.
LEMMA StreamBounds ==
  ASSUME TransferIInv, Streaming, BuffersHold, StreamsHold, NEW x \in Parties,
         S!StreamStep(x) \/ S!StreamKill(x), UNCHANGED queues
  PROVE  BuffersHold' /\ StreamsHold'
<1>1. Kinds
  BY DEF TransferIInv
<1>2. buff' = buff => BuffersHold'
  BY DEF BuffersHold
<1>3. stream' = stream => StreamsHold'
  BY DEF StreamsHold
<1>4. CASE S!Create \/ S!Fork \/ S!ClientEnd \/ S!ServerEnd
  BY <1>2, <1>3, <1>4 DEF S!Create, S!Fork, S!ClientEnd, S!ServerEnd, S!dataVars
<1>5. CASE S!ClientStart
  BY <1>2, <1>3, <1>5 DEF S!ClientStart, S!dataVars, S!streamVars
<1>6. CASE (\E c \in S!Both : S!OpenBoth(c)) \/ S!CloseUnused(x)
  BY <1>2, <1>3, <1>6 DEF S!OpenBoth, S!CloseUnused, S!dataVars
<1>7. CASE S!Fails(x) \/ S!StreamKill(x)
  BY <1>2, <1>3, <1>7 DEF S!Fails, S!StreamKill, S!dataVars
<1>8. CASE S!Write(x)
  <2>1. buff' = buff
    BY <1>8 DEF S!Write, S!dataVars
  <2>. QED
    BY <1>1, <1>2, <1>8, <2>1, WriteHolds
<1>9. CASE S!ReadText(x)
  <2>1. CASE Still
    BY <1>2, <1>3, <2>1 DEF Still, dataVars
  <2>2. CASE ~Still
    <3>1. PICK l \in Nat, n \in Nat :
            /\ l = Len(stream[S!In(x)]) /\ n =< l /\ n =< MAXBUFF
            /\ Takes(x, n) /\ Fills(x, n)
      BY <1>1, <1>9, <2>2, ReadTextIs
    <3>. QED
      BY <1>1, <3>1, TakeHolds, FillHolds
  <2>. QED
    BY <2>1, <2>2
<1>10. CASE S!ReadHeader(x)
  <2>1. buff' = buff
    BY <1>10 DEF S!ReadHeader, S!dataVars
  <2>2. CASE Still
    <3>1. stream' = stream
      BY <2>2, Zenon DEF Still
    <3>. QED
      BY <1>2, <1>3, <2>1, <3>1
  <2>3. CASE ~Still
    <3>1. stream[S!In(x)] # <<>> /\ Takes(x, 1)
      BY <1>1, <1>10, <2>3, ReadHeaderIs DEF CutHeader
    <3>2. stream[S!In(x)] \in Seq(Any)
      BY <1>1 DEF Kinds, S!In, S!Both
    <3>3. 1 =< Len(stream[S!In(x)])
      BY <3>1, <3>2
    <3>4. StreamsHold'
      BY <1>1, <3>1, <3>3, TakeHolds
    <3>. QED
      BY <1>2, <2>1, <3>4
  <2>. QED
    BY <1>2, <2>1, <2>2, <2>3
<1>11. CASE S!ReadData(x)
  <2>1. at[x] = "data"
    BY <1>11 DEF S!ReadData
  <2>2. PICK m \in Nat : m = mesg_len[x] /\ m =< MAXBUFF
    BY <2>1, HeaderHolds
  <2>3. PICK l \in Nat, n \in Nat :
          /\ l = Len(stream[S!In(x)]) /\ n =< l /\ Takes(x, n) /\ Fills(x, n)
          /\ \/ n = m /\ At(x, "data", Got(x))
             \/ n < m /\ n = l /\ At(x, "data", "error")
    BY <1>1, <1>11, <2>2, ReadDataIs
  <2>4. n =< MAXBUFF
    BY <2>2, <2>3, Texts
  <2>. QED
    BY <1>1, <2>3, <2>4, TakeHolds, FillHolds
<1>12. CASE S!Functions(x) /\ UNCHANGED S!streamVars
  <2>1. stream' = stream
    BY <1>12 DEF S!streamVars
  <2>. QED
    BY <1>1, <1>3, <1>12, <2>1, SameFunctions, FunctionHolds
<1>. QED
  BY <1>4, <1>5, <1>6, <1>7, <1>8, <1>9, <1>10, <1>11, <1>12 DEF S!StreamStep

\* A message adds the units of its text.
LEMMA UnitsAppend ==
  ASSUME NEW q \in Seq(Mesgs), IsFiniteSet(Units(q)), NEW m \in Mesgs
  PROVE  /\ IsFiniteSet(Units(Append(q, m)))
         /\ Cardinality(Units(Append(q, m))) =< Cardinality(Units(q)) + Len(m.text)
<1>1. PICK l \in Nat : l = Len(q)
  OBVIOUS
<1>2. m.text \in Seq(Any)
  BY DEF Mesgs
<1>3. PICK t \in Nat : t = Len(m.text)
  BY <1>2
<1>4. DOMAIN m.text = 1 .. t
  BY <1>2, <1>3
<1>5. PICK new : new = {l + 1} \X (1 .. t)
  OBVIOUS
<1>6. IsFiniteSet(new) /\ Cardinality(new) = t
  <2>1. IsFiniteSet({l + 1}) /\ Cardinality({l + 1}) = 1
    BY FS_Singleton
  <2>2. IsFiniteSet(1 .. t) /\ Cardinality(1 .. t) = t
    <3>1. 1 \in Int /\ t \in Int
      OBVIOUS
    <3>2. IsFiniteSet(1 .. t) /\ Cardinality(1 .. t) = IF 1 > t THEN 0 ELSE t - 1 + 1
      BY <3>1, FS_Interval
    <3>. QED
      BY <3>2
  <2>3. IsFiniteSet({l + 1} \X (1 .. t))
        /\ Cardinality({l + 1} \X (1 .. t)) = Cardinality({l + 1}) * Cardinality(1 .. t)
    BY <2>1, <2>2, FS_Product
  <2>4. 1 * t = t
    OBVIOUS
  <2>. QED
    BY <1>5, <2>1, <2>2, <2>3, <2>4
<1>7. Units(Append(q, m)) = Units(q) \cup new
  <2>1. PICK a : a = Append(q, m)
    OBVIOUS
  <2>2. DOMAIN a = 1 .. l + 1 /\ DOMAIN q = 1 .. l /\ a[l + 1] = m
        /\ \A j \in 1 .. l : a[j] = q[j]
    BY <1>1, <2>1, AppendProperties
  <2>3. 1 .. l + 1 = (1 .. l) \cup {l + 1}
    BY <1>1
  <2>4. ASSUME NEW u
        PROVE  u \in Units(a) <=> u \in Units(q) \cup new
    <3>1. (\E j \in DOMAIN a : u \in {j} \X DOMAIN a[j].text)
            <=> (\E j \in DOMAIN q : u \in {j} \X DOMAIN q[j].text) \/ u \in new
      BY <1>4, <1>5, <2>2, <2>3
    <3>. QED
      BY <3>1 DEF Units
  <2>5. Units(a) = Units(q) \cup new
    BY <2>4
  <2>. QED
    BY <2>1, <2>5
<1>8. PICK old : old = Units(q)
  OBVIOUS
<1>9. /\ IsFiniteSet(old \cup new)
      /\ Cardinality(old \cup new) = Cardinality(old) + Cardinality(new) - Cardinality(old \cap new)
  BY <1>6, <1>8, FS_Union
<1>10. IsFiniteSet(old \cap new)
  BY <1>6, FS_Intersection
<1>11. Cardinality(old \cap new) \in Nat /\ Cardinality(old) \in Nat
  BY <1>8, <1>10, FS_CardinalityType
<1>12. Cardinality(old \cup new) =< Cardinality(old) + t
  BY <1>6, <1>9, <1>11
<1>. QED
  BY <1>3, <1>7, <1>8, <1>9, <1>12

\* The messages that stay are those before and those behind.
LEMMA WithoutIs ==
  ASSUME NEW q \in Seq(Mesgs), NEW i \in DOMAIN q
  PROVE  /\ Q!Without(q, i) \in Seq(Mesgs) /\ Len(Q!Without(q, i)) = Len(q) - 1
         /\ \A j \in 1 .. Len(q) - 1 :
              Q!Without(q, i)[j] = IF j < i THEN q[j] ELSE q[j + 1]
<1>1. PICK l \in Nat : l = Len(q)
  OBVIOUS
<1>2. i \in Nat /\ i >= 1 /\ i =< l
  BY <1>1
<1>3. PICK a : a = SubSeq(q, 1, i - 1)
  OBVIOUS
<1>4. a \in Seq(Mesgs) /\ Len(a) = i - 1 /\ \A j \in 1 .. i - 1 : a[j] = q[j]
  <2>1. i - 1 \in Nat /\ 0 =< i - 1 /\ i - 1 =< Len(q) /\ 0 + 1 = 1 /\ (i - 1) - 0 = i - 1
    BY <1>1, <1>2
  <2>2. /\ SubSeq(q, 0 + 1, i - 1) \in Seq(Mesgs) /\ Len(SubSeq(q, 0 + 1, i - 1)) = (i - 1) - 0
        /\ \A j \in 1 .. (i - 1) - 0 : SubSeq(q, 0 + 1, i - 1)[j] = q[0 + j]
    BY <2>1, Slice
  <2>3. \A j \in 1 .. i - 1 : 0 + j = j
    OBVIOUS
  <2>. QED
    BY <1>3, <2>1, <2>2, <2>3
<1>5. PICK b : b = SubSeq(q, i + 1, l)
  OBVIOUS
<1>6. b \in Seq(Mesgs) /\ Len(b) = l - i /\ \A j \in 1 .. l - i : b[j] = q[i + j]
  BY <1>1, <1>2, <1>5, Slice
<1>7. Q!Without(q, i) = a \o b
  BY <1>1, <1>3, <1>5 DEF Q!Without
<1>8. /\ a \o b \in Seq(Mesgs) /\ Len(a \o b) = Len(a) + Len(b)
      /\ \A j \in 1 .. Len(a) : (a \o b)[j] = a[j]
      /\ \A j \in 1 .. Len(b) : (a \o b)[Len(a) + j] = b[j]
  <2>1. a \in Seq(Mesgs) /\ b \in Seq(Mesgs)
    BY <1>4, <1>6
  <2>. QED
    BY <2>1, Join
<1>9. Len(a \o b) = l - 1
  BY <1>1, <1>2, <1>4, <1>6, <1>8
<1>10. ASSUME NEW j \in 1 .. l - 1
       PROVE  (a \o b)[j] = IF j < i THEN q[j] ELSE q[j + 1]
  <2>1. CASE j < i
    BY <1>2, <1>4, <1>8, <2>1
  <2>2. CASE ~(j < i)
    <3>1. PICK d \in 1 .. l - i : j = (i - 1) + d /\ j + 1 = i + d
      <4>1. j - (i - 1) \in 1 .. l - i /\ j = (i - 1) + (j - (i - 1)) /\ j + 1 = i + (j - (i - 1))
        BY <1>1, <1>2, <2>2
      <4>. QED
        BY <4>1
    <3>2. (a \o b)[j] = b[d] /\ b[d] = q[i + d]
      BY <1>4, <1>6, <1>8, <3>1
    <3>. QED
      BY <2>2, <3>1, <3>2
  <2>. QED
    BY <2>1, <2>2
<1>. QED
  BY <1>1, <1>7, <1>8, <1>9, <1>10

\* They have no more units than there were.
LEMMA UnitsWithout ==
  ASSUME NEW q \in Seq(Mesgs), IsFiniteSet(Units(q)), NEW i \in DOMAIN q
  PROVE  /\ IsFiniteSet(Units(Q!Without(q, i)))
         /\ Cardinality(Units(Q!Without(q, i))) =< Cardinality(Units(q))
<1>1. PICK l \in Nat : l = Len(q)
  OBVIOUS
<1>2. i \in 1 .. l /\ l - 1 \in Nat /\ DOMAIN q = 1 .. l
  BY <1>1
<1>3. PICK w \in Seq(Mesgs) : w = Q!Without(q, i)
  BY WithoutIs
<1>4. Len(w) = l - 1 /\ \A j \in 1 .. l - 1 : w[j] = IF j < i THEN q[j] ELSE q[j + 1]
  BY <1>1, <1>3, WithoutIs
<1>5. DOMAIN w = 1 .. l - 1
  BY <1>2, <1>4
<1>6. PICK old : old = Units(q)
  OBVIOUS
<1>7. PICK new : new = Units(w)
  OBVIOUS
<1>8. PICK f : f = [u \in new |-> <<IF u[1] < i THEN u[1] ELSE u[1] + 1, u[2]>>]
  OBVIOUS
<1>9. ASSUME NEW u \in new
      PROVE  /\ u = <<u[1], u[2]>> /\ u[1] \in 1 .. l - 1 /\ u[2] \in DOMAIN w[u[1]].text
             /\ f[u] \in old
             /\ f[u][1] = (IF u[1] < i THEN u[1] ELSE u[1] + 1) /\ f[u][2] = u[2]
  <2>1. PICK j \in 1 .. l - 1 : u \in {j} \X DOMAIN w[j].text
    BY <1>5, <1>7 DEF Units
  <2>2. u = <<u[1], u[2]>> /\ u[1] = j /\ u[2] \in DOMAIN w[j].text
    BY <2>1
  <2>3. PICK h \in 1 .. l : h = IF j < i THEN j ELSE j + 1
    BY <1>1
  <2>4. w[j] = q[h]
    BY <1>4, <2>3
  <2>5. f[u] = <<h, u[2]>>
    BY <1>8, <2>2, <2>3
  <2>6. <<h, u[2]>> \in {h} \X DOMAIN q[h].text
    BY <2>2, <2>4
  <2>7. f[u] \in old
    BY <1>2, <1>6, <2>5, <2>6 DEF Units
  <2>. QED
    BY <2>2, <2>3, <2>5, <2>7
<1>10. f \in Injection(new, old)
  <2>1. f \in [new -> old]
    BY <1>8, <1>9
  <2>2. ASSUME NEW u \in new, NEW v \in new, f[u] = f[v]
        PROVE  u = v
    <3>1. u[2] = v[2]
      BY <1>9, <2>2
    <3>2. u[1] \in Nat /\ v[1] \in Nat
          /\ (IF u[1] < i THEN u[1] ELSE u[1] + 1) = (IF v[1] < i THEN v[1] ELSE v[1] + 1)
      BY <1>2, <1>9, <2>2
    <3>3. u[1] = v[1]
      BY <1>2, <3>2
    <3>4. u = <<u[1], u[2]>> /\ v = <<v[1], v[2]>>
      BY <1>9
    <3>. QED
      BY <3>1, <3>3, <3>4
  <2>. QED
    BY <2>1, <2>2, Fun_IsInj
<1>. QED
  BY <1>3, <1>6, <1>7, <1>10, FS_Injection

LEMMA SizeIs == \A q : Q!Size(q) = Cardinality(Units(q))
<1>1. \A T : Q!Cardinality(T) = Cardinality(T)
  BY DEF Q!Cardinality, Cardinality
<1>. QED
  BY <1>1 DEF Q!Size, Units

\* A queue that holds the bounds, without its number.
Bounded(q) ==
  /\ IsFiniteSet(Units(q)) /\ Cardinality(Units(q)) =< msg_qbytes
  /\ \A j \in DOMAIN q : Len(q[j].text) =< MAXBUFF

LEMMA EmptyHolds == Bounded(<<>>)
<1>1. Units(<<>>) = {} /\ DOMAIN <<>> = {}
  BY DEF Units
<1>. QED
  BY <1>1, FS_EmptySet, KernelAssumption DEF Bounded

\* msgsnd puts nothing into a queue that is full.
LEMMA SendHolds ==
  ASSUME TransferIInv, ~Streaming, BuffersHold, QueuesHold, NEW x \in Parties, Q!Send(x),
         UNCHANGED streams
  PROVE  QueuesHold'
<1>1. Kinds
  BY DEF TransferIInv
<1>2. PICK s \in SendsOf(x) :
        \/ queue' = queue
        \/ /\ Q!Size(queue[Q!QOut(x)]) + Len(IF s[1] = "end" THEN <<>> ELSE buff[x]) =< msg_qbytes
           /\ queue' = [queue EXCEPT ![Q!QOut(x)] =
                Append(@, [mesg_type |-> Q!TypeOf(x),
                           text |-> IF s[1] = "end" THEN <<>> ELSE buff[x]])]
  BY SameFunctions DEF Q!Send
<1>3. CASE queue' = queue
  BY <1>3 DEF QueuesHold
<1>4. CASE queue' # queue
  <2>1. PICK text : text = IF s[1] = "end" THEN <<>> ELSE buff[x]
    OBVIOUS
  <2>2. text \in Seq(Any) /\ Len(text) =< MAXBUFF /\ Len(text) \in Nat
    <3>1. <<>> \in Seq(Any) /\ Len(<<>>) = 0 /\ 0 =< MAXBUFF
      BY Texts
    <3>2. buff[x] \in Seq(Any) /\ Len(buff[x]) =< MAXBUFF
      BY <1>1 DEF Kinds, BuffersHold
    <3>3. text \in Seq(Any) /\ Len(text) =< MAXBUFF
      BY <2>1, <3>1, <3>2
    <3>. QED
      BY <3>3
  <2>3. PICK c \in {1, 2} : c = Q!QOut(x)
    BY DEF Q!QOut
  <2>4. PICK m : m = [mesg_type |-> Q!TypeOf(x), text |-> text]
    OBVIOUS
  <2>5. m \in Mesgs /\ m.text = text
    BY <2>2, <2>4 DEF Mesgs, Q!TypeOf
  <2>6. queue \in [{1, 2} -> Seq(Mesgs)]
    BY <1>1, RepliesIn
  <2>7. PICK q \in Seq(Mesgs) : q = queue[c]
    BY <2>6
  <2>8. /\ Q!Size(q) + Len(text) =< msg_qbytes
        /\ queue' = [queue EXCEPT ![c] = Append(q, m)]
    BY <1>2, <1>4, <2>1, <2>3, <2>4, <2>6, <2>7
  <2>9. IsFiniteSet(Units(q)) /\ \A j \in DOMAIN q : Len(q[j].text) =< MAXBUFF
    BY <2>7 DEF QueuesHold
  <2>10. PICK n \in Nat : n = Cardinality(Units(q))
    BY <2>9, FS_CardinalityType
  <2>11. n + Len(text) =< msg_qbytes
    BY <2>8, <2>10, SizeIs
  <2>12. /\ IsFiniteSet(Units(Append(q, m)))
         /\ Cardinality(Units(Append(q, m))) =< n + Len(text)
    BY <2>5, <2>9, <2>10, UnitsAppend
  <2>13. Cardinality(Units(Append(q, m))) =< msg_qbytes
    <3>1. Cardinality(Units(Append(q, m))) \in Nat
      BY <2>12, FS_CardinalityType
    <3>. QED
      BY <2>2, <2>11, <2>12, <3>1, KernelAssumption
  <2>14. \A j \in DOMAIN Append(q, m) : Len(Append(q, m)[j].text) =< MAXBUFF
    <3>1. PICK l \in Nat : l = Len(q)
      OBVIOUS
    <3>2. PICK a : a = Append(q, m)
      OBVIOUS
    <3>3. /\ DOMAIN a = 1 .. l + 1 /\ DOMAIN q = 1 .. l /\ a[l + 1] = m
          /\ \A j \in 1 .. l : a[j] = q[j]
      BY <3>1, <3>2, AppendProperties
    <3>4. \A j \in 1 .. l + 1 : j \in 1 .. l \/ j = l + 1
      BY <3>1
    <3>. QED
      BY <2>2, <2>5, <2>9, <3>2, <3>3, <3>4
  <2>15. Bounded(Append(q, m))
    BY <2>12, <2>13, <2>14 DEF Bounded
  <2>16. \A k \in {1, 2} : queue'[k] = IF k = c THEN Append(q, m) ELSE queue[k]
    BY <2>6, <2>8
  <2>. QED
    BY <2>15, <2>16 DEF Bounded, QueuesHold
<1>. QED
  BY <1>3, <1>4

LEMMA ReceiveHolds ==
  ASSUME TransferIInv, ~Streaming, BuffersHold, QueuesHold, NEW x \in Parties, Q!Receive(x),
         UNCHANGED streams
  PROVE  BuffersHold' /\ QueuesHold'
<1>1. queue \in [{1, 2} -> Seq(Mesgs)] /\ buff \in [Parties -> Seq(Any)]
  BY RepliesIn DEF TransferIInv, Kinds
<1>2. PICK c \in {1, 2} : \E i : Picks(x, c, i)
  BY ReceiveIs
<1>3. PICK i : Picks(x, c, i)
  BY <1>2
<1>4. PICK q \in Seq(Mesgs) : q = queue[c]
  BY <1>1
<1>5. /\ i \in DOMAIN q /\ queue' = [queue EXCEPT ![c] = Q!Without(q, i)]
      /\ buff' = [buff EXCEPT ![x] = q[i].text]
  BY <1>1, <1>3, <1>4 DEF Picks
<1>6. Bounded(q)
  BY <1>4 DEF Bounded, QueuesHold
<1>7. BuffersHold'
  <2>1. Len(q[i].text) =< MAXBUFF
    BY <1>5, <1>6 DEF Bounded
  <2>. QED
    BY <1>1, <1>5, <2>1 DEF BuffersHold
<1>8. PICK w \in Seq(Mesgs) : w = Q!Without(q, i)
  BY <1>5, WithoutIs
<1>9. IsFiniteSet(Units(w)) /\ Cardinality(Units(w)) =< msg_qbytes
  <2>1. IsFiniteSet(Units(w)) /\ Cardinality(Units(w)) =< Cardinality(Units(q))
    BY <1>5, <1>6, <1>8, UnitsWithout DEF Bounded
  <2>2. Cardinality(Units(w)) \in Nat /\ Cardinality(Units(q)) \in Nat
    BY <1>6, <2>1, FS_CardinalityType DEF Bounded
  <2>. QED
    BY <1>6, <2>1, <2>2, KernelAssumption DEF Bounded
<1>10. \A j \in DOMAIN w : Len(w[j].text) =< MAXBUFF
  <2>1. PICK l \in Nat : l = Len(q)
    OBVIOUS
  <2>2. Len(w) = l - 1 /\ \A j \in 1 .. l - 1 : w[j] = IF j < i THEN q[j] ELSE q[j + 1]
    BY <1>5, <1>8, <2>1, WithoutIs
  <2>3. DOMAIN w = 1 .. l - 1 /\ DOMAIN q = 1 .. l
    BY <2>1, <2>2
  <2>4. \A j \in 1 .. l - 1 : j \in 1 .. l /\ j + 1 \in 1 .. l
    BY <2>1
  <2>. QED
    BY <1>6, <2>2, <2>3, <2>4 DEF Bounded
<1>11. Bounded(w)
  BY <1>9, <1>10 DEF Bounded
<1>12. \A k \in {1, 2} : queue'[k] = IF k = c THEN w ELSE queue[k]
  BY <1>1, <1>5, <1>8
<1>13. QueuesHold'
  BY <1>11, <1>12 DEF Bounded, QueuesHold
<1>. QED
  BY <1>7, <1>13

LEMMA QueueBounds ==
  ASSUME TransferIInv, ~Streaming, BuffersHold, QueuesHold, NEW x \in Parties,
         Q!QueueStep(x) \/ Q!QueueKill(x), UNCHANGED streams
  PROVE  BuffersHold' /\ QueuesHold'
<1>1. buff' = buff => BuffersHold'
  BY DEF BuffersHold
<1>2. queue' = queue => QueuesHold'
  BY DEF QueuesHold
<1>3. CASE Q!ServerGet \/ Q!ClientGet \/ Q!ServerEnd
  BY <1>1, <1>2, <1>3 DEF Q!ServerGet, Q!ClientGet, Q!ServerEnd, Q!dataVars, Q!queueVars
<1>4. CASE Q!ClientRemove
  <2>1. buff' = buff /\ queue' = [k \in {1, 2} |-> <<>>]
    BY <1>4 DEF Q!ClientRemove, Q!dataVars
  <2>2. QueuesHold'
    BY <2>1, EmptyHolds DEF QueuesHold, Bounded
  <2>. QED
    BY <1>1, <2>1, <2>2
<1>5. CASE Q!Send(x)
  <2>1. buff' = buff
    BY <1>5 DEF Q!Send, Q!dataVars
  <2>. QED
    BY <1>1, <1>5, <2>1, SendHolds
<1>6. CASE Q!Receive(x)
  BY <1>6, ReceiveHolds
<1>7. CASE Q!Functions(x) /\ UNCHANGED Q!queueVars
  <2>1. queue' = queue
    BY <1>7 DEF Q!queueVars
  <2>2. Functions(x) /\ Kinds
    BY <1>7, SameFunctions DEF TransferIInv
  <2>. QED
    BY <1>2, <2>1, <2>2, FunctionHolds
<1>8. CASE UNCHANGED <<Q!dataVars, Q!queueVars>>
  BY <1>1, <1>2, <1>8 DEF Q!dataVars, Q!queueVars
<1>. QED
  BY <1>3, <1>4, <1>5, <1>6, <1>7, <1>8 DEF Q!QueueStep, Q!QueueKill

LEMMA BoundsKept ==
  ASSUME TransferIInv, Bounds, [Next]_vars
  PROVE  Bounds'
<1>1. ASSUME NEW x \in Parties, Streaming, S!StreamStep(x) \/ S!StreamKill(x), UNCHANGED queues
      PROVE  Bounds'
  <2>1. KnownNames'
    BY <1>1, StreamNames DEF Bounds
  <2>2. BuffersHold' /\ StreamsHold'
    BY <1>1, StreamBounds DEF Bounds
  <2>3. QueuesHold'
    BY <1>1 DEF Bounds, QueuesHold, queues
  <2>. QED
    BY <2>1, <2>2, <2>3 DEF Bounds
<1>2. ASSUME NEW x \in Parties, ~Streaming, Q!QueueStep(x) \/ Q!QueueKill(x), UNCHANGED streams
      PROVE  Bounds'
  <2>1. KnownNames'
    BY <1>2, QueueNames DEF Bounds
  <2>2. BuffersHold' /\ QueuesHold'
    BY <1>2, QueueBounds DEF Bounds
  <2>3. StreamsHold'
    BY <1>2 DEF Bounds, StreamsHold, streams
  <2>. QED
    BY <2>1, <2>2, <2>3 DEF Bounds
<1>3. CASE UNCHANGED vars
  BY <1>3 DEF vars, transferVars, dataVars, streams, queues, Bounds, KnownNames, BuffersHold,
              StreamsHold, QueuesHold
<1>. QED
  BY <1>1, <1>2, <1>3 DEF Next, Step, Killed

LEMMA InitBounds == ASSUME Init PROVE Bounds
<1>1. KnownNames
  BY DEF Init, KnownNames, S!StreamsInit, S!Both, Q!QueuesInit
<1>2. Len(<<>>) = 0 /\ 0 =< MAXBUFF /\ 0 =< Capacity
  BY Texts, KernelAssumption
<1>3. BuffersHold
  BY <1>2 DEF Init, TransferInit, BuffersHold
<1>4. StreamsHold
  <2>1. stream = [c \in S!Both |-> <<>>] \/ stream = <<>>
    BY DEF Init, S!StreamsInit
  <2>. QED
    BY <1>2, <2>1 DEF StreamsHold
<1>5. QueuesHold
  BY EmptyHolds DEF Init, Q!QueuesInit, QueuesHold, Bounded
<1>. QED
  BY <1>1, <1>3, <1>4, <1>5 DEF Bounds

\* What is printed is no longer than the file or the message.
LEMMA BoundsType == ASSUME TransferIInv, Bounds PROVE TypeOK
<1>1. Kinds /\ Correct
  BY DEF TransferIInv, Carried
<1>2. Len(printed) =< Len(File) + Len(Message)
  <2>1. PICK n : n = Len(printed)
    OBVIOUS
  <2>2. n \in Nat /\ n =< Total
    BY <1>1, <2>1 DEF Correct, Part, Total, Kinds
  <2>3. Total = Len(File) \/ Total = Len(Message) \/ Total = 0
    BY ReplyIs DEF Total
  <2>. QED
    BY <2>1, <2>2, <2>3, Texts
<1>3. offset \in 0 .. Len(File)
  <2>1. Len(Contents) = Len(File) \/ Len(Contents) = 0
    BY DEF Contents
  <2>. QED
    BY <1>1, <2>1, Texts DEF Kinds
<1>4. TransferTypeOK
  BY <1>1, <1>2, <1>3 DEF TransferTypeOK, Kinds, Bounds, BuffersHold
<1>5. \A k \in {1, 2} : Q!Size(queue[k]) =< msg_qbytes
  BY SizeIs DEF Bounds, QueuesHold
<1>. QED
  BY <1>4, <1>5 DEF TypeOK, Bounds, KnownNames, StreamsHold

\* The types.  No read goes beyond buff, that of mesg_recv included, whose length is what
\* a header announces; no write and no msgsnd fill a stream or a queue beyond its room.
THEOREM TransferTypes == Spec => []TypeOK
<1>1. Init => TransferIInv /\ Bounds
  BY InitKeeps, InitBounds
<1>2. TransferIInv /\ Bounds /\ [Next]_vars => TransferIInv' /\ Bounds'
  BY StepKeeps, BoundsKept
<1>3. TransferIInv /\ Bounds => TypeOK
  BY BoundsType
<1>. QED
  BY <1>1, <1>2, <1>3, PTL DEF Spec
=============================================================================
