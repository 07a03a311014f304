---------------------------- MODULE ContentProofs ---------------------------
(***************************************************************************)
(* Proofs about FilePrograms: what the two shared memory programs print is *)
(* the reply, in order, for every file, every number of buffers and        *)
(* whoever is killed, so that they implement FileTransfer; and with        *)
(* TransferProofs, so do all eight programs, and their variables keep      *)
(* their types and bounds.                                                 *)
(*                                                                         *)
(* FileProofs says who may touch the segment or a buffer; added to it is   *)
(* Content, what there is in it.  A step does to the data what AllData     *)
(* says, and the moves of FileProofs say where it can happen.              *)
(***************************************************************************)
EXTENDS FileProofs, TransferProofs, SequenceTheorems

-----------------------------------------------------------------------------
(* What is in the shared memory *)

One == shm_program = "10_shared_memory"
Multi == shm_program = "11_multi_buffer"

\* What the client looks at.
Shown == IF One THEN mesg ELSE mesgptr[i["client"]]

\* A step of the client: it prints what it looked at, until the length is zero.
PrintData ==
  /\ cAt = "look" /\ cAt' = "print" => Shown.len > 0
  /\ cAt = "look" /\ cAt' = "detach" => ~(Shown.len > 0)
  /\ shm_printed' = IF cAt = "print" /\ cAt' = "signal" THEN Append(shm_printed, Shown.data)
                    ELSE shm_printed

\* What is written in the segment of 10_shared_memory,
SegmentData ==
  /\ Multi => mesg' = mesg
  /\ One =>
       /\ mesg' = IF cAt = "name" /\ cAt' = "name_signal" THEN [len |-> 1, data |-> "name"]
                  ELSE IF sAt' = sAt THEN mesg
                  ELSE IF sAt' = "message_len" THEN [mesg EXCEPT !.data = "cannot_open"]
                  ELSE IF sAt' = "block_len" THEN [mesg EXCEPT !.data = Blocks[shm_offset + 1]]
                  ELSE IF sAt' \in {"block_signal", "message_signal"} THEN [mesg EXCEPT !.len = 1]
                  ELSE IF sAt' = "end_signal" THEN [mesg EXCEPT !.len = 0]
                  ELSE mesg
       /\ sAt = "open" /\ sAt' = "read" => exists
       /\ sAt = "open" /\ sAt' = "message_len" => ~(exists /\ mesg.data = "name")
       /\ sAt = "read" /\ sAt' = "block_len" => shm_offset < Len(Blocks)
       /\ sAt = "read" /\ sAt' = "end" => ~(shm_offset < Len(Blocks))

\* and in the buffers of 11_multi_buffer.
RingData ==
  /\ One => mesgptr' = mesgptr
  /\ Multi =>
       /\ mesgptr' = IF cAt = "name" /\ cAt' = "name_signal"
                     THEN [mesgptr EXCEPT ![0] = [len |-> 1, data |-> "name"]]
                     ELSE IF sAt' = sAt THEN mesgptr
                     ELSE IF sAt' = "message_signal"
                     THEN [mesgptr EXCEPT ![0] = [len |-> 1, data |-> "cannot_open"]]
                     ELSE IF sAt = "message_end" /\ sAt' = "end_signal"
                     THEN [mesgptr EXCEPT ![1].len = 0]
                     ELSE IF sAt' = "len" /\ shm_offset < Len(Blocks)
                     THEN [mesgptr EXCEPT ![i["server"]].data = Blocks[shm_offset + 1]]
                     ELSE IF sAt = "len" /\ sAt' \in {"signal", "end_signal"}
                     THEN [mesgptr EXCEPT ![i["server"]].len =
                             IF shm_offset < Len(Blocks) THEN 1 ELSE 0]
                     ELSE mesgptr
       /\ sAt = "len" /\ sAt' = "end_signal" => ~(shm_offset < Len(Blocks))
       /\ sAt = "poll" /\ sAt' = "close_c" => cliV = 0

AllData == PrintData /\ SegmentData /\ RingData

\* client() and server() of 10_shared_memory.
LEMMA OneClientData == ASSUME Placed, Shm!Single, Shm!One!Client PROVE AllData
<1>. USE DEF AllData, PrintData, SegmentData, RingData, One, Multi, Shown, Placed, Parties, cAt,
         sAt,
             Shm!Single, Shm!One!At, Shm!One!protocolVars
<1>1. CASE Shm!One!ClientWaitTurn
  BY <1>1 DEF Shm!One!ClientWaitTurn
<1>2. CASE Shm!One!ClientName
  BY <1>2 DEF Shm!One!ClientName
<1>3. CASE Shm!One!ClientSignal
  BY <1>3 DEF Shm!One!ClientSignal
<1>4. CASE Shm!One!ClientWait
  BY <1>4 DEF Shm!One!ClientWait
<1>5. CASE Shm!One!ClientLook
  BY <1>5 DEF Shm!One!ClientLook
<1>6. CASE Shm!One!ClientPrint
  BY <1>6 DEF Shm!One!ClientPrint
<1>. QED
  BY <1>1, <1>2, <1>3, <1>4, <1>5, <1>6 DEF Shm!One!Client

LEMMA OneServerData == ASSUME Placed, Shm!Single, Shm!One!Server PROVE AllData
<1>. USE DEF AllData, PrintData, SegmentData, RingData, One, Multi, Shown, Placed, Parties, cAt,
         sAt,
             Shm!Single, Shm!One!At, Shm!One!protocolVars
<1>1. CASE Shm!One!ServerWaitName
  BY <1>1 DEF Shm!One!ServerWaitName
<1>2. CASE Shm!One!ServerOpen
  BY <1>2 DEF Shm!One!ServerOpen
<1>3. CASE Shm!One!ServerRead
  BY <1>3 DEF Shm!One!ServerRead
<1>4. CASE Shm!One!ServerLen
  BY <1>4 DEF Shm!One!ServerLen
<1>5. CASE Shm!One!ServerSignal
  BY <1>5 DEF Shm!One!ServerSignal
<1>6. CASE Shm!One!ServerWait
  BY <1>6 DEF Shm!One!ServerWait
<1>7. CASE Shm!One!ServerEnd
  BY <1>7 DEF Shm!One!ServerEnd
<1>. QED
  BY <1>1, <1>2, <1>3, <1>4, <1>5, <1>6, <1>7 DEF Shm!One!Server

\* client() and server() of 11_multi_buffer.
LEMMA MultiClientData == ASSUME Placed, Shm!Ring, Shm!Multi!Client PROVE AllData
<1>. USE DEF AllData, PrintData, SegmentData, RingData, One, Multi, Shown, Placed, Parties, cAt,
         sAt,
             Shm!Ring, Shm!Multi!At, Shm!Multi!protocolVars
<1>1. CASE Shm!Multi!ClientWaitTurn
  BY <1>1 DEF Shm!Multi!ClientWaitTurn
<1>2. CASE Shm!Multi!ClientName
  BY <1>2 DEF Shm!Multi!ClientName
<1>3. CASE Shm!Multi!ClientNameSignal
  BY <1>3 DEF Shm!Multi!ClientNameSignal
<1>4. CASE Shm!Multi!ClientWait
  BY <1>4 DEF Shm!Multi!ClientWait
<1>5. CASE Shm!Multi!ClientLook
  BY <1>5 DEF Shm!Multi!ClientLook
<1>6. CASE Shm!Multi!ClientPrint
  BY <1>6 DEF Shm!Multi!ClientPrint
<1>7. CASE Shm!Multi!ClientSignal
  BY <1>7 DEF Shm!Multi!ClientSignal
<1>. QED
  BY <1>1, <1>2, <1>3, <1>4, <1>5, <1>6, <1>7 DEF Shm!Multi!Client

LEMMA MultiServerData == ASSUME Placed, Shm!Ring, Shm!Multi!Server PROVE AllData
<1>. USE DEF AllData, PrintData, SegmentData, RingData, One, Multi, Shown, Placed, Parties, cAt,
         sAt,
             Shm!Ring, Shm!Multi!At, Shm!Multi!protocolVars
<1>1. CASE Shm!Multi!ServerWaitName
  BY <1>1 DEF Shm!Multi!ServerWaitName
<1>2. CASE Shm!Multi!ServerOpen
  BY <1>2 DEF Shm!Multi!ServerOpen
<1>3. CASE Shm!Multi!ServerMessage
  BY <1>3 DEF Shm!Multi!ServerMessage
<1>4. CASE Shm!Multi!ServerFill
  BY <1>4 DEF Shm!Multi!ServerFill
<1>5. CASE Shm!Multi!ServerWait
  BY <1>5 DEF Shm!Multi!ServerWait
<1>6. CASE Shm!Multi!ServerRead
  BY <1>6 DEF Shm!Multi!ServerRead
<1>7. CASE Shm!Multi!ServerLen
  BY <1>7 DEF Shm!Multi!ServerLen
<1>8. CASE Shm!Multi!ServerSignal
  BY <1>8 DEF Shm!Multi!ServerSignal
<1>9. CASE Shm!Multi!ServerPoll
  BY <1>9 DEF Shm!Multi!ServerPoll, cliV
<1>. QED
  BY <1>1, <1>2, <1>3, <1>4, <1>5, <1>6, <1>7, <1>8, <1>9 DEF Shm!Multi!Server

\* main() touches nothing of it.
LEMMA MainData ==
  ASSUME Placed, Shm!InMain, Shm!ClientMain \/ Shm!ServerMain \/ Shm!Death
  PROVE  AllData
<1>1. /\ UNCHANGED <<mesg, mesgptr, shm_printed>>
  BY DEF Shm!InMain
<1>2. /\ cAt' \in {cAt} \cup COpening \cup {"ask", "dead", "done"} \cup Leaving
      /\ sAt' \in {sAt} \cup SOpening \cup {"serve", "dead", "done"} \cup Leaving
      /\ cAt # "look" \/ cAt' # "detach"
      /\ sAt # "poll" \/ sAt' # "close_c"
      /\ sAt = sAt' \/ sAt' \notin {"message_len"}
  <2>. USE DEF cAt, sAt, Placed, Parties, COpening, SOpening, Leaving
  <2>1. CASE Shm!ClientMain
    BY <2>1 DEF Shm!ClientMain, Shm!ClientAttach, Shm!ClientOpen, Shm!ClientTooEarly,
                Shm!ClientDetach, Shm!CloseSems, Shm!Exit, Shm!At, Shm!Stay
  <2>2. CASE Shm!ServerMain
    BY <2>2 DEF Shm!ServerMain, Shm!ServerAttach, Shm!ServerCreate, Shm!CloseSems, Shm!Exit,
                Shm!At, Shm!Stay
  <2>3. CASE Shm!Death
    BY <2>3 DEF Shm!Death, Shm!Dies, Shm!Parties
  <2>. QED
    BY <2>1, <2>2, <2>3
<1>. QED
  BY <1>1, <1>2 DEF AllData, PrintData, SegmentData, RingData, COpening, SOpening, Leaving

\* Every step does this to the data.
LEMMA NextData == ASSUME Placed, Shm!Next PROVE AllData
<1>1. ASSUME Shm!ClientRuns PROVE AllData
  BY <1>1, OneClientData, MultiClientData, MainData DEF Shm!ClientRuns
<1>2. ASSUME Shm!ServerRuns PROVE AllData
  BY <1>2, OneServerData, MultiServerData, MainData DEF Shm!ServerRuns
<1>3. ASSUME Shm!Death PROVE AllData
  BY <1>3, MainData DEF Shm!Death
<1>. QED
  BY <1>1, <1>2, <1>3 DEF Shm!Next

-----------------------------------------------------------------------------
(* The invariant about what is printed *)

ShmReply == IF exists THEN Blocks ELSE <<"cannot_open">>
Last == Len(ShmReply)
Parts == Len(shm_printed)

Data == {"none", "name", "cannot_open"} \cup {Blocks[k] : k \in DOMAIN Blocks}
Messages == [len : {0, 1}, data : Data]

\* The client may still print; it has been let in to what it reads.
Active == cAt \in COpening \cup Before \cup {"wait"} \cup CHolds
Reads == cAt \in {"look", "print"}
Due == Reads \/ (cAt = "wait" /\ cliV > 0)

\* m is the part k of the reply, or the end after the last part.
Shows(m, k) == IF k =< Last THEN m.len = 1 /\ m.data = ShmReply[k] ELSE m.len = 0

\* What is printed is a beginning of the reply.
InPlace ==
  /\ mesg \in Messages /\ mesgptr \in [0 .. NBUFF - 1 -> Messages] /\ exists \in BOOLEAN
  /\ shm_printed \in Seq(Data) /\ Parts =< Last
  /\ \A k \in 1 .. Parts : shm_printed[k] = ShmReply[k]

\* The undo of a server that has gone leaves nothing in clisem for a client that waits.
Dry ==
  /\ cAt = "wait" => taken >= 1
  /\ sAt \in Gone /\ Active => cliV = 0 \/ cliV + taken =< 1

Start ==
  /\ cAt \in COpening \cup Before => Parts = 0
  /\ sAt \in SOpening \cup {"serve", "open", "fill", "message"} =>
       shm_offset = 0 /\ (Active => Parts = 0)

\* 10_shared_memory: the next part is in the segment when the client is let in.
Segment == One /\ Active =>
  /\ Reads => Shows(mesg, Parts + 1)
  /\ cAt = "print" => Parts < Last
  /\ cAt = "name_signal" \/ (cAt = "wait" /\ sAt \in SOpening \cup {"serve"}) \/ sAt = "open"
       => mesg.len = 1 /\ mesg.data = "name"
  /\ sAt = "read" => exists /\ Parts = shm_offset
  /\ sAt \in {"block_len", "block_signal"} =>
       exists /\ Parts + 1 = shm_offset /\ mesg.data = Blocks[shm_offset]
  /\ sAt = "block_wait" => exists /\ Parts + Num(Due) = shm_offset
  /\ sAt \in {"message_len", "message_signal"} =>
       ~exists /\ Parts = 0 /\ mesg.data = "cannot_open"
  /\ sAt = "message_wait" => ~exists /\ Parts + Num(Due) = 1
  /\ sAt \in {"end", "end_signal"} \cup Leaving => Parts = Last
  /\ sAt \in {"block_signal", "message_signal", "end_signal"} \cup Leaving
       \/ (sAt \in {"block_wait", "message_wait"} /\ Due) => Shows(mesg, Parts + 1)

\* 11_multi_buffer: the blocks that the server has signalled and the client not printed are
\* in the buffers behind the server's, the latest first; in the poll the end is in its own.
Done == shm_offset - Num(sAt = "signal")
Full == cliV + Num(Reads)
Top  == Num(sAt = "poll")
Back(j, d) == IF d =< j THEN j - d ELSE j + NBUFF - d

Filled ==
  /\ Parts + Full = Done + Top
  /\ \A d \in 1 - Top .. Full - Top : Shows(mesgptr[Back(i["server"], d)], Done + 1 - d)
  /\ sAt = "len" /\ shm_offset < Last => mesgptr[i["server"]].data = Blocks[shm_offset + 1]
  /\ sAt = "signal" => Shows(mesgptr[i["server"]], shm_offset)
  /\ sAt \in {"end_signal", "poll"} => shm_offset = Last /\ mesgptr[i["server"]].len = 0
  /\ sAt = "poll" =>
       /\ cliV + Num(cAt \in CHolds) \in 1 .. NBUFF
       /\ \/ i["server"] + 1 = i["client"] + cliV + Num(cAt \in CHolds)
          \/ i["server"] + 1 = i["client"] + cliV + Num(cAt \in CHolds) - NBUFF

\* The message is in buffer 0, the end in buffer 1.
Told ==
  /\ i["client"] = Parts - Num(cAt = "signal")
  /\ Parts = 0 => mesgptr[0].len = 1 /\ mesgptr[0].data = "cannot_open"
  /\ sAt = "message_signal" => Parts = 0
  /\ sAt = "message_wait" => Parts + Num(Due) = 1
  /\ sAt \in {"message_end", "end_signal"} => Parts = 1
  /\ sAt = "poll" => Parts = 1 /\ cliV + Num(cAt = "look") = 1 /\ cAt # "signal"
  /\ sAt \in {"end_signal", "poll"} => mesgptr[1].len = 0

Buffered == Multi /\ Active =>
  /\ Reads => Shows(mesgptr[i["client"]], Parts + 1)
  /\ cAt = "print" => Parts < Last
  /\ sAt = "message" => i["client"] = 0
  /\ exists /\ sAt \in BlockS \cup {"end_signal", "poll"} => Filled
  /\ ~exists /\ sAt \in {"message_signal", "message_wait", "message_end", "end_signal", "poll"}
       => Told
  /\ sAt \in Leaving => Parts = Last /\ cAt = "look"

Content == InPlace /\ Dry /\ Start /\ Segment /\ Buffered

-----------------------------------------------------------------------------
(* A step of main() *)

LEMMA ReplyFacts ==
  /\ Blocks \in Seq(Data) /\ DOMAIN Blocks = 1 .. Len(Blocks) /\ Len(Blocks) \in Nat
  /\ ShmReply \in Seq(Data) /\ Last \in Nat
  /\ \A k \in 1 .. Len(Blocks) : Blocks[k] \in Data
  /\ exists => ShmReply = Blocks /\ Last = Len(Blocks)
  /\ ~exists => Last = 1 /\ ShmReply[1] = "cannot_open"
<1>1. ASSUME NEW A, Blocks \in Seq(A), A \subseteq Data PROVE Blocks \in Seq(Data)
  BY <1>1, SeqMonotonic
<1>2. Blocks \in Seq(Data)
  <2>1. {Blocks[k] : k \in DOMAIN Blocks} \subseteq Data
    BY DEF Data
  <2>. QED
    BY <1>1, <2>1, BlocksAssumption
<1>3. "cannot_open" \in Data
  BY DEF Data
<1>4. ASSUME NEW x \in Data PROVE <<x>> \in Seq(Data) /\ Len(<<x>>) = 1 /\ <<x>>[1] = x
  OBVIOUS
<1>5. /\ DOMAIN Blocks = 1 .. Len(Blocks) /\ Len(Blocks) \in Nat
      /\ \A k \in 1 .. Len(Blocks) : Blocks[k] \in Data
  BY <1>2, LenProperties, ElementOfSeq
<1>. QED
  BY <1>2, <1>3, <1>4, <1>5 DEF ShmReply, Last

\* What a step does to the printed parts, and to the reply.
LEMMA PartsStep == ASSUME InPlace, AllData, exists' = exists
  PROVE  /\ ShmReply' = ShmReply /\ Last' = Last /\ Parts \in Nat
         /\ Parts' = IF cAt = "print" /\ cAt' = "signal" THEN Parts + 1 ELSE Parts
<1>1. ShmReply' = ShmReply /\ Last' = Last
  BY DEF ShmReply, Last
<1>2. shm_printed \in Seq(Data)
  BY DEF InPlace
<1>3. CASE cAt = "print" /\ cAt' = "signal"
  <2>1. shm_printed' = Append(shm_printed, Shown.data)
    BY <1>3 DEF AllData, PrintData
  <2>. QED
    BY <1>1, <1>2, <1>3, <2>1 DEF Parts
<1>4. CASE ~(cAt = "print" /\ cAt' = "signal")
  BY <1>1, <1>2, <1>4 DEF AllData, PrintData, Parts
<1>. QED
  BY <1>3, <1>4

\* main() leaves the data alone.
LEMMA MainStill == ASSUME Core, InPlace, InMain, AllData
  PROVE  /\ mesg' = mesg /\ mesgptr' = mesgptr /\ shm_printed' = shm_printed
         /\ Parts' = Parts /\ Last' = Last /\ ShmReply' = ShmReply /\ Parts \in Nat /\ Last \in Nat
         /\ Unmoved
<1>1. /\ Unmoved
      /\ cAt' = cAt \/ cAt' \notin {"name_signal", "signal", "print", "detach"}
      /\ sAt' = sAt \/ sAt' \in SOpening \cup {"serve"} \cup Leaving \cup Gone
      /\ shm_program \in ShmPairs
  <2>1. shm_program \in ShmPairs
    BY DEF Core, Typed, ShmPairs
  <2>. QED
    BY <2>1 DEF InMain, ServerBegins, ClientBegins, ClientCloses, ServerCloses, ClientLeaves,
         ServerLeaves,
                COpening, Leaving, Gone
<1>2. exists' = exists
  BY <1>1 DEF Unmoved
<1>3. mesg' = mesg /\ mesgptr' = mesgptr
  BY <1>1 DEF AllData, SegmentData, RingData, One, Multi, ShmPairs, SOpening, Leaving, Gone
<1>4. shm_printed' = shm_printed
  BY <1>1 DEF AllData, PrintData
<1>. QED
  BY <1>1, <1>2, <1>3, <1>4, PartsStep, ReplyFacts DEF Parts

LEMMA ContentMain == ASSUME Core, Content, InMain, AllData
  PROVE  InPlace' /\ Start' /\ Segment' /\ Buffered'
<1>1. /\ mesg' = mesg /\ mesgptr' = mesgptr /\ shm_printed' = shm_printed
      /\ Parts' = Parts /\ Last' = Last /\ ShmReply' = ShmReply /\ Parts \in Nat /\ Last \in Nat
      /\ Unmoved
  BY MainStill DEF Content
<1>2. /\ cliV \in Nat /\ taken \in Nat /\ sent \in Nat
  BY CountsFacts
<1>. USE DEF SOpening, COpening, Before, Gone, Leaving, CHolds, Active, Reads
<1>3. InPlace'
  BY <1>1 DEF Content, InPlace, Unmoved
<1>4. Start'
  BY <1>1 DEF Content, Start, Unmoved, InMain, ServerBegins, ClientBegins, ClientCloses,
       ServerCloses,
              ClientLeaves, ServerLeaves
<1>5. Segment'
  <2>1. CASE ServerBegins
    BY <1>1, <2>1 DEF Content, Segment, One, Unmoved, ServerBegins, Shows, Due
  <2>2. CASE ClientBegins \/ ClientLeaves
    BY <1>1, <2>2 DEF Content, Segment, One, Unmoved, ClientBegins, ClientLeaves, Shows, Due
  <2>3. CASE ClientCloses
    BY <2>3 DEF Segment, ClientCloses
  <2>4. CASE ServerCloses \/ ServerLeaves
    BY <1>1, <2>4 DEF Content, Segment, One, Unmoved, ServerCloses, ServerLeaves, Shows
  <2>. QED
    BY <2>1, <2>2, <2>3, <2>4 DEF InMain
<1>6. Buffered'
  <2>. USE DEF BlockS, MessageS
  <2>1. CASE ServerBegins
    BY <1>1, <2>1 DEF Content, Buffered, Multi, Unmoved, ServerBegins, Shows
  <2>2. CASE ClientBegins \/ ClientLeaves
    BY <1>1, <2>2 DEF Content, Buffered, Multi, Unmoved, ClientBegins, ClientLeaves, Shows
  <2>3. CASE ClientCloses
    BY <2>3 DEF Buffered, ClientCloses
  <2>4. CASE ServerCloses \/ ServerLeaves
    BY <1>1, <2>4 DEF Content, Buffered, Multi, Unmoved, ServerCloses, ServerLeaves, Shows
  <2>. QED
    BY <2>1, <2>2, <2>3, <2>4 DEF InMain
<1>. QED
  BY <1>3, <1>4, <1>5, <1>6

\* Nothing but the undo of the server that goes takes from clisem what it has signalled.
LEMMA DryMain ==
  ASSUME Core, Dry,
         Attaches \/ Creates \/ Opens \/ \E x \in Parties : Closes(x) \/ Leaves(x)
  PROVE  Dry'
<1>. USE DEF Dry, Active, Reads, SOpening, COpening, Before, Gone, Leaving, CHolds
<1>1. cliV \in Nat /\ taken \in Nat /\ sent \in Nat
  BY CountsFacts
<1>2. CASE Attaches
  <2>1. CliStill /\ cAt' = cAt /\ sAt' = "create_c"
    BY <1>2, SameStill DEF Attaches, Goes
  <2>. QED
    BY <2>1 DEF CliStill, CliValues
<1>3. CASE Creates
  <2>1. cAt' = cAt /\ sAt' \in SOpening \cup {"serve"}
    BY <1>3 DEF Creates, Stays, Goes, Where
  <2>2. CliValues \/ cAt \in {"start", "open_c", "dead"}
    BY <1>3, CreatesEffect DEF CliStill
  <2>. QED
    BY <2>1, <2>2 DEF CliValues
<1>4. CASE Opens
  <2>1. CliValues /\ sAt' = sAt /\ cAt \in COpening /\ cAt' \in COpening \cup {"ask"}
    BY <1>4, OpensEffect DEF Opens, Stays, Goes, Where
  <2>. QED
    BY <2>1 DEF CliValues
<1>5. ASSUME NEW x \in Parties, Closes(x) PROVE Dry'
  <2>1. CASE ClientCloses
    BY <2>1 DEF ClientCloses
  <2>2. CASE ServerCloses
    BY <2>2 DEF ServerCloses, CliValues
  <2>. QED
    BY <1>5, <2>1, <2>2, ClientClosesFact, ServerClosesFact DEF Parties
<1>6. CASE Leaves("client")
  <2>1. /\ sAt' = sAt
        /\ \/ cAt' \in Gone
           \/ cAt' = "start" /\ cAt \in {"open_c", "open_s"}
    BY <1>6 DEF Leaves, Goes, Where
  <2>2. /\ Undone(cliVal'[0], cliVal[0] + cliAdj["client"][0])
        /\ cliAdj'["client"][0] = 0 /\ cliAdj["client"][0] = taken /\ cliVal[0] = cliV
    BY <1>6, LeavesEffect, CountsFacts DEF Parties, cliV
  <2>3. cliV' \in Nat /\ (cliV' =< cliV + taken \/ cliV' = 0) /\ taken' = 0
    BY <2>2 DEF Undone, cliV, taken
  <2>4. cAt \in COpening => taken = 0
    BY DEF Core, Counts
  <2>5. \A a, b \in Nat : (b =< a + 0 \/ b = 0) /\ (a = 0 \/ a + 0 =< 1) => b = 0 \/ b + 0 =< 1
    OBVIOUS
  <2>6. cAt \in COpening /\ sAt \in Gone => cliV' = 0 \/ cliV' + taken' =< 1
    BY <1>1, <2>3, <2>4, <2>5, Zenon
  <2>. QED
    BY <2>1, <2>6
<1>7. CASE Leaves("server")
  <2>1. cAt' = cAt /\ sAt' \in Gone
    BY <1>7 DEF Leaves, Goes, Where
  <2>2. /\ Undone(cliVal'[0], cliVal[0] + cliAdj["server"][0])
        /\ cliAdj'["client"] = cliAdj["client"] /\ cliAdj["server"][0] = -sent /\ cliVal[0] = cliV
    BY <1>7, LeavesEffect, CountsFacts DEF Parties, cliV
  <2>3. cliV' \in Nat /\ (cliV' =< cliV - sent \/ cliV' = 0) /\ taken' = taken
    BY <1>1, <2>2 DEF Undone, cliV, taken
  <2>4. sAt \notin Gone => cliV + taken =< 1 + sent
    BY DEF Core, Counts
  <2>5. \A a, b, t, n \in Nat :
           (b =< a - n \/ b = 0) /\ (a = 0 \/ a + t =< 1 + n) => b = 0 \/ b + t =< 1
    OBVIOUS
  <2>6. Active => cliV = 0 \/ cliV + taken =< 1 + sent
    BY <1>1, <2>4
  <2>7. Active => cliV' = 0 \/ cliV' + taken' =< 1
    BY <1>1, <2>3, <2>5, <2>6, Zenon
  <2>. QED
    BY <2>1, <2>3, <2>7
<1>. QED
  BY <1>2, <1>3, <1>4, <1>5, <1>6, <1>7 DEF Parties

-----------------------------------------------------------------------------
(* A step of client() or server() *)

LEMMA ProgramFacts ==
  ASSUME Core, InPlace, NEW dc \in {-1, 0, 1}, NEW ds \in {-1, 0, 1}, InProgram(dc, ds), AllData
  PROVE  /\ cliV \in Nat /\ servV \in Nat /\ taken \in Nat /\ NBUFF \in Nat /\ NBUFF >= 2
         /\ cliV' = cliV + dc /\ servV' = servV + ds /\ cliV + dc >= 0 /\ servV + ds >= 0
         /\ i["client"] \in 0 .. NBUFF - 1 /\ i["server"] \in 0 .. NBUFF - 1
         /\ shm_offset \in 0 .. Len(Blocks) /\ Len(Blocks) \in Nat
         /\ exists' = exists /\ shm_program' = shm_program
         /\ ShmReply' = ShmReply /\ Last' = Last /\ Last \in Nat /\ Parts \in Nat
         /\ Parts' = IF cAt = "print" /\ cAt' = "signal" THEN Parts + 1 ELSE Parts
         /\ shm_offset' = IF sAt \in {"read", "len"} /\ sAt' \in {"block_len", "signal"}
                          THEN shm_offset + 1 ELSE shm_offset
         /\ sAt \in {"read", "len"} /\ sAt' \in {"block_len", "signal"} => shm_offset < Len(Blocks)
<1>1. /\ cliV \in Nat /\ servV \in Nat /\ taken \in Nat
      /\ cliV' = cliV + dc /\ servV' = servV + ds /\ cliV + dc >= 0 /\ servV + ds >= 0
  BY CountsFacts, EffectNumbers DEF InProgram, ClientNumbers, ServerNumbers
<1>2. /\ i["client"] \in 0 .. NBUFF - 1 /\ i["server"] \in 0 .. NBUFF - 1
      /\ shm_offset \in 0 .. Len(Blocks) /\ NBUFF \in Nat /\ NBUFF >= 2
  BY FileProgramsAssumption DEF Core, Typed, Parties
<1>3. /\ exists' = exists /\ shm_program' = shm_program
      /\ shm_offset' = IF sAt \in {"read", "len"} /\ sAt' \in {"block_len", "signal"}
                       THEN shm_offset + 1 ELSE shm_offset
      /\ sAt \in {"read", "len"} /\ sAt' \in {"block_len", "signal"} => shm_offset < Len(Blocks)
  <2>1. CASE ClientEdge(dc, ds)
    BY <2>1 DEF ClientEdge, Edge, Where, Goes
  <2>2. CASE OneEdge(dc, ds)
    BY <2>2 DEF OneEdge, Edge, Where, Goes
  <2>3. CASE MultiEdge(dc, ds)
    BY <2>3 DEF MultiEdge, Edge, Where, Goes
  <2>. QED
    BY <2>1, <2>2, <2>3 DEF InProgram
<1>. QED
  BY <1>1, <1>2, <1>3, PartsStep, ReplyFacts

\* What the client prints is the next part of the reply.
LEMMA InPlaceProgram ==
  ASSUME Core, Content, NEW dc \in {-1, 0, 1}, NEW ds \in {-1, 0, 1}, InProgram(dc, ds), AllData
  PROVE  InPlace'
<1>. InPlace
  BY DEF Content
<1>1. /\ NBUFF \in Nat /\ NBUFF >= 2
      /\ i["client"] \in 0 .. NBUFF - 1 /\ i["server"] \in 0 .. NBUFF - 1
      /\ shm_offset \in 0 .. Len(Blocks) /\ Len(Blocks) \in Nat
  BY ProgramFacts
<1>2. /\ exists' = exists /\ Last' = Last /\ ShmReply' = ShmReply
  BY ProgramFacts
<1>3. /\ Last \in Nat /\ Parts \in Nat
      /\ Parts' = IF cAt = "print" /\ cAt' = "signal" THEN Parts + 1 ELSE Parts
  BY ProgramFacts
<1>4. /\ mesg \in Messages /\ mesgptr \in [0 .. NBUFF - 1 -> Messages] /\ exists \in BOOLEAN
      /\ shm_printed \in Seq(Data) /\ Parts =< Last
      /\ \A k \in 1 .. Parts : shm_printed[k] = ShmReply[k]
  BY DEF InPlace
<1>5. /\ Multi => mesg' = mesg
      /\ One => mesgptr' = mesgptr
      /\ One \/ Multi
  BY DEF AllData, SegmentData, RingData, Core, Typed, One, Multi
<1>6. shm_offset < Len(Blocks) => Blocks[shm_offset + 1] \in Data
  <2>1. shm_offset < Len(Blocks) => shm_offset + 1 \in 1 .. Len(Blocks)
    BY <1>1
  <2>. QED
    BY <2>1, ReplyFacts
<1>7. ASSUME NEW m \in Messages, NEW d \in Data, NEW n \in {0, 1}
      PROVE  /\ [m EXCEPT !.data = d] \in Messages /\ [m EXCEPT !.len = n] \in Messages
             /\ [len |-> n, data |-> d] \in Messages
  BY DEF Messages
<1>. {"none", "name", "cannot_open"} \subseteq Data
  BY DEF Data
<1>8. mesg' \in Messages
  <2>1. CASE Multi
    BY <1>4, <1>5, <2>1
  <2>2. CASE One
    <3>1. sAt' = sAt \/ sAt' # "block_len" \/ shm_offset < Len(Blocks)
      BY <2>2 DEF InProgram, ClientEdge, OneEdge, MultiEdge, Edge, Where, Goes, One
    <3>2. \/ mesg' = mesg
          \/ mesg' = [len |-> 1, data |-> "name"]
          \/ mesg' = [mesg EXCEPT !.data = "cannot_open"]
          \/ mesg' = [mesg EXCEPT !.data = Blocks[shm_offset + 1]] /\ shm_offset < Len(Blocks)
          \/ mesg' = [mesg EXCEPT !.len = 1]
          \/ mesg' = [mesg EXCEPT !.len = 0]
      BY <2>2, <3>1 DEF AllData, SegmentData
    <3>. QED
      BY <1>4, <1>6, <1>7, <3>2
  <2>. QED
    BY <1>5, <2>1, <2>2
<1>9. mesgptr' \in [0 .. NBUFF - 1 -> Messages]
  <2>1. ASSUME NEW b \in 0 .. NBUFF - 1, NEW m \in Messages, mesgptr' = [mesgptr EXCEPT ![b] = m]
        PROVE  mesgptr' \in [0 .. NBUFF - 1 -> Messages]
    BY <1>4, <2>1
  <2>2. CASE Multi
    <3>1. \/ mesgptr' = mesgptr
          \/ mesgptr' = [mesgptr EXCEPT ![0] = [len |-> 1, data |-> "name"]]
          \/ mesgptr' = [mesgptr EXCEPT ![0] = [len |-> 1, data |-> "cannot_open"]]
          \/ mesgptr' = [mesgptr EXCEPT ![1] = [mesgptr[1] EXCEPT !.len = 0]]
          \/ /\ mesgptr' = [mesgptr EXCEPT ![i["server"]] =
                               [mesgptr[i["server"]] EXCEPT !.data = Blocks[shm_offset + 1]]]
             /\ shm_offset < Len(Blocks)
          \/ mesgptr' = [mesgptr EXCEPT ![i["server"]] = [mesgptr[i["server"]] EXCEPT !.len = 1]]
          \/ mesgptr' = [mesgptr EXCEPT ![i["server"]] = [mesgptr[i["server"]] EXCEPT !.len = 0]]
      BY <1>1, <1>4, <2>2 DEF AllData, RingData
    <3>2. 0 \in 0 .. NBUFF - 1 /\ 1 \in 0 .. NBUFF - 1
      BY <1>1
    <3>3. mesgptr[1] \in Messages /\ mesgptr[i["server"]] \in Messages
      BY <1>1, <1>4, <3>2
    <3>4. /\ [len |-> 1, data |-> "name"] \in Messages
          /\ [len |-> 1, data |-> "cannot_open"] \in Messages
          /\ [mesgptr[1] EXCEPT !.len = 0] \in Messages
          /\ [mesgptr[i["server"]] EXCEPT !.len = 0] \in Messages
          /\ [mesgptr[i["server"]] EXCEPT !.len = 1] \in Messages
          /\ shm_offset < Len(Blocks) =>
               [mesgptr[i["server"]] EXCEPT !.data = Blocks[shm_offset + 1]] \in Messages
      BY <1>6, <1>7, <3>3
    <3>. QED
      BY <1>1, <1>4, <2>1, <3>1, <3>2, <3>4
  <2>. QED
    BY <1>4, <1>5, <2>2
<1>10. /\ shm_printed' \in Seq(Data) /\ Parts' =< Last
       /\ \A k \in 1 .. Parts' : shm_printed'[k] = ShmReply[k]
  <2>1. CASE cAt = "print" /\ cAt' = "signal"
    <3>1. Shown \in Messages
      BY <1>1, <1>4 DEF Shown
    <3>2. Parts < Last /\ Shows(Shown, Parts + 1)
      BY <1>5, <2>1 DEF Content, Segment, Buffered, Shown, One, Multi, Active, Reads, CHolds
    <3>3. Shown.data = ShmReply[Parts + 1] /\ Shown.data \in Data
      BY <1>3, <3>1, <3>2 DEF Shows, Messages
    <3>4. shm_printed' = Append(shm_printed, Shown.data) /\ Parts = Len(shm_printed)
      BY <2>1 DEF AllData, PrintData, Parts
    <3>5. /\ shm_printed' \in Seq(Data)
          /\ \A k \in 1 .. Parts : shm_printed'[k] = shm_printed[k]
          /\ shm_printed'[Parts + 1] = Shown.data
      BY <1>4, <3>3, <3>4, AppendProperties
    <3>6. Parts' = Parts + 1 /\ Parts' =< Last
      BY <1>3, <2>1, <3>2
    <3>7. \A k \in 1 .. Parts' : k \in 1 .. Parts \/ k = Parts + 1
      BY <1>3, <3>6
    <3>8. \A k \in 1 .. Parts' : shm_printed'[k] = ShmReply[k]
      BY <1>4, <3>3, <3>5, <3>7
    <3>. QED
      BY <3>5, <3>6, <3>8
  <2>2. CASE ~(cAt = "print" /\ cAt' = "signal")
    BY <1>3, <1>4, <2>2 DEF AllData, PrintData
  <2>. QED
    BY <2>1, <2>2
<1>. QED
  BY <1>2, <1>4, <1>8, <1>9, <1>10 DEF InPlace

LEMMA StartProgram ==
  ASSUME Core, Turns, Ring, Content, NEW dc \in {-1, 0, 1}, NEW ds \in {-1, 0, 1}, InProgram(dc, ds), AllData
  PROVE  Start'
<1>1. /\ Parts' = IF cAt = "print" /\ cAt' = "signal" THEN Parts + 1 ELSE Parts
      /\ shm_offset' = IF sAt \in {"read", "len"} /\ sAt' \in {"block_len", "signal"}
                       THEN shm_offset + 1 ELSE shm_offset
      /\ Phases /\ Start /\ cliV \in Nat /\ servV \in Nat
      /\ (One /\ sAt \notin {"fill", "message"}) \/ Multi
  <2>1. (One /\ sAt \notin {"fill", "message"}) \/ Multi
    BY DEF Core, Typed, One, Multi, OneLabels, SOpening, SingleS, Leaving, Gone
  <2>. QED
    BY <2>1, ProgramFacts DEF Content, Core
<1>2. CASE ClientEdge(dc, ds)
  <2>1. CASE cAt = "print"
    <3>1. cAt' = "signal" /\ sAt' = sAt
      BY <1>2, <2>1 DEF ClientEdge, Edge, Where, Goes
    <3>2. sAt \notin SOpening \cup {"serve", "open", "fill", "message"}
      <4>1. sAt \notin SOpening \cup {"serve"}
        BY <1>1, <2>1 DEF Phases, COpening, Before
      <4>2. CASE One /\ sAt = "open"
        BY <1>1, <2>1, <4>2 DEF Turns, Alive, One, Gone, SingleC, SingleS, Num
      <4>3. CASE Multi /\ sAt \in {"open", "message"}
        BY <1>1, <2>1, <4>3 DEF Ring, Alive, Multi, Gone, CHolds, MessageS, Num
      <4>4. CASE Multi /\ sAt = "fill"
        BY <1>1, <2>1, <4>4 DEF Ring, Alive, Multi, Gone, CHolds
      <4>. QED
        BY <1>1, <4>1, <4>2, <4>3, <4>4
    <3>. QED
      BY <1>1, <3>1, <3>2 DEF Start, COpening, Before
  <2>2. CASE cAt # "print"
    BY <1>1, <1>2, <2>2 DEF ClientEdge, Edge, Where, Goes, Start, Active, COpening, Before,
         CHolds, SOpening
  <2>. QED
    BY <2>1, <2>2
<1>3. CASE OneEdge(dc, ds) \/ MultiEdge(dc, ds)
  <2>1. /\ cAt' = cAt
        /\ \/ sAt' \notin SOpening \cup {"serve", "open", "fill", "message"}
           \/ sAt \in {"serve", "open", "fill"} /\ sAt' \notin {"block_len", "signal"}
    BY <1>3 DEF OneEdge, MultiEdge, Edge, Where, Goes, SOpening
  <2>. QED
    BY <1>1, <2>1 DEF Start, Active
<1>. QED
  BY <1>2, <1>3 DEF InProgram

LEMMA DryProgram ==
  ASSUME Core, Content, NEW dc \in {-1, 0, 1}, NEW ds \in {-1, 0, 1}, InProgram(dc, ds)
  PROVE  Dry'
<1>1. Dry /\ cliV \in Nat /\ taken \in Nat /\ given \in Nat /\ sent \in Nat
  BY CountsFacts DEF Content
<1>2. CASE ClientEdge(dc, ds) /\ Effect("client", dc, ds)
  <2>1. cliV' = cliV + dc /\ cliV + dc >= 0 /\ taken' = taken - dc /\ sAt' = sAt
    BY <1>2, EffectNumbers DEF ClientNumbers, ClientEdge, Edge, Where, Goes
  <2>2. cAt' = "wait" => dc = 0 /\ taken >= 1
    <3>1. cAt' = "wait" => dc = 0 /\ cAt \in {"name_signal", "signal"}
      BY <1>2 DEF ClientEdge, Edge, Where, Goes
    <3>2. cAt \in {"name_signal", "signal"} => given = taken - 1
      BY DEF Core, Counts, CHolds
    <3>. QED
      BY <1>1, <3>1, <3>2
  <2>3. Active' => Active
    BY <1>2 DEF ClientEdge, Edge, Where, Goes, Active, COpening, Before, CHolds
  <2>4. cliV' + taken' = cliV + taken /\ (cliV = 0 => cliV' = 0 \/ dc = 1)
    BY <1>1, <2>1
  <2>5. dc # 1
    BY <1>2 DEF ClientEdge
  <2>. QED
    BY <1>1, <2>1, <2>2, <2>3, <2>4, <2>5 DEF Dry
<1>3. CASE (OneEdge(dc, ds) \/ MultiEdge(dc, ds)) /\ Effect("server", dc, ds)
  <2>1. taken' = taken /\ cAt' = cAt /\ sAt' \notin Gone
    BY <1>3, EffectNumbers DEF ServerNumbers, OneEdge, MultiEdge, Edge, Where, Goes, Gone
  <2>. QED
    BY <1>1, <2>1 DEF Dry
<1>. QED
  BY <1>2, <1>3 DEF InProgram

\* The segment: a step of client(),
LEMMA SegmentClient ==
  ASSUME Core, Turns, Content, NEW dc \in {-1, 0, 1}, NEW ds \in {-1, 0, 1},
         ClientEdge(dc, ds), Effect("client", dc, ds), AllData
  PROVE  Segment'
<1>. SUFFICES ASSUME One, Active' PROVE Segment'
  BY DEF Segment, One, ClientEdge
<1>1. /\ cliV \in Nat /\ servV \in Nat /\ taken \in Nat
      /\ cliV' = cliV + dc /\ servV' = servV + ds /\ cliV + dc >= 0 /\ servV + ds >= 0
      /\ Last \in Nat /\ Parts \in Nat
      /\ Parts' = IF cAt = "print" /\ cAt' = "signal" THEN Parts + 1 ELSE Parts
  BY ProgramFacts DEF Content, InProgram
<1>2. /\ exists' = exists /\ shm_program' = shm_program /\ ShmReply' = ShmReply /\ Last' = Last
      /\ sAt' = sAt
  BY ProgramFacts DEF Content, InProgram, ClientEdge, Edge, Where, Goes
<1>3. /\ sAt \in OneLabels /\ shm_offset' = shm_offset /\ Phases /\ Dry /\ Segment
      /\ mesg' = IF cAt = "name" /\ cAt' = "name_signal" THEN [len |-> 1, data |-> "name"]
                 ELSE mesg
  BY <1>2 DEF Core, Typed, One, Content, ClientEdge, AllData, SegmentData
<1>4. InPlace
  BY DEF Content
<1>. USE DEF Num, COpening, SOpening, Before, Gone, Leaving, CHolds, Active, Reads, Due, Shows
<1>5. CASE cAt = "ask" /\ cAt' = "name"
  BY <1>1, <1>2, <1>3, <1>5 DEF Segment, Phases
<1>6. CASE dc = -1 /\ cAt = "wait" /\ cAt' = "look"
  <2>1. sAt \notin Gone
    BY <1>1, <1>3, <1>6 DEF Dry
  <2>2. sAt \notin SOpening \cup {"serve"} \cup SingleS
    BY <1>1, <1>2, <1>3, <1>6, <2>1 DEF Phases, Turns, Alive, SingleC, One
  <2>3. sAt \in {"block_wait", "message_wait"} \cup Leaving
    BY <1>3, <2>1, <2>2 DEF OneLabels
  <2>. QED
    BY <1>1, <1>2, <1>3, <1>6, <2>3 DEF Segment
<1>7. CASE ds = 1 /\ dc = 0 /\ cAt \in {"name_signal", "signal"} /\ cAt' = "wait"
  <2>1. cAt = "signal" => sAt \notin SOpening \cup {"serve"}
    BY <1>3, <1>7 DEF Phases
  <2>2. sAt \in {"block_wait", "message_wait"} => cliV = 0
    BY <1>1, <1>7 DEF Turns, Alive, SingleC, One
  <2>. QED
    BY <1>1, <1>2, <1>3, <1>7, <2>1, <2>2 DEF Segment
<1>8. CASE cAt = "name" /\ cAt' = "name_signal"
  BY <1>1, <1>2, <1>3, <1>8 DEF Segment, Phases
<1>9. CASE cAt = "look" /\ cAt' = "print"
  <2>1. mesg.len > 0
    BY <1>9 DEF AllData, PrintData, Shown
  <2>2. Shows(mesg, Parts + 1)
    BY <1>3, <1>9 DEF Segment
  <2>3. Parts < Last
    BY <1>1, <2>1, <2>2
  <2>. QED
    BY <1>1, <1>2, <1>3, <1>9, <2>3 DEF Segment
<1>10. CASE cAt = "print" /\ cAt' = "signal"
  <2>1. sAt \notin SOpening \cup {"serve"}
    BY <1>3, <1>10 DEF Phases
  <2>2. sAt \notin Gone => sAt \notin SingleS
    BY <1>1, <1>10 DEF Turns, Alive, SingleC, One
  <2>3. sAt \in {"block_wait", "message_wait"} \cup Leaving \cup Gone
    BY <1>3, <2>1, <2>2 DEF OneLabels
  <2>4. sAt \notin Leaving
    BY <1>1, <1>3, <1>10 DEF Segment
  <2>. QED
    BY <1>1, <1>2, <1>3, <1>10, <2>3, <2>4 DEF Segment
<1>11. CASE cAt = "start" /\ cAt' = "open_c"
  BY <1>1, <1>2, <1>3, <1>11 DEF Segment
<1>. QED
  BY <1>5, <1>6, <1>7, <1>8, <1>9, <1>10, <1>11 DEF ClientEdge, Edge, Where, Goes

\* and of server().
LEMMA SegmentServer ==
  ASSUME Core, Turns, Content, NEW dc \in {-1, 0, 1}, NEW ds \in {-1, 0, 1},
         OneEdge(dc, ds) \/ MultiEdge(dc, ds), Effect("server", dc, ds), AllData
  PROVE  Segment'
<1>. SUFFICES ASSUME One, OneEdge(dc, ds), Active PROVE Segment'
  BY DEF Segment, One, OneEdge, MultiEdge, Edge, Where, Goes, Active
<1>1. /\ cliV \in Nat /\ servV \in Nat /\ taken \in Nat
      /\ cliV' = cliV + dc /\ servV' = servV + ds /\ cliV + dc >= 0 /\ servV + ds >= 0
      /\ Last \in Nat /\ Parts \in Nat /\ shm_offset \in 0 .. Len(Blocks) /\ Len(Blocks) \in Nat
  BY ProgramFacts DEF Content, InProgram
<1>2. /\ exists' = exists /\ shm_program' = shm_program /\ ShmReply' = ShmReply /\ Last' = Last
      /\ cAt' = cAt
  BY ProgramFacts DEF Content, InProgram, OneEdge, Edge, Where, Goes
<1>3. Parts' = Parts /\ Phases /\ Start /\ Segment /\ mesg \in Messages
  <2>1. Parts' = Parts
    BY <1>2, ProgramFacts DEF Content, InProgram
  <2>. QED
    BY <2>1 DEF Content, Core, InPlace
<1>4. cAt \in SingleC \cup {"wait"} => cliV + servV + Num(cAt \in SingleC) + Num(sAt \in SingleS) = 1
  BY DEF Turns, Alive, One, OneEdge, Edge, Where, Goes, Gone, SingleC
<1>5. /\ exists => Last = Len(Blocks) /\ \A k \in Nat : ShmReply[k] = Blocks[k]
      /\ ~exists => Last = 1 /\ ShmReply[1] = "cannot_open"
  BY ReplyFacts
<1>6. /\ mesg' = IF sAt' = sAt THEN mesg
                 ELSE IF sAt' = "message_len" THEN [mesg EXCEPT !.data = "cannot_open"]
                 ELSE IF sAt' = "block_len" THEN [mesg EXCEPT !.data = Blocks[shm_offset + 1]]
                 ELSE IF sAt' \in {"block_signal", "message_signal"} THEN [mesg EXCEPT !.len = 1]
                 ELSE IF sAt' = "end_signal" THEN [mesg EXCEPT !.len = 0]
                 ELSE mesg
      /\ sAt = "open" /\ sAt' = "read" => exists
      /\ sAt = "open" /\ sAt' = "message_len" => ~(exists /\ mesg.data = "name")
  BY <1>2 DEF AllData, SegmentData
<1>7. shm_offset' = IF sAt = "read" /\ sAt' = "block_len" THEN shm_offset + 1 ELSE shm_offset
  BY DEF OneEdge, Edge, Where, Goes
<1>8. \/ dc = 0 /\ ds = -1 /\ sAt = "serve" /\ sAt' = "open"
      \/ dc = 0 /\ ds = 0 /\ sAt = "open" /\ sAt' \in {"read", "message_len"}
      \/ dc = 0 /\ ds = 0 /\ sAt = "read" /\ sAt' = "block_len"
      \/ dc = 0 /\ ds = 0 /\ sAt = "read" /\ sAt' = "end"
      \/ dc = 0 /\ ds = 0 /\ \/ sAt = "block_len" /\ sAt' = "block_signal"
                             \/ sAt = "message_len" /\ sAt' = "message_signal"
      \/ dc = 1 /\ ds = 0 /\ sAt = "block_signal" /\ sAt' = "block_wait"
      \/ dc = 1 /\ ds = 0 /\ sAt = "message_signal" /\ sAt' = "message_wait"
      \/ dc = 0 /\ ds = -1 /\ \/ sAt = "block_wait" /\ sAt' = "read"
                              \/ sAt = "message_wait" /\ sAt' = "end"
      \/ dc = 0 /\ ds = 0 /\ sAt = "end" /\ sAt' = "end_signal"
      \/ dc = 1 /\ ds = 0 /\ sAt = "end_signal" /\ sAt' = "close_c"
  BY DEF OneEdge, Edge, Where, Goes
<1>9. sAt \in {"block_wait", "message_wait"} \cup SingleS =>
        cAt \in SingleC \cup {"wait"} /\ cAt \notin {"name", "name_signal"}
  BY <1>3 DEF Phases, SingleS, SingleC, Active, CHolds, Before, COpening, SOpening
<1>. USE DEF Num, COpening, SOpening, Before, Gone, Leaving, CHolds, Active, Reads, Due, Shows
<1>10. CASE dc = 0 /\ ds = -1 /\ sAt = "serve" /\ sAt' = "open"
  <2>1. mesg' = mesg /\ shm_offset' = shm_offset
    BY <1>10, <1>6, <1>7
  <2>2. cAt = "wait" /\ cliV = 0
    BY <1>1, <1>3, <1>10 DEF Phases
  <2>. QED
    BY <1>1, <1>2, <1>3, <1>10, <2>1, <2>2 DEF Segment
<1>11. CASE dc = 0 /\ ds = 0 /\ sAt = "open" /\ sAt' \in {"read", "message_len"}
  <2>1. cAt = "wait" /\ cliV = 0
    BY <1>1, <1>3, <1>4, <1>11 DEF Phases, SingleC, SingleS
  <2>2. mesg.data = "name" /\ shm_offset = 0 /\ Parts = 0
    BY <1>3, <1>11 DEF Segment, Start
  <2>3. /\ shm_offset' = 0
        /\ sAt' = "read" => exists
        /\ sAt' = "message_len" => ~exists /\ mesg'.data = "cannot_open"
    BY <1>3, <1>11, <1>6, <1>7, <2>2 DEF Messages
  <2>. QED
    BY <1>1, <1>2, <1>3, <1>11, <2>1, <2>2, <2>3 DEF Segment
<1>12. CASE dc = 0 /\ ds = 0 /\ sAt = "read" /\ sAt' = "block_len"
  <2>1. ~Reads /\ cAt \notin {"name_signal"} /\ cliV = 0
    BY <1>1, <1>3, <1>4, <1>12 DEF Phases, SingleC, SingleS
  <2>2. exists /\ Parts = shm_offset /\ shm_offset < Len(Blocks) /\ shm_offset' = shm_offset + 1
    BY <1>3, <1>12, <1>7, ProgramFacts DEF Segment, Content, InProgram
  <2>3. mesg'.data = Blocks[shm_offset + 1]
    BY <1>3, <1>12, <1>6 DEF Messages
  <2>. QED
    BY <1>1, <1>2, <1>3, <1>12, <2>1, <2>2, <2>3 DEF Segment
<1>13. CASE dc = 0 /\ ds = 0 /\ sAt = "read" /\ sAt' = "end"
  <2>1. ~Reads /\ cAt \notin {"name_signal"} /\ cliV = 0
    BY <1>1, <1>3, <1>4, <1>13 DEF Phases, SingleC, SingleS
  <2>2. exists /\ Parts = shm_offset /\ ~(shm_offset < Len(Blocks)) /\ shm_offset' = shm_offset
    BY <1>3, <1>13, <1>7 DEF Segment, AllData, SegmentData
  <2>. QED
    BY <1>1, <1>2, <1>3, <1>5, <1>13, <2>1, <2>2 DEF Segment
<1>14. CASE dc = 0 /\ ds = 0 /\ \/ sAt = "block_len" /\ sAt' = "block_signal"
                                \/ sAt = "message_len" /\ sAt' = "message_signal"
  <2>1. ~Reads /\ cAt \notin {"name_signal"} /\ cliV = 0
    BY <1>1, <1>3, <1>4, <1>14 DEF Phases, SingleC, SingleS
  <2>2. mesg'.data = mesg.data /\ mesg'.len = 1 /\ shm_offset' = shm_offset
    BY <1>3, <1>14, <1>6, <1>7 DEF Messages
  <2>. QED
    BY <1>1, <1>2, <1>3, <1>5, <1>14, <2>1, <2>2 DEF Segment
<1>15. CASE dc = 1 /\ ds = 0 /\ sAt = "block_signal" /\ sAt' = "block_wait"
  <2>1. cAt = "wait" /\ cliV = 0
    BY <1>1, <1>4, <1>15, <1>9 DEF SingleC, SingleS
  <2>2. mesg' = mesg /\ shm_offset' = shm_offset
    BY <1>15, <1>6, <1>7
  <2>. QED
    BY <1>1, <1>2, <1>3, <1>15, <2>1, <2>2 DEF Segment
<1>16. CASE dc = 1 /\ ds = 0 /\ sAt = "message_signal" /\ sAt' = "message_wait"
  <2>1. cAt = "wait" /\ cliV = 0
    BY <1>1, <1>4, <1>16, <1>9 DEF SingleC, SingleS
  <2>2. mesg' = mesg /\ shm_offset' = shm_offset
    BY <1>16, <1>6, <1>7
  <2>. QED
    BY <1>1, <1>2, <1>3, <1>16, <2>1, <2>2 DEF Segment
<1>17. CASE dc = 0 /\ ds = -1 /\ \/ sAt = "block_wait" /\ sAt' = "read"
                                 \/ sAt = "message_wait" /\ sAt' = "end"
  <2>1. servV >= 1 /\ cAt \in SingleC \cup {"wait"}
    BY <1>1, <1>17, <1>9
  <2>2. cAt = "wait" /\ cliV = 0
    BY <1>1, <1>4, <2>1
  <2>3. mesg' = mesg /\ shm_offset' = shm_offset
    BY <1>17, <1>6, <1>7
  <2>. QED
    BY <1>1, <1>2, <1>3, <1>5, <1>17, <2>2, <2>3 DEF Segment
<1>18. CASE dc = 0 /\ ds = 0 /\ sAt = "end" /\ sAt' = "end_signal"
  <2>1. ~Reads /\ cAt \notin {"name_signal"} /\ cliV = 0
    BY <1>1, <1>3, <1>4, <1>18 DEF Phases, SingleC, SingleS
  <2>2. mesg'.len = 0 /\ shm_offset' = shm_offset
    BY <1>3, <1>18, <1>6, <1>7 DEF Messages
  <2>. QED
    BY <1>1, <1>2, <1>3, <1>5, <1>18, <2>1, <2>2 DEF Segment
<1>19. CASE dc = 1 /\ ds = 0 /\ sAt = "end_signal" /\ sAt' = "close_c"
  <2>1. cAt = "wait" /\ cliV = 0
    BY <1>1, <1>3, <1>4, <1>19 DEF Phases, SingleC, SingleS
  <2>2. mesg' = mesg /\ shm_offset' = shm_offset
    BY <1>3, <1>19, <1>6, <1>7 DEF Messages
  <2>. QED
    BY <1>1, <1>2, <1>3, <1>5, <1>19, <2>1, <2>2 DEF Segment
<1>. HIDE DEF Num, Active, Reads, Due, Shows
<1>. QED
  BY <1>10, <1>11, <1>12, <1>13, <1>14, <1>15, <1>16, <1>18, <1>19, <1>17, <1>8

\* The buffers: what lies behind a buffer, as far as the ring goes round, is another one.
LEMMA BackFacts == ASSUME NEW j \in 0 .. NBUFF - 1
  PROVE  /\ Back(j, 0) = j
         /\ \A d \in 0 .. NBUFF : Back(j, d) \in 0 .. NBUFF - 1
         /\ \A d \in 1 .. NBUFF - 1 : Back(j, d) # j
         /\ Back(IF j = NBUFF - 1 THEN 0 ELSE j + 1, 1) = j
         /\ \A d \in 2 .. NBUFF : Back(IF j = NBUFF - 1 THEN 0 ELSE j + 1, d) = Back(j, d - 1)
<1>. NBUFF \in Nat /\ NBUFF >= 2
  BY FileProgramsAssumption
<1>. QED
  BY DEF Back

LEMMA BackTo ==
  ASSUME NEW j \in 0 .. NBUFF - 1, NEW c \in 0 .. NBUFF - 1, NEW v \in Nat, v >= 1,
         j + 1 = c + v \/ j + 1 = c + v - NBUFF
  PROVE  Back(j, v - 1) = c
<1>. NBUFF \in Nat /\ NBUFF >= 2
  BY FileProgramsAssumption
<1>. QED
  BY DEF Back

\* What both lemmas about the buffers start from.
RingFacts ==
  /\ cliV \in Nat /\ servV \in Nat /\ NBUFF \in Nat /\ NBUFF >= 2
  /\ i["client"] \in 0 .. NBUFF - 1 /\ i["server"] \in 0 .. NBUFF - 1
  /\ Last \in Nat /\ Parts \in Nat /\ Parts =< Last
  /\ shm_offset \in 0 .. Len(Blocks) /\ Len(Blocks) \in Nat
  /\ sAt \in MultiLabels /\ cAt \in ClientLabels
  /\ exists => Last = Len(Blocks)
  /\ ~exists => Last = 1 /\ ShmReply[1] = "cannot_open"

LEMMA RingFactsHold == ASSUME Core, InPlace, Multi PROVE RingFacts
<1>1. /\ cliV \in Nat /\ servV \in Nat /\ NBUFF \in Nat /\ NBUFF >= 2
      /\ Last \in Nat /\ Len(Blocks) \in Nat
      /\ exists => Last = Len(Blocks)
      /\ ~exists => Last = 1 /\ ShmReply[1] = "cannot_open"
  BY CountsFacts, ReplyFacts
<1>2. /\ i["client"] \in 0 .. NBUFF - 1 /\ i["server"] \in 0 .. NBUFF - 1
      /\ shm_offset \in 0 .. Len(Blocks) /\ cAt \in ClientLabels /\ sAt \in MultiLabels
  BY DEF Core, Typed, Parties, Multi
<1>3. Parts \in Nat /\ Parts =< Last
  <2>1. shm_printed \in Seq(Data) /\ Parts =< Last
    BY DEF InPlace
  <2>. QED
    BY <2>1 DEF Parts
<1>. QED
  BY <1>1, <1>2, <1>3 DEF RingFacts

\* A party that is let in finds its buffer where the other has left it.
LEMMA BufferedWait ==
  ASSUME RingFacts, Core, Ring, Dry, Buffered, Multi, cAt = "wait", cliV >= 1
  PROVE  /\ Shows(mesgptr[i["client"]], Parts + 1)
         /\ sAt \notin Gone \cup SOpening \cup {"serve", "open", "fill", "message", "message_signal",
                                              "message_end"} \cup Leaving
         /\ sAt = "end_signal" => exists
<1>. USE DEF RingFacts
<1>1. taken \in Nat /\ Done \in Int
  BY CountsFacts DEF Done, Num
<1>2. sAt \notin Gone
  BY <1>1 DEF Dry, Active
<1>3. sAt \notin SOpening \cup {"serve"}
  BY DEF Core, Phases, Before
<1>4. /\ sAt \in {"open"} \cup MessageS \/ (sAt = "end_signal" /\ ~exists) =>
           cliV + servV + Num(sAt # "message_wait") = 1
      /\ sAt # "fill"
      /\ sAt \in BlockS \/ (sAt = "end_signal" /\ exists) =>
           \/ i["server"] = i["client"] + cliV
           \/ i["server"] = i["client"] + cliV - NBUFF
      /\ sAt \in BlockS \cup {"fill"} => exists
      /\ sAt \in MessageS => ~exists
  BY <1>2 DEF Ring, Alive, Multi, Num, CHolds, Gone
<1>5. sAt \notin {"open", "message", "message_signal", "message_end"} /\ (sAt = "end_signal" => exists)
  BY <1>4 DEF MessageS, Num
<1>6. sAt \notin Leaving
  BY DEF Buffered, Active
<1>7. CASE sAt \in BlockS \cup {"end_signal"}
  <2>1. Filled /\ exists
    BY <1>4, <1>5, <1>7 DEF Buffered, Active
  <2>2. Full = cliV /\ Top = 0
    BY <1>7 DEF Full, Top, Reads, Num, BlockS
  <2>3. /\ Parts + cliV = Done
        /\ \A d \in 1 .. cliV : Shows(mesgptr[Back(i["server"], d)], Done + 1 - d)
    BY <1>1, <2>1, <2>2 DEF Filled
  <2>4. Back(i["server"], cliV) = i["client"]
    BY <1>4, <1>7, <2>1 DEF Back
  <2>5. Done + 1 - cliV = Parts + 1
    BY <1>1, <2>3
  <2>. QED
    BY <1>2, <1>3, <1>4, <1>5, <1>6, <2>3, <2>4, <2>5
<1>8. CASE sAt = "poll" /\ exists
  <2>1. Filled
    BY <1>8 DEF Buffered, Active
  <2>2. Full = cliV /\ Top = 1
    BY <1>8 DEF Full, Top, Reads, Num
  <2>3. /\ Parts + cliV = Done + 1
        /\ \A d \in 0 .. cliV - 1 : Shows(mesgptr[Back(i["server"], d)], Done + 1 - d)
    BY <1>1, <2>1, <2>2 DEF Filled
  <2>4. \/ i["server"] + 1 = i["client"] + cliV
        \/ i["server"] + 1 = i["client"] + cliV - NBUFF
    BY <1>8, <2>1 DEF Filled, Num, CHolds
  <2>5. Back(i["server"], cliV - 1) = i["client"]
    BY <2>4, BackTo
  <2>6. Done + 1 - (cliV - 1) = Parts + 1
    BY <1>1, <2>3
  <2>. QED
    BY <1>2, <1>3, <1>4, <1>5, <1>6, <1>8, <2>3, <2>5, <2>6
<1>9. CASE sAt = "message_wait" \/ (sAt = "poll" /\ ~exists)
  <2>1. Told /\ ~exists
    BY <1>4, <1>9 DEF Buffered, Active, MessageS
  <2>2. CASE sAt = "message_wait"
    <3>1. Parts = 0 /\ i["client"] = 0 /\ mesgptr[0].len = 1 /\ mesgptr[0].data = "cannot_open"
      BY <2>1, <2>2 DEF Told, Due, Reads, Num
    <3>. QED
      BY <1>2, <1>3, <1>4, <1>5, <1>6, <2>1, <2>2, <3>1 DEF Shows
  <2>3. CASE sAt = "poll"
    <3>1. Parts = 1 /\ i["client"] = 1 /\ mesgptr[1].len = 0
      BY <2>1, <2>3 DEF Told, Num
    <3>. QED
      BY <1>2, <1>3, <1>4, <1>5, <1>6, <2>1, <2>3, <3>1 DEF Shows
  <2>. QED
    BY <1>9, <2>2, <2>3
<1>. QED
  BY <1>2, <1>3, <1>4, <1>5, <1>6, <1>7, <1>8, <1>9 DEF MultiLabels, MessageS

\* A step of client() leaves the buffers as they are, and the undo of what it printed.
LEMMA FilledStill ==
  ASSUME RingFacts, Filled, mesgptr' = mesgptr, i'["server"] = i["server"],
         shm_offset' = shm_offset, sAt' = sAt, ShmReply' = ShmReply, Last' = Last,
         cliV' \in Nat, Parts' \in Nat, Parts' + Full' = Parts + Full, Full' =< Full,
         sAt = "poll" =>
           /\ cliV' + Num(cAt' \in CHolds) \in 1 .. NBUFF
           /\ \/ i["server"] + 1 = i'["client"] + cliV' + Num(cAt' \in CHolds)
              \/ i["server"] + 1 = i'["client"] + cliV' + Num(cAt' \in CHolds) - NBUFF
  PROVE  Filled'
<1>1. Done' = Done /\ Top' = Top /\ Done \in Int /\ Top \in {0, 1}
  BY DEF Done, Top, Num, RingFacts
<1>2. Full \in Nat /\ Full' \in Nat
  <2>1. cliV \in Nat /\ Num(Reads) \in Nat /\ Num(Reads') \in Nat
    BY DEF Num, RingFacts
  <2>2. \A m, n \in Nat : m + n \in Nat
    OBVIOUS
  <2>3. Full = cliV + Num(Reads) /\ Full' = cliV' + Num(Reads')
    BY DEF Full, Num
  <2>. QED
    BY <2>1, <2>2, <2>3, Zenon
<1>3. Parts' + Full' = Done' + Top'
  BY <1>1 DEF Filled
<1>4. \A d \in 1 - Top' .. Full' - Top' : d \in 1 - Top .. Full - Top
  <2>1. \A t \in {0, 1}, m, n \in Nat : m =< n => \A d \in 1 - t .. m - t : d \in 1 - t .. n - t
    OBVIOUS
  <2>. QED
    BY <1>1, <1>2, <2>1, Zenon
<1>5. \A d \in 1 - Top' .. Full' - Top' : Shows(mesgptr[Back(i["server"], d)], Done + 1 - d)
  BY <1>4 DEF Filled
<1>6. \A d \in 1 - Top' .. Full' - Top' : Shows(mesgptr[Back(i["server"], d)], Done + 1 - d)'
  BY <1>1, <1>5 DEF Shows
<1>. QED
  BY <1>3, <1>6 DEF Filled, Shows

\* The buffers: a step of client(),
LEMMA BufferedClient ==
  ASSUME Core, Ring, Content, NEW dc \in {-1, 0, 1}, NEW ds \in {-1, 0, 1},
         ClientEdge(dc, ds), Effect("client", dc, ds), AllData
  PROVE  Buffered'
<1>. SUFFICES ASSUME Multi, Active' PROVE Buffered'
  BY DEF Buffered, Multi, ClientEdge
<1>1. InPlace /\ Dry /\ Buffered /\ RingFacts
  BY RingFactsHold DEF Content
<1>2. /\ cliV \in Nat /\ servV \in Nat /\ NBUFF \in Nat /\ NBUFF >= 2
      /\ cliV' = cliV + dc /\ servV' = servV + ds /\ cliV + dc >= 0 /\ servV + ds >= 0
      /\ Last \in Nat /\ Parts \in Nat /\ Parts =< Last
      /\ Parts' = IF cAt = "print" /\ cAt' = "signal" THEN Parts + 1 ELSE Parts
      /\ i["client"] \in 0 .. NBUFF - 1 /\ i["server"] \in 0 .. NBUFF - 1
  BY <1>1, ProgramFacts DEF InProgram, InPlace
<1>3. /\ exists' = exists /\ shm_program' = shm_program /\ ShmReply' = ShmReply /\ Last' = Last
      /\ shm_offset' = shm_offset /\ sAt' = sAt
      /\ i'["server"] = i["server"]
      /\ i'["client"] = IF cAt = "signal" THEN (i["client"] + 1) % NBUFF ELSE i["client"]
      /\ cAt # "name" => mesgptr' = mesgptr
      /\ sAt \in MultiLabels /\ Phases
  <2>1. shm_program = "11_multi_buffer"
    BY DEF Multi
  <2>2. /\ exists' = exists /\ ShmReply' = ShmReply /\ Last' = Last
    BY <1>1, ProgramFacts DEF InProgram
  <2>. QED
    BY <2>1, <2>2 DEF Core, Typed, ClientEdge, Edge, Where, Goes, Parties
<1>4. i'["client"] = IF cAt # "signal" THEN i["client"]
                     ELSE IF i["client"] = NBUFF - 1 THEN 0 ELSE i["client"] + 1
  BY <1>2, <1>3, TurnFact
<1>5. cAt \in {"wait"} \cup CHolds =>
        /\ sAt \in {"open"} \cup MessageS \/ (sAt = "end_signal" /\ ~exists)
             => cliV + servV + Num(cAt \in CHolds) + Num(sAt # "message_wait") = 1
        /\ sAt # "fill" \/ cAt = "wait"
  BY DEF Ring, Alive, Multi, Gone, CHolds, MessageS
<1>6. \/ cAt \in {"ask", "name", "name_signal", "start"} /\ cAt' \in COpening \cup Before \cup {"wait"}
      \/ dc = -1 /\ ds = 0 /\ cAt = "wait" /\ cAt' = "look"
      \/ dc = 0 /\ ds = 1 /\ cAt = "signal" /\ cAt' = "wait"
      \/ dc = 0 /\ ds = 0 /\ cAt = "look" /\ cAt' = "print"
      \/ dc = 0 /\ ds = 0 /\ cAt = "print" /\ cAt' = "signal"
  BY DEF ClientEdge, Edge, Where, Goes, Active, COpening, Before, CHolds
<1>7. CASE cAt \in {"ask", "name", "name_signal", "start"} /\ cAt' \in COpening \cup Before \cup {"wait"}
  <2>1. sAt \in SOpening \cup {"serve", "dead"}
    BY <1>3, <1>7 DEF Phases, COpening, Before
  <2>. QED
    BY <1>3, <1>7, <2>1 DEF Buffered, Reads, COpening, Before, SOpening, BlockS, Leaving
<1>. HIDE DEF RingFacts
<1>8. CASE dc = -1 /\ ds = 0 /\ cAt = "wait" /\ cAt' = "look"
  <2>1. cliV >= 1
    BY <1>2, <1>8
  <2>2. /\ Shows(mesgptr[i["client"]], Parts + 1)
        /\ sAt \notin Gone \cup SOpening \cup {"serve", "open", "fill", "message", "message_signal",
                                              "message_end"} \cup Leaving
        /\ sAt = "end_signal" => exists
    BY <1>1, <1>8, <2>1, BufferedWait
  <2>3. /\ mesgptr' = mesgptr /\ i'["client"] = i["client"] /\ Parts' = Parts /\ cliV' = cliV - 1
    BY <1>2, <1>3, <1>4, <1>8
  <2>4. Shows(mesgptr[i["client"]], Parts + 1)'
    BY <1>3, <2>2, <2>3 DEF Shows
  <2>5. ASSUME Filled PROVE Filled'
    <3>1. Full' = Full
      BY <1>2, <1>8, <2>3 DEF Full, Reads, Num
    <3>2. cliV' + Num(cAt' \in CHolds) = cliV + Num(cAt \in CHolds)
      BY <1>2, <1>8, <2>3 DEF CHolds, Num
    <3>3. Full \in Nat
      BY <1>2 DEF Full, Num
    <3>4. cliV' \in Nat /\ Parts' \in Nat /\ Parts' + Full' = Parts + Full /\ Full' =< Full
      BY <1>2, <2>3, <2>1, <3>1, <3>3
    <3>5. sAt = "poll" =>
           /\ cliV' + Num(cAt' \in CHolds) \in 1 .. NBUFF
           /\ \/ i["server"] + 1 = i'["client"] + cliV' + Num(cAt' \in CHolds)
              \/ i["server"] + 1 = i'["client"] + cliV' + Num(cAt' \in CHolds) - NBUFF
      <4>1. ASSUME sAt = "poll"
            PROVE  LET n == cliV + Num(cAt \in CHolds)
                   IN  /\ n \in 1 .. NBUFF
                       /\ i["server"] + 1 = i["client"] + n \/ i["server"] + 1 = i["client"] + n - NBUFF
        BY <1>2, <1>8, <2>5, <4>1 DEF Filled, CHolds, Num
      <4>. QED
        BY <1>2, <1>8, <2>3, <4>1 DEF CHolds, Num
    <3>. QED
      BY <1>1, <1>3, <2>3, <2>5, <3>4, <3>5, FilledStill
  <2>6. ASSUME Told PROVE Told'
    BY <1>2, <1>3, <1>8, <2>1, <2>3, <2>6 DEF Told, Due, Reads, Num
  <2>7. (exists /\ sAt \in BlockS \cup {"end_signal", "poll"} => Filled)
    BY <1>1, <1>8 DEF Buffered, Active
  <2>8. ~exists /\ sAt \in {"message_signal", "message_wait", "message_end", "end_signal", "poll"}
       => Told
    BY <1>1, <1>8 DEF Buffered, Active
  <2>. QED
    BY <1>3, <1>8, <2>2, <2>4, <2>5, <2>6, <2>7, <2>8 DEF Buffered, Reads
<1>9. CASE dc = 0 /\ ds = 1 /\ cAt = "signal" /\ cAt' = "wait"
  <2>1. /\ mesgptr' = mesgptr /\ Parts' = Parts /\ cliV' = cliV
        /\ i'["client"] = IF i["client"] = NBUFF - 1 THEN 0 ELSE i["client"] + 1
    BY <1>2, <1>3, <1>4, <1>9
  <2>2. ASSUME Filled PROVE Filled'
    <3>1. Full' = Full
      BY <1>9, <2>1 DEF Full, Reads, Num
    <3>2. Full \in Nat
      BY <1>2 DEF Full, Num
    <3>3. cliV' \in Nat /\ Parts' \in Nat /\ Parts' + Full' = Parts + Full /\ Full' =< Full
      BY <1>2, <2>1, <3>1, <3>2
    <3>4. sAt = "poll" =>
           /\ cliV' + Num(cAt' \in CHolds) \in 1 .. NBUFF
           /\ \/ i["server"] + 1 = i'["client"] + cliV' + Num(cAt' \in CHolds)
              \/ i["server"] + 1 = i'["client"] + cliV' + Num(cAt' \in CHolds) - NBUFF
      <4>1. ASSUME sAt = "poll"
            PROVE  /\ cliV + 1 \in 1 .. NBUFF
                   /\ \/ i["server"] + 1 = i["client"] + (cliV + 1)
                      \/ i["server"] + 1 = i["client"] + (cliV + 1) - NBUFF
                   /\ Parts + cliV = Last + 1
        <5>1. /\ shm_offset = Last /\ Parts + Full = Done + Top
              /\ cliV + Num(cAt \in CHolds) \in 1 .. NBUFF
              /\ \/ i["server"] + 1 = i["client"] + cliV + Num(cAt \in CHolds)
                 \/ i["server"] + 1 = i["client"] + cliV + Num(cAt \in CHolds) - NBUFF
          BY <2>2, <4>1 DEF Filled
        <5>2. Full = cliV /\ Done = Last /\ Top = 1 /\ Num(cAt \in CHolds) = 1
          BY <1>2, <1>9, <4>1, <5>1 DEF Full, Done, Top, Num, Reads, CHolds
        <5>. QED
          BY <1>2, <5>1, <5>2
      <4>2. ASSUME sAt = "poll"
            PROVE  /\ cliV \in 1 .. NBUFF
                   /\ i["server"] + 1 = i'["client"] + cliV \/ i["server"] + 1 = i'["client"] + cliV - NBUFF
        BY <1>2, <2>1, <4>1, <4>2
      <4>3. Num(cAt' \in CHolds) = 0
        BY <1>9 DEF CHolds, Num
      <4>. QED
        BY <1>2, <2>1, <4>2, <4>3
    <3>. QED
      BY <1>1, <1>3, <2>1, <2>2, <3>3, <3>4, FilledStill
  <2>3. ASSUME Told, ~exists PROVE Told'
    <3>1. i["client"] = Parts - 1 /\ Last = 1
      BY <1>1, <1>9, <2>3 DEF Told, Num, RingFacts
    <3>2. Parts = 1 /\ i'["client"] = 1
      BY <1>2, <2>1, <3>1
    <3>3. sAt = "message_wait" => cliV = 0
      BY <1>2, <1>5, <1>9 DEF MessageS, Num, CHolds
    <3>. QED
      BY <1>2, <1>3, <1>9, <2>1, <2>3, <3>2, <3>3 DEF Told, Due, Reads, Num
  <2>4. sAt # "message"
    BY <1>2, <1>5, <1>9 DEF MessageS, Num, CHolds
  <2>5. /\ exists /\ sAt \in BlockS \cup {"end_signal", "poll"} => Filled
        /\ ~exists /\ sAt \in {"message_signal", "message_wait", "message_end", "end_signal", "poll"}
             => Told
        /\ sAt \notin Leaving
    BY <1>1, <1>9 DEF Buffered, Active, CHolds
  <2>. QED
    BY <1>3, <1>9, <2>2, <2>3, <2>4, <2>5 DEF Buffered, Reads
<1>10. CASE dc = 0 /\ ds = 0 /\ cAt = "look" /\ cAt' = "print"
  <2>1. /\ mesgptr' = mesgptr /\ Parts' = Parts /\ cliV' = cliV /\ i'["client"] = i["client"]
    BY <1>2, <1>3, <1>4, <1>10
  <2>2. Shows(mesgptr[i["client"]], Parts + 1) /\ Parts < Last
    <3>1. mesgptr[i["client"]].len > 0
      BY <1>10 DEF AllData, PrintData, Shown, Multi, One
    <3>2. Shows(mesgptr[i["client"]], Parts + 1)
      BY <1>1, <1>10 DEF Buffered, Active, Reads, CHolds
    <3>. QED
      BY <1>2, <3>1, <3>2 DEF Shows
  <2>3. Shows(mesgptr[i["client"]], Parts + 1)'
    BY <1>3, <2>2, <2>1 DEF Shows
  <2>4. ASSUME Filled PROVE Filled'
    <3>1. Full' = Full /\ Full \in Nat
      BY <1>2, <1>10, <2>1 DEF Full, Reads, Num
    <3>2. cliV' \in Nat /\ Parts' \in Nat /\ Parts' + Full' = Parts + Full /\ Full' =< Full
      BY <1>2, <2>1, <3>1
    <3>3. Num(cAt' \in CHolds) = 1 /\ Num(cAt \in CHolds) = 1
      BY <1>10 DEF CHolds, Num
    <3>4. sAt = "poll" =>
           /\ cliV' + Num(cAt' \in CHolds) \in 1 .. NBUFF
           /\ \/ i["server"] + 1 = i'["client"] + cliV' + Num(cAt' \in CHolds)
              \/ i["server"] + 1 = i'["client"] + cliV' + Num(cAt' \in CHolds) - NBUFF
      BY <2>1, <2>4, <3>3 DEF Filled
    <3>. QED
      BY <1>1, <1>3, <2>1, <2>4, <3>2, <3>4, FilledStill
  <2>5. ASSUME Told, ~exists PROVE Told'
    <3>1. Last = 1 /\ sAt # "poll"
      BY <1>1, <1>2, <2>2, <2>5 DEF Told, RingFacts
    <3>. QED
      BY <1>2, <1>3, <1>10, <2>1, <2>5, <3>1 DEF Told, Due, Reads, Num
  <2>6. /\ exists /\ sAt \in BlockS \cup {"end_signal", "poll"} => Filled
        /\ ~exists /\ sAt \in {"message_signal", "message_wait", "message_end", "end_signal", "poll"}
             => Told
        /\ sAt \notin Leaving
        /\ sAt = "message" => i["client"] = 0
    BY <1>1, <1>2, <1>10, <2>2 DEF Buffered, Active, CHolds
  <2>. QED
    BY <1>3, <1>10, <2>2, <2>1, <2>3, <2>4, <2>5, <2>6 DEF Buffered, Reads
<1>11. CASE dc = 0 /\ ds = 0 /\ cAt = "print" /\ cAt' = "signal"
  <2>1. /\ mesgptr' = mesgptr /\ Parts' = Parts + 1 /\ cliV' = cliV /\ i'["client"] = i["client"]
    BY <1>2, <1>3, <1>4, <1>11
  <2>2. Parts < Last
    BY <1>1, <1>11 DEF Buffered, Active, CHolds
  <2>3. ASSUME Filled PROVE Filled'
    <3>1. Full' = cliV /\ Full = cliV + 1
      BY <1>2, <1>11, <2>1 DEF Full, Reads, Num
    <3>2. cliV' \in Nat /\ Parts' \in Nat /\ Parts' + Full' = Parts + Full /\ Full' =< Full
      BY <1>2, <2>1, <3>1
    <3>3. Num(cAt' \in CHolds) = 1 /\ Num(cAt \in CHolds) = 1
      BY <1>11 DEF CHolds, Num
    <3>4. sAt = "poll" =>
           /\ cliV' + Num(cAt' \in CHolds) \in 1 .. NBUFF
           /\ \/ i["server"] + 1 = i'["client"] + cliV' + Num(cAt' \in CHolds)
              \/ i["server"] + 1 = i'["client"] + cliV' + Num(cAt' \in CHolds) - NBUFF
      BY <2>1, <2>3, <3>3 DEF Filled
    <3>. QED
      BY <1>1, <1>3, <2>1, <2>3, <3>2, <3>4, FilledStill
  <2>4. ASSUME Told, ~exists PROVE Told'
    <3>1. Last = 1 /\ Parts = 0 /\ sAt # "poll" /\ i["client"] = 0
      BY <1>1, <1>2, <1>11, <2>2, <2>4 DEF Told, RingFacts, Num
    <3>2. sAt \notin {"message_signal", "message_end", "end_signal"}
      BY <1>2, <1>5, <1>11, <2>4 DEF MessageS, Num, CHolds
    <3>. QED
      BY <1>2, <1>3, <1>11, <2>1, <2>4, <3>1, <3>2 DEF Told, Due, Reads, Num
  <2>5. sAt # "message"
    BY <1>2, <1>5, <1>11 DEF MessageS, Num, CHolds
  <2>6. /\ exists /\ sAt \in BlockS \cup {"end_signal", "poll"} => Filled
        /\ ~exists /\ sAt \in {"message_signal", "message_wait", "message_end", "end_signal", "poll"}
             => Told
        /\ sAt \notin Leaving
    BY <1>1, <1>2, <1>11, <2>2 DEF Buffered, Active, CHolds
  <2>. QED
    BY <1>3, <1>11, <2>3, <2>4, <2>5, <2>6 DEF Buffered, Reads
<1>. QED
  BY <1>6, <1>7, <1>8, <1>9, <1>10, <1>11

\* The clauses about the file hold after a step that leads to them.
LEMMA FilledFold ==
  ASSUME ShmReply' = ShmReply, Last' = Last, NEW n \in Nat, NEW o \in Int, NEW t \in {0, 1},
         Full' = n, Done' = o, Top' = t, Parts' + n = o + t,
         \A d \in 1 - t .. n - t : Shows(mesgptr'[Back(i'["server"], d)], o + 1 - d),
         sAt' = "len" /\ shm_offset' < Last =>
           mesgptr'[i'["server"]].data = Blocks[shm_offset' + 1],
         sAt' = "signal" => Shows(mesgptr'[i'["server"]], shm_offset'),
         sAt' \in {"end_signal", "poll"} => shm_offset' = Last /\ mesgptr'[i'["server"]].len = 0,
         sAt' = "poll" =>
           /\ cliV' + Num(cAt' \in CHolds) \in 1 .. NBUFF
           /\ \/ i'["server"] + 1 = i'["client"] + cliV' + Num(cAt' \in CHolds)
              \/ i'["server"] + 1 = i'["client"] + cliV' + Num(cAt' \in CHolds) - NBUFF
  PROVE  Filled'
<1>1. \A d \in 1 - t .. n - t : Shows(mesgptr[Back(i["server"], d)], o + 1 - d)'
  BY DEF Shows
<1>2. sAt' = "signal" => Shows(mesgptr[i["server"]], shm_offset)'
  BY DEF Shows
<1>3. /\ (Parts + Full = Done + Top)'
      /\ (\A d \in 1 - Top .. Full - Top : Shows(mesgptr[Back(i["server"], d)], Done + 1 - d))'
  BY <1>1
<1>4. /\ (sAt = "len" /\ shm_offset < Last => mesgptr[i["server"]].data = Blocks[shm_offset + 1])'
      /\ (sAt \in {"end_signal", "poll"} => shm_offset = Last /\ mesgptr[i["server"]].len = 0)'
      /\ (sAt = "poll" =>
           /\ cliV + Num(cAt \in CHolds) \in 1 .. NBUFF
           /\ \/ i["server"] + 1 = i["client"] + cliV + Num(cAt \in CHolds)
              \/ i["server"] + 1 = i["client"] + cliV + Num(cAt \in CHolds) - NBUFF)'
  OBVIOUS
<1>. QED
  BY <1>2, <1>3, <1>4 DEF Filled

\* and of server().
LEMMA BufferedServer ==
  ASSUME Core, Ring, Content, NEW dc \in {-1, 0, 1}, NEW ds \in {-1, 0, 1},
         OneEdge(dc, ds) \/ MultiEdge(dc, ds), Effect("server", dc, ds), AllData
  PROVE  Buffered'
<1>. SUFFICES ASSUME Multi, MultiEdge(dc, ds), Active PROVE Buffered'
  BY DEF Buffered, Multi, OneEdge, MultiEdge, Edge, Where, Goes, Active
<1>1. InPlace /\ Start /\ Buffered /\ RingFacts
  BY RingFactsHold DEF Content
<1>2. /\ cliV \in Nat /\ servV \in Nat /\ NBUFF \in Nat /\ NBUFF >= 2
      /\ cliV' = cliV + dc /\ servV' = servV + ds /\ cliV + dc >= 0 /\ servV + ds >= 0
      /\ Last \in Nat /\ Parts \in Nat /\ Parts =< Last
      /\ i["client"] \in 0 .. NBUFF - 1 /\ i["server"] \in 0 .. NBUFF - 1
      /\ shm_offset \in 0 .. Len(Blocks) /\ Len(Blocks) \in Nat
      /\ mesgptr \in [0 .. NBUFF - 1 -> Messages] /\ exists \in BOOLEAN
  BY <1>1, ProgramFacts DEF InProgram, InPlace
<1>3. /\ exists' = exists /\ shm_program' = shm_program /\ ShmReply' = ShmReply /\ Last' = Last
      /\ cAt' = cAt /\ cAt \in ClientLabels /\ Phases
      /\ Parts' = Parts
      /\ i'["client"] = i["client"]
      /\ i'["server"] = IF sAt \in {"fill", "signal"} THEN (i["server"] + 1) % NBUFF
                        ELSE i["server"]
      /\ shm_offset' = IF sAt = "len" /\ sAt' = "signal" THEN shm_offset + 1 ELSE shm_offset
      /\ shm_program = "11_multi_buffer"
  <2>1. cAt' = cAt
    BY DEF MultiEdge, Edge, Where, Goes
  <2>2. exists' = exists /\ shm_program' = shm_program /\ ShmReply' = ShmReply /\ Last' = Last
        /\ Parts' = Parts
    BY <1>1, <2>1, ProgramFacts DEF InProgram
  <2>. QED
    BY <2>1, <2>2 DEF Core, Typed, MultiEdge, Edge, Where, Goes, Parties
<1>4. i'["server"] = IF sAt \notin {"fill", "signal"} THEN i["server"]
                     ELSE IF i["server"] = NBUFF - 1 THEN 0 ELSE i["server"] + 1
  BY <1>2, <1>3, TurnFact
<1>5. /\ mesgptr' = IF sAt' = sAt THEN mesgptr
                    ELSE IF sAt' = "message_signal"
                    THEN [mesgptr EXCEPT ![0] = [len |-> 1, data |-> "cannot_open"]]
                    ELSE IF sAt = "message_end" /\ sAt' = "end_signal"
                    THEN [mesgptr EXCEPT ![1].len = 0]
                    ELSE IF sAt' = "len" /\ shm_offset < Len(Blocks)
                    THEN [mesgptr EXCEPT ![i["server"]].data = Blocks[shm_offset + 1]]
                    ELSE IF sAt = "len" /\ sAt' \in {"signal", "end_signal"}
                    THEN [mesgptr EXCEPT ![i["server"]].len =
                            IF shm_offset < Len(Blocks) THEN 1 ELSE 0]
                    ELSE mesgptr
      /\ sAt = "len" /\ sAt' = "end_signal" => ~(shm_offset < Len(Blocks))
      /\ sAt = "poll" /\ sAt' = "close_c" => cliV = 0
      /\ sAt = "len" /\ sAt' = "signal" => shm_offset < Len(Blocks)
  BY <1>3 DEF AllData, RingData, Multi, MultiEdge, Edge, Where, Goes
<1>6. \/ dc = 0 /\ ds = -1 /\ sAt = "serve" /\ sAt' = "open"
      \/ dc = 0 /\ ds = 0 /\ sAt = "open" /\ sAt' \in {"fill", "message"}
      \/ dc = 0 /\ ds = 1 /\ sAt = "fill" /\ sAt' \in {"fill", "wait"}
      \/ dc = 0 /\ ds = -1 /\ sAt = "wait" /\ sAt' = "read"
      \/ dc = 0 /\ ds = 0 /\ sAt = "read" /\ sAt' = "len"
      \/ dc = 0 /\ ds = 0 /\ sAt = "len" /\ sAt' = "signal"
      \/ dc = 0 /\ ds = 0 /\ sAt = "len" /\ sAt' = "end_signal"
      \/ dc = 1 /\ ds = 0 /\ sAt = "signal" /\ sAt' = "wait"
      \/ dc = 1 /\ ds = 0 /\ sAt = "end_signal" /\ sAt' = "poll"
      \/ dc = 0 /\ ds = 0 /\ sAt = "message" /\ sAt' = "message_signal"
      \/ dc = 1 /\ ds = 0 /\ sAt = "message_signal" /\ sAt' = "message_wait"
      \/ dc = 0 /\ ds = -1 /\ sAt = "message_wait" /\ sAt' = "message_end"
      \/ dc = 0 /\ ds = 0 /\ sAt = "message_end" /\ sAt' = "end_signal"
      \/ dc = 0 /\ ds = 0 /\ sAt = "poll" /\ sAt' = "close_c"
  BY DEF MultiEdge, Edge, Where, Goes
<1>7. /\ sAt \notin SOpening \cup {"serve"} => cAt \in {"wait"} \cup CHolds
      /\ sAt = "serve" => cAt \in COpening \cup Before \cup {"wait"}
      /\ sAt \notin Gone /\ cAt \notin Gone
  BY <1>3, <1>6 DEF Phases, Active, Gone, COpening, Before, CHolds, SOpening
<1>8. /\ sAt \in {"fill"} \cup BlockS => exists
      /\ sAt \in MessageS => ~exists
      /\ sAt \in {"open", "fill"} /\ cAt = "wait" => i["client"] = 0
      /\ cAt \in {"wait"} \cup CHolds =>
           /\ sAt \in {"open"} \cup MessageS \/ (sAt = "end_signal" /\ ~exists)
                => cliV + servV + Num(cAt \in CHolds) + Num(sAt # "message_wait") = 1
           /\ sAt = "fill" => cliV = 0 /\ cAt = "wait"
           /\ sAt \in BlockS \/ (sAt = "end_signal" /\ exists) =>
                /\ cliV + servV + Num(cAt \in CHolds) + Num(sAt # "wait") = NBUFF
                /\ \/ i["server"] = i["client"] + cliV + Num(cAt \in CHolds)
                   \/ i["server"] = i["client"] + cliV + Num(cAt \in CHolds) - NBUFF
  BY <1>3, <1>7 DEF Ring, Alive
\* The client still finds what it was let in to.
<1>9. ASSUME Reads => mesgptr'[i["client"]] = mesgptr[i["client"]]
      PROVE  /\ (Reads => Shows(mesgptr[i["client"]], Parts + 1))'
             /\ (cAt = "print" => Parts < Last)'
  <2>1. /\ Reads => Shows(mesgptr[i["client"]], Parts + 1)
        /\ cAt = "print" => Parts < Last
    BY <1>1 DEF Buffered
  <2>. QED
    BY <1>3, <1>9, <2>1 DEF Reads, Shows
<1>10. exists => Last = Len(Blocks) /\ ShmReply = Blocks
  BY ReplyFacts
<1>11. /\ exists /\ sAt \in BlockS \cup {"end_signal", "poll"} => Filled
       /\ ~exists /\ sAt \in {"message_signal", "message_wait", "message_end", "end_signal", "poll"}
            => Told
       /\ sAt = "message" => i["client"] = 0
  BY <1>1 DEF Buffered
<1>12. /\ Num(Reads) \in {0, 1} /\ Num(cAt \in CHolds) \in {0, 1}
       /\ Num(Reads) =< Num(cAt \in CHolds)
       /\ Full = cliV + Num(Reads) /\ Full' = cliV' + Num(Reads) /\ Full \in Nat
       /\ Done = IF sAt = "signal" THEN shm_offset - 1 ELSE shm_offset
       /\ Done' = IF sAt' = "signal" THEN shm_offset' - 1 ELSE shm_offset'
       /\ Top = IF sAt = "poll" THEN 1 ELSE 0
       /\ Top' = IF sAt' = "poll" THEN 1 ELSE 0
  <2>1. /\ Num(Reads) \in {0, 1} /\ Num(cAt \in CHolds) \in {0, 1}
        /\ Num(Reads) =< Num(cAt \in CHolds)
    BY DEF Num, Reads, CHolds
  <2>2. /\ Full = cliV + Num(Reads) /\ Full' = cliV' + Num(Reads)
    BY <1>3 DEF Full, Reads
  <2>3. /\ Done = IF sAt = "signal" THEN shm_offset - 1 ELSE shm_offset
        /\ Top = IF sAt = "poll" THEN 1 ELSE 0
    BY <1>2 DEF Done, Top, Num
  <2>4. /\ Done' = IF sAt' = "signal" THEN shm_offset' - 1 ELSE shm_offset'
        /\ Top' = IF sAt' = "poll" THEN 1 ELSE 0
    BY <1>2, <1>3 DEF Done, Top, Num
  <2>. QED
    BY <1>2, <2>1, <2>2, <2>3, <2>4
<1>. HIDE DEF RingFacts
<1>13. CASE dc = 0 /\ ds = -1 /\ sAt = "serve" /\ sAt' = "open"
  <2>1. ~Reads
    BY <1>7, <1>13 DEF Reads, COpening, Before
  <2>. QED
    BY <1>9, <1>13, <2>1 DEF Buffered, BlockS, Leaving
<1>14. CASE dc = 0 /\ ds = 0 /\ sAt = "open" /\ sAt' \in {"fill", "message"}
  <2>1. cAt = "wait" /\ i["client"] = 0
    BY <1>2, <1>7, <1>8, <1>14 DEF Num, CHolds, SOpening
  <2>2. ~Reads
    BY <2>1 DEF Reads
  <2>. QED
    BY <1>3, <1>9, <1>14, <2>1, <2>2 DEF Buffered, BlockS, Leaving
<1>15. CASE dc = 0 /\ ds = 1 /\ sAt = "fill" /\ sAt' \in {"fill", "wait"}
  <2>1. cAt = "wait" /\ cliV = 0 /\ exists /\ ~Reads /\ Num(Reads) = 0
    BY <1>7, <1>8, <1>15 DEF SOpening, Reads, Num
  <2>2. shm_offset = 0 /\ Parts = 0
    BY <1>1, <1>15 DEF Start
  <2>3. sAt' = "wait" => Filled'
    <3>1. Full' = 0
      BY <1>2, <1>12, <1>15, <2>1
    <3>2. sAt' = "wait" => Done' = 0 /\ Top' = 0
      BY <1>3, <1>12, <1>15, <2>2
    <3>. QED
      BY <1>3, <2>2, <3>1, <3>2, FilledFold
  <2>. QED
    BY <1>3, <1>9, <1>15, <2>1, <2>3 DEF Buffered, BlockS, Leaving
<1>16. CASE dc = 0 /\ ds = -1 /\ sAt = "wait" /\ sAt' = "read"
  <2>1. mesgptr' = mesgptr /\ shm_offset' = shm_offset /\ i'["server"] = i["server"] /\ Filled /\ exists
    BY <1>3, <1>5, <1>8, <1>11, <1>16 DEF BlockS
  <2>2. Full' = Full /\ Done' = Done /\ Top' = 0 /\ Top = 0 /\ Done \in Int
    BY <1>2, <1>3, <1>12, <1>16
  <2>3. /\ Parts' + Full = Done + 0
        /\ \A d \in 1 - 0 .. Full - 0 : Shows(mesgptr'[Back(i'["server"], d)], Done + 1 - d)
    <3>1. /\ Parts + Full = Done + Top
          /\ \A d \in 1 - Top .. Full - Top : Shows(mesgptr[Back(i["server"], d)], Done + 1 - d)
      BY <2>1 DEF Filled
    <3>. QED
      BY <1>3, <2>1, <2>2, <3>1
  <2>4. Filled'
    <3>1. sAt' \notin {"len", "signal", "end_signal", "poll"}
      BY <1>16
    <3>. QED
      BY <1>3, <1>12, <2>2, <2>3, <3>1, FilledFold
  <2>. QED
    BY <1>3, <1>9, <1>16, <2>1, <2>4 DEF Buffered, BlockS, Leaving
<1>17. CASE dc = 0 /\ ds = 0 /\ sAt = "read" /\ sAt' = "len"
  <2>1. /\ Filled /\ exists /\ Last = Len(Blocks)
        /\ shm_offset' = shm_offset /\ i'["server"] = i["server"]
        /\ \A b \in 0 .. NBUFF - 1 : b # i["server"] => mesgptr'[b] = mesgptr[b]
        /\ shm_offset < Last => mesgptr'[i["server"]].data = Blocks[shm_offset + 1]
    <3>1. mesgptr' = IF shm_offset < Len(Blocks)
                     THEN [mesgptr EXCEPT ![i["server"]].data = Blocks[shm_offset + 1]]
                     ELSE mesgptr
      BY <1>5, <1>17
    <3>2. Filled /\ exists /\ Last = Len(Blocks)
      BY <1>8, <1>10, <1>11, <1>17 DEF BlockS
    <3>3. mesgptr[i["server"]] \in Messages
      BY <1>2
    <3>. QED
      BY <1>2, <1>3, <1>17, <3>1, <3>2, <3>3 DEF Messages
  <2>2. Full' = Full /\ Done' = Done /\ Top' = 0 /\ Top = 0 /\ Done \in Int
    BY <1>2, <1>3, <1>12, <1>17, <2>1
  <2>3. /\ cliV + servV + Num(cAt \in CHolds) + 1 = NBUFF
        /\ \/ i["server"] = i["client"] + cliV + Num(cAt \in CHolds)
           \/ i["server"] = i["client"] + cliV + Num(cAt \in CHolds) - NBUFF
    BY <1>7, <1>8, <1>17 DEF BlockS, SOpening, Num
  <2>4. Full =< NBUFF - 1
    <3>1. \A a, b, r, h, n \in Nat : a + b + h + 1 = n /\ r =< h => a + r =< n - 1
      OBVIOUS
    <3>2. /\ Num(Reads) \in Nat /\ Num(cAt \in CHolds) \in Nat
          /\ Num(Reads) =< Num(cAt \in CHolds) /\ Full = cliV + Num(Reads)
      BY <1>12
    <3>. QED
      BY <1>2, <2>3, <3>1, <3>2, Zenon
  <2>5. Reads => i["client"] # i["server"]
    <3>1. Reads => Num(cAt \in CHolds) = 1
      BY DEF Reads, CHolds, Num
    <3>2. \A a, b, h, j, c, n \in Nat :
             h = 1 /\ a + b + h + 1 = n /\ (j = c + a + h \/ j = c + a + h - n) => c # j
      OBVIOUS
    <3>3. /\ i["client"] \in Nat /\ i["server"] \in Nat /\ Num(cAt \in CHolds) \in Nat
          /\ cliV \in Nat /\ servV \in Nat /\ NBUFF \in Nat
      BY <1>2, <1>12
    <3>4. ASSUME Num(cAt \in CHolds) = 1 PROVE i["client"] # i["server"]
      BY <2>3, <3>2, <3>3, <3>4
    <3>. QED
      BY <3>1, <3>4
  <2>6. ASSUME NEW d \in 1 - 0 .. Full - 0
        PROVE  Shows(mesgptr'[Back(i'["server"], d)], Done + 1 - d)
    <3>1. d \in 1 .. NBUFF - 1 /\ d \in 0 .. NBUFF
      BY <1>2, <1>12, <2>4
    <3>2. Back(i["server"], d) \in 0 .. NBUFF - 1 /\ Back(i["server"], d) # i["server"]
      BY <1>2, <3>1, BackFacts
    <3>3. Shows(mesgptr[Back(i["server"], d)], Done + 1 - d)
      BY <2>1, <2>2 DEF Filled
    <3>. QED
      BY <2>1, <3>2, <3>3
  <2>7. Parts' + Full = Done + 0
    BY <1>3, <2>1, <2>2 DEF Filled
  <2>8. Filled'
    <3>1. sAt' \notin {"signal", "end_signal", "poll"}
      BY <1>17
    <3>. QED
      BY <1>3, <1>12, <2>1, <2>2, <2>6, <2>7, <3>1, FilledFold
  <2>9. Reads => mesgptr'[i["client"]] = mesgptr[i["client"]]
    BY <1>2, <2>1, <2>5
  <2>. QED
    BY <1>3, <1>9, <1>17, <2>1, <2>8, <2>9 DEF Buffered, BlockS, Leaving
<1>18. CASE dc = 0 /\ ds = 0 /\ sAt = "len" /\ sAt' \in {"signal", "end_signal"}
  <2>1. /\ Filled /\ exists /\ Last = Len(Blocks) /\ ShmReply = Blocks
        /\ i'["server"] = i["server"]
        /\ \A b \in 0 .. NBUFF - 1 : b # i["server"] => mesgptr'[b] = mesgptr[b]
        /\ mesgptr'[i["server"]].data = mesgptr[i["server"]].data
        /\ mesgptr'[i["server"]].len = IF shm_offset < Last THEN 1 ELSE 0
        /\ shm_offset' = IF sAt' = "signal" THEN shm_offset + 1 ELSE shm_offset
        /\ sAt' = "signal" <=> shm_offset < Last
        /\ shm_offset < Last => mesgptr[i["server"]].data = Blocks[shm_offset + 1]
    <3>1. mesgptr' = [mesgptr EXCEPT ![i["server"]].len = IF shm_offset < Len(Blocks) THEN 1 ELSE 0]
      BY <1>5, <1>18
    <3>2. Filled /\ exists /\ Last = Len(Blocks) /\ ShmReply = Blocks
      BY <1>8, <1>10, <1>11, <1>18 DEF BlockS
    <3>3. mesgptr[i["server"]] \in Messages
      BY <1>2
    <3>4. shm_offset < Last => mesgptr[i["server"]].data = Blocks[shm_offset + 1]
      BY <1>18, <3>2 DEF Filled
    <3>5. sAt' = "signal" <=> shm_offset < Last
      BY <1>5, <1>18, <3>2
    <3>. QED
      BY <1>2, <1>3, <1>18, <3>1, <3>2, <3>3, <3>4, <3>5 DEF Messages
  <2>2. Full' = Full /\ Done' = Done /\ Top' = 0 /\ Top = 0 /\ Done \in Int
    BY <1>2, <1>3, <1>12, <1>18, <2>1
  <2>3. /\ cliV + servV + Num(cAt \in CHolds) + 1 = NBUFF
        /\ \/ i["server"] = i["client"] + cliV + Num(cAt \in CHolds)
           \/ i["server"] = i["client"] + cliV + Num(cAt \in CHolds) - NBUFF
    BY <1>7, <1>8, <1>18 DEF BlockS, SOpening, Num
  <2>4. Full =< NBUFF - 1
    <3>1. \A a, b, r, h, n \in Nat : a + b + h + 1 = n /\ r =< h => a + r =< n - 1
      OBVIOUS
    <3>2. /\ Num(Reads) \in Nat /\ Num(cAt \in CHolds) \in Nat
          /\ Num(Reads) =< Num(cAt \in CHolds) /\ Full = cliV + Num(Reads)
      BY <1>12
    <3>. QED
      BY <1>2, <2>3, <3>1, <3>2, Zenon
  <2>5. Reads => i["client"] # i["server"]
    <3>1. Reads => Num(cAt \in CHolds) = 1
      BY DEF Reads, CHolds, Num
    <3>2. \A a, b, h, j, c, n \in Nat :
             h = 1 /\ a + b + h + 1 = n /\ (j = c + a + h \/ j = c + a + h - n) => c # j
      OBVIOUS
    <3>3. /\ i["client"] \in Nat /\ i["server"] \in Nat /\ Num(cAt \in CHolds) \in Nat
          /\ cliV \in Nat /\ servV \in Nat /\ NBUFF \in Nat
      BY <1>2, <1>12
    <3>4. ASSUME Num(cAt \in CHolds) = 1 PROVE i["client"] # i["server"]
      BY <2>3, <3>2, <3>3, <3>4
    <3>. QED
      BY <3>1, <3>4
  <2>6. ASSUME NEW d \in 1 - 0 .. Full - 0
        PROVE  Shows(mesgptr'[Back(i'["server"], d)], Done + 1 - d)
    <3>1. d \in 1 .. NBUFF - 1 /\ d \in 0 .. NBUFF
      BY <1>2, <1>12, <2>4
    <3>2. Back(i["server"], d) \in 0 .. NBUFF - 1 /\ Back(i["server"], d) # i["server"]
      BY <1>2, <3>1, BackFacts
    <3>3. Shows(mesgptr[Back(i["server"], d)], Done + 1 - d)
      BY <2>1, <2>2 DEF Filled
    <3>. QED
      BY <2>1, <3>2, <3>3
  <2>7. Parts' + Full = Done + 0
    BY <1>3, <2>1, <2>2 DEF Filled
  <2>8. sAt' = "signal" => Shows(mesgptr'[i'["server"]], shm_offset')
    BY <1>2, <2>1 DEF Shows
  <2>9. sAt' = "end_signal" => shm_offset' = Last /\ mesgptr'[i'["server"]].len = 0
    BY <1>2, <1>18, <2>1
  <2>10. Filled'
    <3>1. sAt' \notin {"len", "poll"}
      BY <1>18
    <3>. QED
      BY <1>3, <1>12, <2>2, <2>6, <2>7, <2>8, <2>9, <3>1, FilledFold
  <2>11. Reads => mesgptr'[i["client"]] = mesgptr[i["client"]]
    BY <1>2, <2>1, <2>5
  <2>. QED
    BY <1>3, <1>9, <1>18, <2>1, <2>10, <2>11 DEF Buffered, BlockS, Leaving
<1>19. CASE dc = 1 /\ ds = 0 /\ sAt = "signal" /\ sAt' = "wait"
  <2>1. /\ Filled /\ exists /\ mesgptr' = mesgptr /\ shm_offset' = shm_offset
        /\ i'["server"] = IF i["server"] = NBUFF - 1 THEN 0 ELSE i["server"] + 1
    BY <1>3, <1>4, <1>5, <1>8, <1>11, <1>19 DEF BlockS
  <2>2. /\ Full' = Full + 1 /\ Done' = shm_offset /\ Done = shm_offset - 1
        /\ Top' = 0 /\ Top = 0 /\ Full + 1 \in Nat
    <3>1. /\ Full = cliV + Num(Reads) /\ Full' = (cliV + 1) + Num(Reads)
          /\ Full \in Nat /\ Num(Reads) \in Nat
      BY <1>2, <1>12, <1>19
    <3>2. \A a, b \in Nat : (a + 1) + b = (a + b) + 1 /\ a + 1 \in Nat
      OBVIOUS
    <3>3. Full' = Full + 1 /\ Full + 1 \in Nat
      BY <1>2, <3>1, <3>2, Zenon
    <3>. QED
      BY <1>12, <1>19, <2>1, <3>3
  <2>3. cliV + servV + Num(cAt \in CHolds) + 1 = NBUFF
    BY <1>7, <1>8, <1>19 DEF BlockS, SOpening, Num
  <2>4. Full + 1 =< NBUFF
    <3>1. \A a, b, r, h, n \in Nat : a + b + h + 1 = n /\ r =< h => a + r =< n - 1
      OBVIOUS
    <3>2. /\ Num(Reads) \in Nat /\ Num(cAt \in CHolds) \in Nat
          /\ Num(Reads) =< Num(cAt \in CHolds) /\ Full = cliV + Num(Reads)
      BY <1>12
    <3>3. Full =< NBUFF - 1
      BY <1>2, <2>3, <3>1, <3>2, Zenon
    <3>4. \A a, n \in Nat : a =< n - 1 => a + 1 =< n
      OBVIOUS
    <3>. QED
      BY <1>2, <1>12, <3>3, <3>4, Zenon
  <2>5. /\ Parts + Full = shm_offset - 1
        /\ \A d \in 1 .. Full : Shows(mesgptr[Back(i["server"], d)], shm_offset - d)
        /\ Shows(mesgptr[i["server"]], shm_offset)
    <3>1. /\ Parts + Full = Done + Top
          /\ \A d \in 1 - Top .. Full - Top : Shows(mesgptr[Back(i["server"], d)], Done + 1 - d)
          /\ Shows(mesgptr[i["server"]], shm_offset)
      BY <1>19, <2>1 DEF Filled
    <3>2. \A d \in 1 .. Full : d \in 1 - Top .. Full - Top /\ Done + 1 - d = shm_offset - d
      BY <1>2, <1>12, <2>2
    <3>. QED
      BY <1>2, <2>2, <3>1, <3>2
  <2>6. ASSUME NEW d \in 1 - 0 .. (Full + 1) - 0
        PROVE  Shows(mesgptr'[Back(i'["server"], d)], shm_offset + 1 - d)
    <3>1. d \in 1 .. NBUFF /\ Full \in Nat
      BY <1>2, <1>12, <2>4
    <3>2. CASE d = 1
      <4>1. Back(i'["server"], d) = i["server"]
        BY <1>2, <2>1, <3>2, BackFacts
      <4>2. shm_offset + 1 - d = shm_offset
        BY <1>2, <3>2
      <4>. QED
        BY <2>1, <2>5, <4>1, <4>2
    <3>3. CASE d \in 2 .. NBUFF
      <4>1. Back(i'["server"], d) = Back(i["server"], d - 1)
        <5>1. i["server"] \in 0 .. NBUFF - 1
          BY <1>2
        <5>2. Back(IF i["server"] = NBUFF - 1 THEN 0 ELSE i["server"] + 1, d) = Back(i["server"], d - 1)
          BY <3>3, <5>1, BackFacts
        <5>. QED
          BY <2>1, <5>2
      <4>2. d - 1 \in 1 .. Full /\ shm_offset - (d - 1) = shm_offset + 1 - d
        BY <1>2, <3>1, <3>3
      <4>. QED
        BY <2>1, <2>5, <4>1, <4>2
    <3>. QED
      BY <3>1, <3>2, <3>3
  <2>7. Parts' + (Full + 1) = shm_offset + 0
    <3>1. \A p, f, o \in Nat : p + f = o - 1 => p + (f + 1) = o + 0
      OBVIOUS
    <3>2. Parts \in Nat /\ Full \in Nat /\ shm_offset \in Nat
      BY <1>2, <1>12
    <3>. QED
      BY <1>3, <2>5, <3>1, <3>2, Zenon
  <2>8. Filled'
    <3>1. sAt' \notin {"len", "signal", "end_signal", "poll"}
      BY <1>19
    <3>2. shm_offset \in Int
      BY <1>2
    <3>. QED
      BY <1>3, <2>2, <2>6, <2>7, <3>1, <3>2, FilledFold
  <2>. QED
    BY <1>3, <1>9, <1>19, <2>1, <2>8 DEF Buffered, BlockS, Leaving
<1>20. CASE dc = 1 /\ ds = 0 /\ sAt = "end_signal" /\ sAt' = "poll" /\ exists
  <2>1. /\ Filled /\ mesgptr' = mesgptr /\ shm_offset' = shm_offset /\ i'["server"] = i["server"]
    BY <1>3, <1>4, <1>5, <1>11, <1>20
  <2>2. /\ Full' = Full + 1 /\ Done' = shm_offset /\ Done = shm_offset
        /\ Top' = 1 /\ Top = 0 /\ Full + 1 \in Nat
    <3>1. /\ Full = cliV + Num(Reads) /\ Full' = (cliV + 1) + Num(Reads)
          /\ Full \in Nat /\ Num(Reads) \in Nat
      BY <1>2, <1>12, <1>20
    <3>2. \A a, b \in Nat : (a + 1) + b = (a + b) + 1 /\ a + 1 \in Nat
      OBVIOUS
    <3>3. Full' = Full + 1 /\ Full + 1 \in Nat
      BY <1>2, <3>1, <3>2, Zenon
    <3>. QED
      BY <1>12, <1>20, <2>1, <3>3
  <2>3. /\ cliV + servV + Num(cAt \in CHolds) + 1 = NBUFF
        /\ \/ i["server"] = i["client"] + cliV + Num(cAt \in CHolds)
           \/ i["server"] = i["client"] + cliV + Num(cAt \in CHolds) - NBUFF
    BY <1>7, <1>8, <1>20 DEF SOpening, Num
  <2>4. /\ Parts + Full = shm_offset /\ shm_offset = Last /\ mesgptr[i["server"]].len = 0
        /\ \A d \in 1 .. Full : Shows(mesgptr[Back(i["server"], d)], shm_offset + 1 - d)
    <3>1. /\ Parts + Full = Done + Top /\ shm_offset = Last /\ mesgptr[i["server"]].len = 0
          /\ \A d \in 1 - Top .. Full - Top : Shows(mesgptr[Back(i["server"], d)], Done + 1 - d)
      BY <1>20, <2>1 DEF Filled
    <3>2. \A d \in 1 .. Full : d \in 1 - Top .. Full - Top
      BY <1>2, <1>12, <2>2
    <3>. QED
      BY <1>2, <2>2, <3>1, <3>2
  <2>5. ASSUME NEW d \in 1 - 1 .. (Full + 1) - 1
        PROVE  Shows(mesgptr'[Back(i'["server"], d)], shm_offset + 1 - d)
    <3>1. Full \in Nat
      BY <1>12
    <3>2. CASE d = 0
      <4>1. Back(i'["server"], d) = i["server"]
        BY <1>2, <2>1, <3>2, BackFacts
      <4>2. ~(shm_offset + 1 - d =< Last)
        BY <1>2, <2>4, <3>2
      <4>. QED
        BY <2>1, <2>4, <4>1, <4>2 DEF Shows
    <3>3. CASE d \in 1 .. Full
      BY <2>1, <2>4, <3>3
    <3>. QED
      BY <3>1, <3>2, <3>3
  <2>6. Parts' + (Full + 1) = shm_offset + 1
    <3>1. \A p, f, o \in Nat : p + f = o => p + (f + 1) = o + 1
      OBVIOUS
    <3>2. Parts \in Nat /\ Full \in Nat /\ shm_offset \in Nat
      BY <1>2, <1>12
    <3>. QED
      BY <1>3, <2>4, <3>1, <3>2, Zenon
  <2>7. /\ cliV' + Num(cAt' \in CHolds) \in 1 .. NBUFF
        /\ \/ i'["server"] + 1 = i'["client"] + cliV' + Num(cAt' \in CHolds)
           \/ i'["server"] + 1 = i'["client"] + cliV' + Num(cAt' \in CHolds) - NBUFF
    <3>1. \A a, b, h, n, j, c \in Nat :
             /\ a + b + h + 1 = n
             /\ j = c + a + h \/ j = c + a + h - n
             => /\ (a + 1) + h \in 1 .. n
                /\ j + 1 = c + (a + 1) + h \/ j + 1 = c + (a + 1) + h - n
      OBVIOUS
    <3>2. i["client"] \in Nat /\ i["server"] \in Nat /\ Num(cAt \in CHolds) \in Nat
      BY <1>2, <1>12
    <3>3. cliV' = cliV + 1 /\ cAt' = cAt /\ i'["client"] = i["client"]
      BY <1>2, <1>3, <1>20
    <3>4. /\ (cliV + 1) + Num(cAt \in CHolds) \in 1 .. NBUFF
          /\ \/ i["server"] + 1 = i["client"] + (cliV + 1) + Num(cAt \in CHolds)
             \/ i["server"] + 1 = i["client"] + (cliV + 1) + Num(cAt \in CHolds) - NBUFF
      <4>1. cliV \in Nat /\ servV \in Nat /\ NBUFF \in Nat
        BY <1>2
      <4>. QED
        BY <2>3, <3>1, <3>2, <4>1
    <3>. QED
      BY <2>1, <3>3, <3>4
  <2>8. Filled'
    <3>1. sAt' \notin {"len", "signal"} /\ shm_offset' = Last /\ mesgptr'[i'["server"]].len = 0
      BY <1>20, <2>1, <2>4
    <3>2. shm_offset \in Int
      BY <1>2
    <3>. QED
      BY <1>3, <2>2, <2>5, <2>6, <2>7, <3>1, <3>2, FilledFold
  <2>. QED
    BY <1>3, <1>9, <1>20, <2>1, <2>8 DEF Buffered, BlockS, Leaving
<1>21. CASE dc = 1 /\ ds = 0 /\ sAt = "end_signal" /\ sAt' = "poll" /\ ~exists
  <2>1. cliV = 0 /\ cAt = "wait" /\ ~Reads
    <3>1. cliV + servV + Num(cAt \in CHolds) + 1 = 1 /\ cAt \in {"wait"} \cup CHolds
      BY <1>7, <1>8, <1>21 DEF SOpening, Num
    <3>2. cliV = 0 /\ Num(cAt \in CHolds) = 0
      BY <1>2, <1>12, <3>1
    <3>. QED
      BY <3>1, <3>2 DEF Num, Reads
  <2>2. /\ Told /\ mesgptr' = mesgptr /\ cliV' = 1
    BY <1>2, <1>5, <1>11, <1>21, <2>1
  <2>3. Told'
    BY <1>2, <1>3, <1>21, <2>1, <2>2 DEF Told, Num
  <2>. QED
    BY <1>3, <1>9, <1>21, <2>1, <2>3 DEF Buffered, BlockS, Leaving
<1>22. CASE /\ ds \in {0, -1} /\ dc \in {0, 1}
            /\ \/ dc = 0 /\ ds = 0 /\ sAt = "message" /\ sAt' = "message_signal"
               \/ dc = 1 /\ ds = 0 /\ sAt = "message_signal" /\ sAt' = "message_wait"
               \/ dc = 0 /\ ds = -1 /\ sAt = "message_wait" /\ sAt' = "message_end"
               \/ dc = 0 /\ ds = 0 /\ sAt = "message_end" /\ sAt' = "end_signal"
  <2>1. cliV = 0 /\ cAt = "wait" /\ ~Reads /\ ~exists
    <3>1. /\ cliV + servV + Num(cAt \in CHolds) + Num(sAt # "message_wait") = 1
          /\ cAt \in {"wait"} \cup CHolds /\ ~exists
      BY <1>7, <1>8, <1>22 DEF SOpening, MessageS
    <3>2. Num(sAt # "message_wait") = 1 \/ servV >= 1
      BY <1>2, <1>22 DEF Num
    <3>3. cliV = 0 /\ Num(cAt \in CHolds) = 0
      BY <1>2, <1>12, <3>1, <3>2 DEF Num
    <3>. QED
      BY <3>1, <3>3 DEF Num, Reads
  <2>2. CASE sAt = "message"
    <3>1. i["client"] = 0 /\ Parts = 0
      BY <1>1, <1>11, <2>2 DEF Start
    <3>2. /\ mesgptr'[0].len = 1 /\ mesgptr'[0].data = "cannot_open"
          /\ sAt' = "message_signal" /\ cliV' = 0
      <4>1. mesgptr' = [mesgptr EXCEPT ![0] = [len |-> 1, data |-> "cannot_open"]]
        BY <1>5, <1>22, <2>2
      <4>2. 0 \in 0 .. NBUFF - 1
        BY <1>2
      <4>. QED
        BY <1>2, <1>22, <2>1, <2>2, <4>1, <4>2
    <3>. QED
      BY <1>2, <1>3, <1>9, <2>1, <3>1, <3>2 DEF Buffered, BlockS, Leaving, Told, Num
  <2>3. CASE sAt \in {"message_signal", "message_wait"}
    <3>1. Told /\ mesgptr' = mesgptr
      BY <1>5, <1>11, <1>22, <2>1, <2>3
    <3>2. Told'
      <4>1. CASE sAt = "message_signal"
        <5>1. sAt' = "message_wait" /\ cliV' = 1
          BY <1>2, <1>22, <2>1, <4>1
        <5>. QED
          BY <1>2, <1>3, <2>1, <3>1, <4>1, <5>1 DEF Told, Due, Reads, Num
      <4>2. CASE sAt = "message_wait"
        <5>1. sAt' = "message_end" /\ cliV' = 0
          BY <1>2, <1>22, <2>1, <4>2
        <5>. QED
          BY <1>2, <1>3, <2>1, <3>1, <4>2, <5>1 DEF Told, Due, Reads, Num
      <4>. QED
        BY <2>3, <4>1, <4>2
    <3>3. sAt' \in {"message_wait", "message_end"}
      BY <1>22, <2>3
    <3>. QED
      BY <1>3, <1>9, <2>1, <3>1, <3>2, <3>3 DEF Buffered, BlockS, Leaving
  <2>4. CASE sAt = "message_end"
    <3>1. Told
      BY <1>11, <2>1, <2>4
    <3>2. /\ mesgptr'[1].len = 0
          /\ sAt' = "end_signal" /\ cliV' = 0
      <4>1. mesgptr' = [mesgptr EXCEPT ![1].len = 0]
        BY <1>5, <1>22, <2>4
      <4>2. 1 \in 0 .. NBUFF - 1 /\ mesgptr[1] \in Messages
        BY <1>2
      <4>. QED
        BY <1>2, <1>22, <2>1, <2>4, <4>1, <4>2 DEF Messages
    <3>3. Parts = 1 /\ i["client"] = 1
      BY <1>2, <2>1, <2>4, <3>1 DEF Told, Num
    <3>. QED
      BY <1>2, <1>3, <1>9, <2>1, <3>1, <3>2, <3>3 DEF Buffered, BlockS, Leaving, Told, Num
  <2>. QED
    BY <1>22, <2>2, <2>3, <2>4
<1>23. CASE dc = 0 /\ ds = 0 /\ sAt = "poll" /\ sAt' = "close_c"
  <2>1. cliV = 0 /\ mesgptr' = mesgptr
    BY <1>5, <1>23
  <2>2. cAt = "look" /\ Parts = Last
    <3>1. CASE exists
      <4>1. Filled /\ Top = 1 /\ Done = shm_offset
        BY <1>11, <1>12, <1>23, <3>1
      <4>2. /\ Parts + Full = shm_offset + 1 /\ shm_offset = Last
            /\ cliV + Num(cAt \in CHolds) \in 1 .. NBUFF
        BY <1>23, <4>1 DEF Filled
      <4>3. Num(Reads) = 1 /\ Parts = Last
        BY <1>2, <1>12, <2>1, <4>2
      <4>4. Reads
        BY <4>3 DEF Num
      <4>5. cAt # "print"
        BY <1>1, <1>2, <4>3 DEF Buffered
      <4>. QED
        BY <4>3, <4>4, <4>5 DEF Reads
    <3>2. CASE ~exists
      <4>1. Parts = 1 /\ cliV + Num(cAt = "look") = 1
        BY <1>11, <1>23, <3>2 DEF Told
      <4>2. Last = 1
        BY <3>2, ReplyFacts
      <4>. QED
        BY <2>1, <4>1, <4>2 DEF Num
    <3>. QED
      BY <1>2, <3>1, <3>2
  <2>. QED
    BY <1>3, <1>9, <1>23, <2>1, <2>2 DEF Buffered, BlockS, Leaving
<1>. QED
  BY <1>6, <1>13, <1>14, <1>15, <1>16, <1>17, <1>18, <1>19, <1>20, <1>21, <1>22, <1>23

-----------------------------------------------------------------------------
(* The shared memory programs print the reply, in order *)

\* At the start there is nothing.
LEMMA ContentInit == ASSUME FilesInit PROVE Content
<1>1. /\ shm_program \in ShmPairs /\ shm_at = [x \in Parties |-> "start"]
      /\ shm_offset = 0 /\ i = [x \in Parties |-> 0] /\ exists \in BOOLEAN /\ shm_printed = <<>>
      /\ mesg = [len |-> 0, data |-> "none"]
      /\ mesgptr = [b \in 0 .. NBUFF - 1 |-> [len |-> 0, data |-> "none"]]
  BY DEF FilesInit, Shm!Init, Shm!One!Init, Shm!Multi!Init, Shm!One!SessionInit,
     Shm!Multi!SessionInit, Shm!One!Parties, Shm!Multi!Parties, Shm!Multi!Buffers, Parties
<1>2. cAt = "start" /\ sAt = "start"
  BY <1>1 DEF cAt, sAt, Parties
<1>3. Parts = 0 /\ Last \in Nat
  BY <1>1, ReplyFacts DEF Parts
<1>4. InPlace
  <2>1. [len |-> 0, data |-> "none"] \in Messages
    BY DEF Messages, Data
  <2>2. shm_printed \in Seq(Data) /\ \A k \in 1 .. Parts : FALSE
    BY <1>1, <1>3
  <2>. QED
    BY <1>1, <1>3, <2>1, <2>2 DEF InPlace
<1>5. Dry /\ Start /\ Segment /\ Buffered
  BY <1>1, <1>2, <1>3 DEF Dry, Start, Segment, Buffered, Reads, Gone, CHolds, Leaving, SOpening,
     BlockS
<1>. QED
  BY <1>4, <1>5 DEF Content

\* It is about the variables of the shared memory programs only.
LEMMA ContentStays == ASSUME ShmInv, Content, UNCHANGED shmVars PROVE Content'
<1>1. /\ UNCHANGED <<shm_program, shm_offset, shm_printed, exists, i, mesg, mesgptr, cliAdj, cliVal>>
      /\ cAt' = cAt /\ sAt' = sAt
  BY DEF shmVars, cAt, sAt
<1>2. cliV' = cliV /\ taken' = taken /\ Parts' = Parts /\ ShmReply' = ShmReply
  BY <1>1 DEF cliV, taken, Parts, ShmReply
<1>3. Last' = Last
  BY <1>2 DEF Last
<1>4. Active' = Active /\ Reads' = Reads
  BY <1>1 DEF Active, Reads
<1>5. Due' = Due
  BY <1>1, <1>2, <1>4 DEF Due
<1>6. InPlace' /\ Dry' /\ Start'
  BY <1>1, <1>2, <1>3, <1>4 DEF Content, InPlace, Dry, Start
<1>7. Segment'
  BY <1>1, <1>2, <1>3, <1>4, <1>5 DEF Content, Segment, One, Shows
<1>8. Filled' = Filled
  <2>1. Done' = Done /\ Full' = Full /\ Top' = Top
    BY <1>1, <1>2, <1>4 DEF Done, Full, Top
  <2>. QED
    BY <1>1, <1>2, <1>3, <2>1 DEF Filled, Shows
<1>9. Told' = Told
  BY <1>1, <1>2, <1>5 DEF Told
<1>10. Buffered'
  BY <1>1, <1>2, <1>3, <1>4, <1>8, <1>9 DEF Content, Buffered, Multi, Shows
<1>. QED
  BY <1>6, <1>7, <1>10 DEF Content

\* Every step of the programs keeps it.
LEMMA ContentKept == ASSUME Fits, ShmInv, Content, Shm!Next PROVE Content'
<1>1. Core /\ Turns /\ Ring /\ Placed
  BY DEF ShmInv, Core, Typed
<1>2. Moves /\ AllData
  BY <1>1, NextMoves, NextData
<1>3. Dry'
  <2>1. ASSUME Programs PROVE Dry'
    <3>1. PICK dc, ds \in {-1, 0, 1} :
             \/ ClientEdge(dc, ds) /\ Calls("client", dc, ds)
             \/ (OneEdge(dc, ds) \/ MultiEdge(dc, ds)) /\ Calls("server", dc, ds)
      BY <2>1 DEF Programs
    <3>2. InProgram(dc, ds)
      BY <1>1, <3>1, Ranges DEF InProgram
    <3>. QED
      BY <1>1, <3>2, DryProgram
  <2>. QED
    BY <1>1, <1>2, <2>1, DryMain DEF Moves, Content
<1>4. CASE InMain
  BY <1>1, <1>2, <1>3, <1>4, ContentMain DEF Content
<1>5. ASSUME NEW dc \in {-1, 0, 1}, NEW ds \in {-1, 0, 1}, InProgram(dc, ds) PROVE Content'
  <2>1. InPlace'
    BY <1>1, <1>2, <1>5, InPlaceProgram
  <2>2. Start'
    BY <1>1, <1>2, <1>5, StartProgram
  <2>3. CASE ClientEdge(dc, ds) /\ Effect("client", dc, ds)
    BY <1>1, <1>2, <1>3, <2>1, <2>2, <2>3, SegmentClient, BufferedClient DEF Content
  <2>4. CASE (OneEdge(dc, ds) \/ MultiEdge(dc, ds)) /\ Effect("server", dc, ds)
    BY <1>1, <1>2, <1>3, <2>1, <2>2, <2>4, SegmentServer, BufferedServer DEF Content
  <2>. QED
    BY <1>5, <2>3, <2>4 DEF InProgram
<1>. QED
  BY <1>1, <1>2, <1>4, <1>5, MovesSplit

\* What the client prints is a part of the reply, the next one.
LEMMA PrintsNext == ASSUME Fits, ShmInv, Content, Shm!Next
  PROVE  [Shm!One!Transfer!PrintSome]_(Shm!One!Transfer!vars)
<1>1. InPlace /\ Placed /\ AllData /\ InPlace'
  BY ContentKept, NextData DEF Content, ShmInv, Core, Typed
<1>2. exists' = exists
  <2>1. Moves
    BY <1>1, NextMoves
  <2>2. CASE InMain
    BY <1>1, <2>2, MainStill DEF ShmInv, Unmoved
  <2>3. ASSUME NEW dc \in {-1, 0, 1}, NEW ds \in {-1, 0, 1}, InProgram(dc, ds) PROVE exists' = exists
    BY <1>1, <2>3, ProgramFacts DEF ShmInv
  <2>. QED
    BY <2>1, <2>2, <2>3, MovesSplit DEF ShmInv
<1>3. /\ ShmReply' = ShmReply /\ Last' = Last /\ Parts \in Nat
      /\ Parts' = IF cAt = "print" /\ cAt' = "signal" THEN Parts + 1 ELSE Parts
  BY <1>1, <1>2, PartsStep
<1>4. Shm!One!Reply = ShmReply /\ Shm!One!Reply' = ShmReply
  BY <1>2 DEF Shm!One!Reply, ShmReply
<1>5. CASE cAt = "print" /\ cAt' = "signal"
  <2>1. /\ Parts' = Parts + 1 /\ Parts' =< Last /\ shm_printed' \in Seq(Data)
        /\ \A k \in 1 .. Parts' : shm_printed'[k] = ShmReply[k]
    BY <1>1, <1>3, <1>5 DEF InPlace
  <2>2. ShmReply \in Seq(Data) /\ Last \in Nat
    BY ReplyFacts
  <2>3. shm_printed' = SubSeq(ShmReply, 1, Parts')
    <3>1. /\ SubSeq(ShmReply, 1, Parts') \in Seq(Data)
          /\ Len(SubSeq(ShmReply, 1, Parts')) = Parts'
          /\ \A k \in 1 .. Parts' : SubSeq(ShmReply, 1, Parts')[k] = ShmReply[k]
      BY <1>3, <2>1, <2>2, SubSeqProperties DEF Last
    <3>2. Len(shm_printed') = Parts'
      BY DEF Parts
    <3>. QED
      BY <2>1, <3>1, <3>2, SeqEqual
  <2>4. Parts' \in Len(shm_printed) + 1 .. Len(ShmReply)
    BY <1>3, <2>1, <2>2 DEF Parts, Last
  <2>. QED
    BY <1>4, <2>3, <2>4 DEF Shm!One!Transfer!PrintSome
<1>6. CASE ~(cAt = "print" /\ cAt' = "signal")
  BY <1>1, <1>4, <1>6 DEF AllData, PrintData, Shm!One!Transfer!vars
<1>. QED
  BY <1>5, <1>6

ShmContent == FilesInv /\ Content

\* The shared memory programs print the reply from its beginning and in order, whoever is
\* killed: they implement FileTransfer.
THEOREM SharedMemoryPrints == Fits => (FilesSpec => Shm!PrintsInOrder)
<1>. SUFFICES ASSUME Fits PROVE FilesSpec => Shm!PrintsInOrder
  OBVIOUS
<1>1. FilesInit => ShmContent
  BY ShmInvInit, TransferInvInit, ContentInit DEF ShmContent, FilesInv
<1>2. ASSUME ShmContent, [FilesNext]_fileVars
      PROVE  ShmContent' /\ [Shm!One!Transfer!PrintSome]_(Shm!One!Transfer!vars)
  <2>1. CASE UNCHANGED shmVars
    <3>1. UNCHANGED <<shm_printed, exists>>
      BY <2>1 DEF shmVars
    <3>2. UNCHANGED Shm!One!Transfer!vars
      BY <3>1 DEF Shm!One!Transfer!vars, Shm!One!Reply
    <3>3. Content'
      BY <1>2, <2>1, ContentStays DEF ShmContent, FilesInv
    <3>. QED
      BY <1>2, <3>2, <3>3, FilesInvKept DEF ShmContent
  <2>2. CASE Sharing /\ Shm!Next
    <3>1. Content' /\ [Shm!One!Transfer!PrintSome]_(Shm!One!Transfer!vars)
      BY <1>2, <2>2, ContentKept, PrintsNext DEF ShmContent, FilesInv
    <3>. QED
      BY <1>2, <3>1, FilesInvKept DEF ShmContent
  <2>. QED
    BY <1>2, <2>1, <2>2 DEF FilesNext, FilesStep, Transferring, fileVars
<1>3. FilesInit => Shm!One!Transfer!Init
  BY DEF FilesInit, Shm!Init, Shm!One!Init, Shm!One!Transfer!Init, Shm!One!Transfer!Replies,
       Shm!One!Reply
<1>4. Shm!PrintsInOrder <=> Shm!One!Transfer!Init /\ [][Shm!One!Transfer!PrintSome]_(Shm!One!Transfer!vars)
  BY PTL DEF Shm!PrintsInOrder, Shm!One!PrintsInOrder, Shm!One!Transfer!Spec
<1>. QED
  BY <1>1, <1>2, <1>3, <1>4, PTL DEF FilesSpec

-----------------------------------------------------------------------------
(* The programs on streams and queues, and all of them *)

LEMMA FilesTransfer == ASSUME [FilesNext]_fileVars PROVE [Next]_vars
<1>1. CASE \E x \in Parties : FilesStep(x) \/ (Transferring /\ Killed(x))
  BY <1>1 DEF FilesStep, Next
<1>2. CASE Sharing /\ Shm!Next
  BY <1>2 DEF Sharing
<1>3. CASE UNCHANGED fileVars
  BY <1>3 DEF fileVars
<1>. QED
  BY <1>1, <1>2, <1>3 DEF FilesNext

LEMMA FilesTransferInit == ASSUME FilesInit PROVE Init
BY DEF FilesInit

\* err_sys is for a bad name or a killed partner, in any behaviour of FilePrograms.
THEOREM FilesErrors == FilesSpec => []ErrorsJustified
<1>1. FilesInit => TransferIInv
  BY FilesTransferInit, InitKeeps
<1>2. TransferIInv /\ [FilesNext]_fileVars => TransferIInv'
  BY FilesTransfer, StepKeeps
<1>3. TransferIInv => ErrorsJustified
  BY NoErrorUnexcused
<1>. QED
  BY <1>1, <1>2, <1>3, PTL DEF FilesSpec

\* All eight programs print the reply from its beginning and in order: each implements
\* FileTransfer, whoever is killed.
THEOREM AllPrintTheReply == Fits => (FilesSpec => AllPrintInOrder)
<1>. SUFFICES ASSUME Fits PROVE FilesSpec => AllPrintInOrder
  OBVIOUS
<1>1. FilesSpec => Shm!PrintsInOrder
  BY SharedMemoryPrints
<1>2. FilesInit => TransferIInv /\ FT!Init
  BY FilesTransferInit, InitKeeps, StartsPrinting
<1>3. TransferIInv /\ [FilesNext]_fileVars => TransferIInv' /\ [FT!PrintSome]_(FT!vars)
  BY FilesTransfer, StepKeeps, StepPrints
<1>4. PrintsInOrder <=> FT!Init /\ [][FT!PrintSome]_(FT!vars)
  BY PTL DEF PrintsInOrder, FT!Spec
<1>5. FilesSpec => PrintsInOrder
  BY <1>2, <1>3, <1>4, PTL DEF FilesSpec
<1>. QED
  BY <1>1, <1>5, PTL DEF AllPrintInOrder

-----------------------------------------------------------------------------
(* Types *)

Allocated == shm \in BOOLEAN

LEMMA AllocatedKept == ASSUME Allocated, Moves PROVE Allocated'
<1>1. CASE Programs
  BY <1>1 DEF Programs, ClientEdge, OneEdge, MultiEdge, Allocated
<1>2. CASE Attaches
  BY <1>2 DEF Attaches, Allocated
<1>3. CASE Creates \/ Opens
  BY <1>3 DEF Creates, Opens, Allocated
<1>4. CASE \E x \in Parties : Closes(x) \/ Leaves(x)
  BY <1>4 DEF Closes, Leaves, Allocated
<1>. QED
  BY <1>1, <1>2, <1>3, <1>4 DEF Moves

\* The semaphores have their types, in the eyes of both programs.
LEMMA SemaphoreTypes == ASSUME CP!Sound, VP!Sound
      PROVE  /\ Shm!One!Cli!TypeOK /\ Shm!One!Serv!TypeOK
             /\ Shm!Multi!Cli!TypeOK /\ Shm!Multi!Serv!TypeOK
<1>1. CP!TypeOK
  BY ConstantsFacts, CP!TypeFromInv DEF CP!Sound
<1>2. VP!TypeOK
  BY ConstantsFacts, VP!TypeFromInv DEF VP!Sound
<1>3. Shm!One!Cli!TypeOK /\ Shm!Multi!Cli!TypeOK
  BY <1>1 DEF CP!TypeOK, CP!Members, CP!Points, CP!Creating, CP!Closing, CP!Using, CP!Failures,
       Shm!One!Cli!TypeOK, Shm!One!Cli!Members, Shm!One!Cli!Points, Shm!One!Cli!Creating,
       Shm!One!Cli!Closing, Shm!One!Cli!Using, Shm!One!Cli!Failures, Shm!One!Parties,
       Shm!Multi!Cli!TypeOK, Shm!Multi!Cli!Members, Shm!Multi!Cli!Points, Shm!Multi!Cli!Creating,
       Shm!Multi!Cli!Closing, Shm!Multi!Cli!Using, Shm!Multi!Cli!Failures, Shm!Multi!Parties,
       Parties
<1>4. Shm!One!Serv!TypeOK /\ Shm!Multi!Serv!TypeOK
  BY <1>2 DEF VP!TypeOK, VP!Members, VP!Points, VP!Creating, VP!Closing, VP!Using, VP!Failures,
       Shm!One!Serv!TypeOK, Shm!One!Serv!Members, Shm!One!Serv!Points, Shm!One!Serv!Creating,
       Shm!One!Serv!Closing, Shm!One!Serv!Using, Shm!One!Serv!Failures, Shm!One!Parties,
       Shm!Multi!Serv!TypeOK, Shm!Multi!Serv!Members, Shm!Multi!Serv!Points,
       Shm!Multi!Serv!Creating, Shm!Multi!Serv!Closing, Shm!Multi!Serv!Using,
       Shm!Multi!Serv!Failures, Shm!Multi!Parties, Parties
<1>. QED
  BY <1>3, <1>4

LEMMA SharedMemoryTypes == ASSUME Core, InPlace, Allocated PROVE Shm!TypeOK
<1>1. CP!Sound /\ VP!Sound /\ Typed
  BY DEF Core
<1>2. Parts =< Len(Blocks) + 1
  <2>1. Last = Len(Blocks) \/ Last = 1
    BY DEF Last, ShmReply
  <2>2. PICK l \in Nat : l = Len(Blocks)
    BY FileProgramsAssumption
  <2>3. Parts \in Nat /\ Parts =< Last
    BY DEF InPlace, Parts
  <2>. QED
    BY <2>1, <2>2, <2>3
<1>3. Shm!One!TypeOK
  BY <1>1, <1>2, SemaphoreTypes
     DEF Shm!One!TypeOK, Typed, InPlace, Allocated, Messages, Data, Parts
<1>4. Shm!Multi!TypeOK
  BY <1>1, <1>2, SemaphoreTypes
     DEF Shm!Multi!TypeOK, Shm!Multi!Buffers, Shm!Multi!Parties, Parties, Typed, InPlace,
         Allocated, Messages, Data, Parts
<1>5. shm_program \in ShmPairs
  BY <1>1 DEF Typed, ShmPairs
<1>. QED
  BY <1>3, <1>4, <1>5 DEF Shm!TypeOK

\* Every variable of the eight programs keeps its type: no read goes beyond a buffer, no write
\* beyond a stream, no msgsnd beyond a queue, no semop beyond the range of a semaphore.
THEOREM FilesTypes == Fits => (FilesSpec => []FilesTypeOK)
<1>. SUFFICES ASSUME Fits PROVE FilesSpec => []FilesTypeOK
  OBVIOUS
<1>. DEFINE All == ShmContent /\ Allocated /\ TransferIInv /\ Bounds
<1>1. FilesInit => All
  <2>1. FilesInit => ShmContent /\ TransferIInv /\ Bounds
    BY ShmInvInit, TransferInvInit, ContentInit, FilesTransferInit, InitKeeps, InitBounds
       DEF ShmContent, FilesInv
  <2>2. FilesInit => Allocated
    BY DEF FilesInit, Shm!Init, Shm!One!Init, Shm!One!SessionInit, Allocated
  <2>. QED
    BY <2>1, <2>2
<1>2. All /\ [FilesNext]_fileVars => All'
  <2>1. SUFFICES ASSUME All, [FilesNext]_fileVars PROVE All'
    OBVIOUS
  <2>2. TransferIInv' /\ Bounds'
    BY <2>1, FilesTransfer, StepKeeps, BoundsKept
  <2>3. UNCHANGED shmVars \/ Shm!Next
    BY <2>1 DEF FilesNext, FilesStep, Transferring, Sharing, fileVars
  <2>4. ShmContent'
    BY <2>1, <2>3, FilesInvKept, ContentStays, ContentKept DEF ShmContent, FilesInv
  <2>5. Allocated'
    <3>1. CASE UNCHANGED shmVars
      BY <2>1, <3>1 DEF shmVars, Allocated
    <3>2. CASE Shm!Next
      <4>1. Placed
        BY <2>1 DEF ShmContent, FilesInv, ShmInv, Core, Typed
      <4>. QED
        BY <2>1, <3>2, <4>1, NextMoves, AllocatedKept
    <3>. QED
      BY <2>3, <3>1, <3>2
  <2>. QED
    BY <2>2, <2>4, <2>5
<1>3. All => FilesTypeOK
  BY BoundsType, SharedMemoryTypes DEF ShmContent, FilesInv, ShmInv, Content, FilesTypeOK
<1>. QED
  BY <1>1, <1>2, <1>3, PTL DEF FilesSpec
=============================================================================
