---------------------------- MODULE SocketsProofs ----------------------------
(***************************************************************************)
(* Proofs about Sockets, for every set of clients and lines, and every     *)
(* number of kills, lost and duplicated datagrams.                         *)
(*                                                                         *)
(* The connection oriented programs are those of StreamProofs.  For the    *)
(* others LagBounded is not inductive: it bounds how often an answer may   *)
(* be shown again by the duplicates, some of which are yet to arrive.      *)
(* Excess counts them: of the datagrams of a client there are, shown, at   *)
(* the two sockets and in mesg, no more copies than there are different    *)
(* ones, and duplicates.  A client is never shown the answer to a line     *)
(* that it has not sent (Numbered), and sends no line before it has an     *)
(* answer (Lockstep).                                                      *)
(***************************************************************************)
EXTENDS Sockets, StreamProofs, FiniteSetTheorems

-----------------------------------------------------------------------------
(* The connectionless programs: how many copies there are of a line *)

\* A client's lines, by their numbers.
Datagrams(S) == S \X (1 .. Lines)

DgShape ==
  /\ protocol \in DOMAIN DgPrograms
  /\ dg_at \in [Senders -> {"sendto", "recvfrom", "done", "failed", "dead"}]
  /\ dg_sent \in [Senders -> 0 .. Lines]
  /\ queue \in Seq(Datagrams(Senders))
  /\ DOMAIN answers = Senders /\ DOMAIN shown = Senders
  /\ \A c \in Senders : {answers[c], shown[c]} \subseteq Seq(Datagrams({c}))
  /\ server_at \in {"peek", "recvfrom", "sendto", "over"}
  /\ {pcli_addr, first_client} \subseteq Senders \cup {NoSender} /\ mesg \in 0 .. Lines
  /\ server_at = "sendto" => pcli_addr \in Senders /\ mesg \in 1 .. Lines
  /\ size \in Sizes
  /\ dead \subseteq Senders /\ dups \in Nat

\* The datagrams that c has been or may be shown, and the number of their copies: those it
\* has printed, those at the two sockets, and the one the server has in mesg.
Serving == IF server_at = "sendto" THEN {<<pcli_addr, mesg>>} ELSE {}
Known(c) == ToSet(shown[c]) \cup ToSet(queue) \cup ToSet(answers[c]) \cup Serving
Copies(c) == Len(shown[c]) + Len(queue) + Len(answers[c])
             + IF server_at = "sendto" THEN 1 ELSE 0

\* No line is known that has not been sent.
Numbered(c) == \A x \in Known(c) : x[2] =< dg_sent[x[1]]

\* A client that waits for an answer has sent one line more than it has printed.
Lockstep(c) ==
  /\ dg_at[c] = "sendto" => dg_sent[c] = Len(shown[c])
  /\ dg_at[c] = "recvfrom" => dg_sent[c] = Len(shown[c]) + 1
  /\ \A j \in DOMAIN shown[c] : shown[c][j][2] =< j

\* There are no more copies than lines and duplicates.
Excess(c) == Copies(c) =< Cardinality(Known(c)) + dups

DgIInv == DgShape /\ \A c \in Senders : Numbered(c) /\ Lockstep(c) /\ Excess(c)

-----------------------------------------------------------------------------
(* Sequences and the sets of their elements *)

\* A sequence has no more different elements than it is long.
LEMMA ToSetFinite ==
  ASSUME NEW S, NEW s \in Seq(S)
  PROVE  IsFiniteSet(ToSet(s)) /\ Cardinality(ToSet(s)) =< Len(s)
<1>1. /\ Len(s) \in Nat /\ DOMAIN s = 1 .. Len(s) /\ s \in [1 .. Len(s) -> S]
  BY LenProperties
<1>2. IsFiniteSet(1 .. Len(s)) /\ Cardinality(1 .. Len(s)) = Len(s)
  <2>1. PICK n \in Nat : n = Len(s)
    BY <1>1
  <2>2. IsFiniteSet(1 .. n) /\ Cardinality(1 .. n) = n
    BY FS_Interval
  <2>. QED
    BY <2>1, <2>2
<1>3. s \in Surjection(1 .. Len(s), ToSet(s))
  BY <1>1 DEF Surjection, ToSet
<1>. QED
  BY <1>2, <1>3, FS_Surjection

\* The elements are the first and those of the rest.
LEMMA ToSetHead ==
  ASSUME NEW S, NEW s \in Seq(S), s # <<>>
  PROVE  ToSet(s) = {Head(s)} \cup ToSet(Tail(s))
<1>1. PICK n : n = Len(s)
  OBVIOUS
<1>2. n \in Nat /\ n # 0
  BY <1>1, EmptyLength
<1>3. /\ Head(s) = s[1] /\ DOMAIN s = 1 .. n
      /\ DOMAIN Tail(s) = 1 .. n - 1
      /\ \A i \in 1 .. n - 1 : Tail(s)[i] = s[i + 1]
  BY <1>1, <1>2, HeadTailProperties, LenProperties
<1>4. ASSUME NEW i \in 1 .. n, i # 1
      PROVE  s[i] \in ToSet(Tail(s))
  <2>1. i - 1 \in 1 .. n - 1 /\ s[i] = Tail(s)[i - 1]
    BY <1>2, <1>3, <1>4
  <2>. QED
    BY <1>3, <2>1 DEF ToSet
<1>5. ASSUME NEW i \in 1 .. n - 1
      PROVE  Tail(s)[i] \in ToSet(s)
  <2>1. i + 1 \in 1 .. n /\ Tail(s)[i] = s[i + 1]
    BY <1>2, <1>3
  <2>. QED
    BY <1>3, <2>1 DEF ToSet
<1>6. 1 \in 1 .. n
  BY <1>2
<1>. QED
  BY <1>3, <1>4, <1>5, <1>6 DEF ToSet

Removed(s, k) ==
  /\ Len(RemoveAt(s, k)) = Len(s) - 1
  /\ ToSet(RemoveAt(s, k)) \subseteq ToSet(s)
  /\ ToSet(s) \ {s[k]} \subseteq ToSet(RemoveAt(s, k))

\* What is removed at one place may still be at another.
LEMMA ToSetRemoved ==
  ASSUME NEW S, NEW s \in Seq(S), NEW k \in DOMAIN s
  PROVE  RemoveAt(s, k) \in Seq(S) /\ Removed(s, k)
<1>1. PICK n \in Nat : n = Len(s)
  BY LenProperties
<1>2. k \in 1 .. n /\ DOMAIN s = 1 .. n
  BY <1>1, LenProperties
<1>. DEFINE p == SubSeq(s, 1, k - 1)
            q == SubSeq(s, k + 1, n)
<1>3. \A i \in 1 .. n : s[i] \in S
  BY <1>1, ElementOfSeq
<1>4. /\ p \in Seq(S) /\ Len(p) = k - 1 /\ \A i \in 1 .. k - 1 : p[i] = s[i]
  <2>1. 1 \in Int /\ k - 1 \in Int /\ \A i \in 1 .. k - 1 : s[i] \in S
    BY <1>2, <1>3
  <2>. QED
    BY <1>2, <2>1, SubSeqProperties
<1>5. /\ q \in Seq(S) /\ Len(q) = n - k /\ \A i \in 1 .. n - k : q[i] = s[k + i]
  <2>1. k + 1 \in Int /\ n \in Int /\ \A i \in k + 1 .. n : s[i] \in S
    BY <1>2, <1>3
  <2>. QED
    BY <1>2, <2>1, SubSeqProperties
<1>6. RemoveAt(s, k) = p \o q
  BY <1>1 DEF RemoveAt
<1>. DEFINE t == p \o q
<1>. HIDE DEF p, q
<1>7. /\ t \in Seq(S) /\ Len(t) = n - 1
      /\ \A i \in 1 .. n - 1 : t[i] = IF i < k THEN s[i] ELSE s[i + 1]
  <2>1. /\ t \in Seq(S) /\ Len(t) = Len(p) + Len(q)
        /\ \A i \in 1 .. Len(p) + Len(q) :
             t[i] = IF i <= Len(p) THEN p[i] ELSE q[i - Len(p)]
    BY <1>4, <1>5, ConcatProperties
  <2>. HIDE DEF t
  <2>2. Len(p) + Len(q) = n - 1
    BY <1>1, <1>2, <1>4, <1>5
  <2>3. ASSUME NEW i \in 1 .. n - 1
        PROVE  t[i] = IF i < k THEN s[i] ELSE s[i + 1]
    <3>1. CASE i < k
      BY <1>2, <1>4, <2>1, <2>2, <2>3, <3>1
    <3>2. CASE ~(i < k)
      <4>1. t[i] = q[i - (k - 1)]
        BY <1>2, <1>4, <2>1, <2>2, <2>3, <3>2
      <4>2. i - (k - 1) \in 1 .. n - k /\ k + (i - (k - 1)) = i + 1
        BY <1>2, <2>3, <3>2
      <4>. QED
        BY <1>5, <3>2, <4>1, <4>2
    <3>. QED
      BY <3>1, <3>2
  <2>. QED
    BY <2>1, <2>2, <2>3
<1>. HIDE DEF t
<1>8. DOMAIN t = 1 .. n - 1
  BY <1>7, LenProperties
<1>9. ToSet(t) \subseteq ToSet(s)
  <2>1. ASSUME NEW i \in 1 .. n - 1 PROVE \E j \in 1 .. n : t[i] = s[j]
    <3>1. i \in 1 .. n /\ i + 1 \in 1 .. n
      BY <2>1
    <3>. QED
      BY <1>7, <3>1
  <2>. QED
    BY <1>2, <1>8, <2>1 DEF ToSet
<1>10. ToSet(s) \ {s[k]} \subseteq ToSet(t)
  <2>1. ASSUME NEW j \in 1 .. n, j # k PROVE \E i \in 1 .. n - 1 : t[i] = s[j]
    <3>1. CASE j < k
      <4>1. j \in 1 .. n - 1 /\ t[j] = s[j]
        BY <1>2, <1>7, <2>1, <3>1
      <4>. QED
        BY <4>1
    <3>2. CASE j > k
      <4>1. j - 1 \in 1 .. n - 1 /\ t[j - 1] = s[(j - 1) + 1] /\ (j - 1) + 1 = j
        BY <1>2, <1>7, <2>1, <3>2
      <4>. QED
        BY <4>1
    <3>. QED
      BY <1>2, <2>1, <3>1, <3>2
  <2>. QED
    BY <1>2, <1>8, <2>1 DEF ToSet
<1>. QED
  BY <1>1, <1>6, <1>7, <1>9, <1>10 DEF Removed, t

-----------------------------------------------------------------------------
(* What the steps do to the counts *)

\* The two counts are numbers.
LEMMA KnownFinite ==
  ASSUME DgShape, NEW c \in Senders
  PROVE  /\ IsFiniteSet(Known(c)) /\ Cardinality(Known(c)) \in Nat
         /\ Copies(c) \in Nat /\ dups \in Nat
<1>1. /\ shown[c] \in Seq(Datagrams({c})) /\ answers[c] \in Seq(Datagrams({c}))
      /\ queue \in Seq(Datagrams(Senders)) /\ dups \in Nat
  BY DEF DgShape
<1>2. /\ IsFiniteSet(ToSet(shown[c])) /\ IsFiniteSet(ToSet(answers[c]))
      /\ IsFiniteSet(ToSet(queue))
  BY <1>1, ToSetFinite
<1>3. IsFiniteSet(Serving)
  BY FS_Singleton, FS_EmptySet DEF Serving
<1>4. IsFiniteSet(Known(c))
  BY <1>2, <1>3, FS_Union DEF Known
<1>5. Len(shown[c]) \in Nat /\ Len(answers[c]) \in Nat /\ Len(queue) \in Nat
  BY <1>1, LenProperties
<1>6. Copies(c) \in Nat
  <2>1. PICK i \in Nat, j \in Nat, k \in Nat :
          i = Len(shown[c]) /\ j = Len(queue) /\ k = Len(answers[c])
    BY <1>5
  <2>2. Copies(c) = i + j + k + (IF server_at = "sendto" THEN 1 ELSE 0)
    BY <2>1 DEF Copies
  <2>. QED
    BY <2>2
<1>7. Cardinality(Known(c)) \in Nat
  BY <1>4, FS_CardinalityType
<1>. QED
  BY <1>1, <1>4, <1>6, <1>7

\* What is known is a sender and the number of a line.
LEMMA KnownTyped ==
  ASSUME DgShape, NEW c \in Senders
  PROVE  \A x \in Known(c) : x[1] \in Senders /\ x[2] \in Nat
<1>1. \A S : \A s \in Seq(S) : ToSet(s) \subseteq S
  BY LenProperties DEF ToSet
<1>2. /\ ToSet(shown[c]) \subseteq Datagrams({c}) /\ ToSet(answers[c]) \subseteq Datagrams({c})
      /\ ToSet(queue) \subseteq Datagrams(Senders)
  BY <1>1 DEF DgShape
<1>3. Serving \subseteq Datagrams(Senders)
  BY DEF DgShape, Serving, Datagrams
<1>4. Known(c) \subseteq Datagrams(Senders)
  BY <1>2, <1>3 DEF Known, Datagrams
<1>. QED
  BY <1>4 DEF Datagrams

\* The copies of a set Gone are gone; or they are as many, or a duplicate more.
LEMMA ExcessKept ==
  ASSUME DgShape, DgShape', NEW c \in Senders, Excess(c),
         NEW Gone, IsFiniteSet(Gone), Known(c) \ Gone \subseteq Known(c)',
         Copies(c)' + Cardinality(Gone) + dups =< Copies(c) + dups'
  PROVE  Excess(c)'
<1>. DEFINE K == Known(c)
            L == Known(c)'
<1>1. /\ IsFiniteSet(K) /\ Cardinality(K) \in Nat /\ Copies(c) \in Nat /\ dups \in Nat
      /\ IsFiniteSet(L) /\ Cardinality(L) \in Nat /\ Copies(c)' \in Nat /\ dups' \in Nat
  <2>1. IsFiniteSet(K) /\ Cardinality(K) \in Nat /\ Copies(c) \in Nat /\ dups \in Nat
    BY KnownFinite
  <2>2. (IsFiniteSet(K) /\ Cardinality(K) \in Nat /\ Copies(c) \in Nat /\ dups \in Nat)'
    BY KnownFinite, PTL
  <2>. QED
    BY <2>1, <2>2
<1>2. Copies(c) =< Cardinality(K) + dups
  BY DEF Excess
<1>. HIDE DEF K, L
<1>3. K \ Gone \subseteq L
  BY DEF K, L
<1>4. /\ IsFiniteSet(L \cup Gone) /\ Cardinality(Gone) \in Nat
      /\ Cardinality(L \cup Gone) =< Cardinality(L) + Cardinality(Gone)
  <2>1. IsFiniteSet(L \cap Gone) /\ Cardinality(L \cap Gone) \in Nat /\ Cardinality(Gone) \in Nat
    BY <1>1, FS_Subset, FS_CardinalityType
  <2>2. /\ IsFiniteSet(L \cup Gone)
        /\ Cardinality(L \cup Gone) =
             Cardinality(L) + Cardinality(Gone) - Cardinality(L \cap Gone)
    BY <1>1, FS_Union
  <2>. QED
    BY <1>1, <2>1, <2>2
<1>5. Cardinality(K) =< Cardinality(L \cup Gone)
  BY <1>3, <1>4, FS_Subset
<1>6. Cardinality(L \cup Gone) \in Nat
  BY <1>4, FS_CardinalityType
<1>7. Copies(c)' =< Cardinality(L) + dups'
  BY <1>1, <1>2, <1>4, <1>5, <1>6
<1>. QED
  BY <1>7 DEF Excess, L

\* Nothing that was known is gone, and copies are added no faster than duplicates.
LEMMA ExcessSame ==
  ASSUME DgShape, DgShape', NEW c \in Senders, Excess(c),
         Known(c) \subseteq Known(c)', Copies(c)' + dups =< Copies(c) + dups'
  PROVE  Excess(c)'
<1>1. IsFiniteSet({}) /\ Cardinality({}) = 0 /\ Known(c) \ {} \subseteq Known(c)'
  BY FS_EmptySet
<1>2. Copies(c) \in Nat /\ dups \in Nat /\ Copies(c)' \in Nat /\ dups' \in Nat
  <2>1. (Copies(c) \in Nat /\ dups \in Nat)'
    BY KnownFinite, PTL
  <2>. QED
    BY <2>1, KnownFinite
<1>3. Copies(c)' + Cardinality({}) + dups =< Copies(c) + dups'
  BY <1>1, <1>2
<1>. QED
  BY <1>1, <1>3, ExcessKept

\* A copy is lost, and with it one that was known, or none.
LEMMA ExcessLoses ==
  ASSUME DgShape, DgShape', NEW c \in Senders, Excess(c), NEW x,
         Known(c) \ {x} \subseteq Known(c)', Copies(c)' = Copies(c) - 1, dups' = dups
  PROVE  Excess(c)'
<1>1. IsFiniteSet({x}) /\ Cardinality({x}) = 1
  BY FS_Singleton
<1>2. Copies(c) \in Nat /\ dups \in Nat
  BY KnownFinite
<1>3. Copies(c)' + Cardinality({x}) + dups =< Copies(c) + dups'
  BY <1>1, <1>2
<1>. QED
  BY <1>1, <1>3, ExcessKept

\* Nothing is known that was not known before.
LEMMA NumberedKept ==
  ASSUME DgShape, NEW c \in Senders, Numbered(c), Known(c)' \subseteq Known(c),
         dg_sent' = dg_sent
  PROVE  Numbered(c)'
BY DEF Numbered

\* The client does not send, and prints nothing.
LEMMA LockstepKept ==
  ASSUME NEW c \in Senders, Lockstep(c), dg_sent' = dg_sent, shown' = shown,
         dg_at'[c] \in {dg_at[c], "done", "failed", "dead"}
  PROVE  Lockstep(c)'
BY DEF Lockstep

\* A step that sends nothing and shows nothing.
Quietly == UNCHANGED <<protocol, dg_sent, shown>>

\* The two together.
LEMMA QuietStep ==
  ASSUME DgShape, DgShape', NEW c \in Senders, Quietly,
         Numbered(c), Lockstep(c), Known(c)' \subseteq Known(c),
         dg_at'[c] \in {dg_at[c], "done", "failed", "dead"}, Excess(c)'
  PROVE  (Numbered(c) /\ Lockstep(c) /\ Excess(c))'
BY NumberedKept, LockstepKept DEF Quietly

-----------------------------------------------------------------------------
(* The steps of the clients *)

\* sendto: the next line was not known before, so that copies and lines both are one more.
LEMMA SendtoStep ==
  ASSUME DgIInv, NEW d \in Senders, Sendto(d)
  PROVE  DgIInv'
<1>0. /\ UNCHANGED <<protocol, shown, server_at, pcli_addr, mesg, first_client, size, answers,
                     dups, dead>>
      /\ DgShape /\ dg_at[d] = "sendto" /\ dg_sent[d] < Lines /\ Lines \in Nat
  BY DatagramAssumption DEF DgIInv, Sendto, dgServerVars, dgFaults
<1>1. CASE dg_at' = [dg_at EXCEPT ![d] = "failed"] /\ UNCHANGED <<dg_sent, queue>>
  <2>1. DgShape'
    BY <1>0, <1>1 DEF DgShape
  <2>2. ASSUME NEW c \in Senders PROVE (Numbered(c) /\ Lockstep(c) /\ Excess(c))'
    <3>1. Numbered(c) /\ Lockstep(c) /\ Excess(c)
      BY DEF DgIInv
    <3>2. Known(c)' = Known(c) /\ Copies(c)' = Copies(c)
      BY <1>0, <1>1 DEF Known, Copies, Serving
    <3>3. dg_at'[c] \in {dg_at[c], "failed"} /\ Quietly
      BY <1>0, <1>1 DEF DgShape, Quietly
    <3>4. Excess(c)'
      BY <1>0, <3>1, <3>2 DEF Excess
    <3>. QED
      BY <1>0, <2>1, <3>1, <3>2, <3>3, <3>4, QuietStep
  <2>. QED
    BY <2>1, <2>2 DEF DgIInv
<1>2. CASE /\ dg_sent' = [dg_sent EXCEPT ![d] = @ + 1]
           /\ queue' = Append(queue, <<d, dg_sent[d] + 1>>)
           /\ dg_at' = [dg_at EXCEPT ![d] = IF waits THEN "recvfrom" ELSE "done"]
  <2>. DEFINE x == <<d, dg_sent[d] + 1>>
  <2>1. x \in Datagrams(Senders) /\ queue \in Seq(Datagrams(Senders)) /\ dg_sent[d] \in 0 .. Lines
    BY <1>0 DEF DgShape, Datagrams
  <2>2. queue' \in Seq(Datagrams(Senders)) /\ Len(queue') = Len(queue) + 1
    BY <1>2, <2>1, AppendProperties
  <2>3. ToSet(queue') = ToSet(queue) \cup {x}
    BY <1>2, <2>1, ToSetAppend
  <2>4. DgShape'
    BY <1>0, <1>2, <2>1, <2>2 DEF DgShape
  <2>5. ASSUME NEW c \in Senders PROVE (Numbered(c) /\ Lockstep(c) /\ Excess(c))'
    <3>1. Numbered(c) /\ Lockstep(c) /\ Excess(c) /\ Numbered(d) /\ Lockstep(d)
      BY DEF DgIInv
    <3>2. Known(c)' = Known(c) \cup {x}
      BY <1>0, <2>3 DEF Known, Serving
    <3>3. Copies(c)' = Copies(c) + 1 /\ Copies(c) \in Nat
      <4>1. Copies(c) \in Nat
        BY <1>0, KnownFinite
      <4>2. /\ Len(shown[c]) \in Nat /\ Len(queue) \in Nat /\ Len(answers[c]) \in Nat
        BY <1>0, LenProperties DEF DgShape
      <4>3. PICK i \in Nat, j \in Nat, k \in Nat, n \in {0, 1} :
              /\ i = Len(shown[c]) /\ j = Len(queue) /\ k = Len(answers[c])
              /\ n = IF server_at = "sendto" THEN 1 ELSE 0
        BY <4>2
      <4>4. Copies(c) = i + j + k + n
        BY <4>3 DEF Copies
      <4>5. Copies(c)' = i + (j + 1) + k + n
        BY <1>0, <2>2, <4>3 DEF Copies
      <4>. QED
        BY <4>1, <4>4, <4>5
    <3>4. x \notin Known(c)
      BY <2>1, <3>1 DEF Numbered
    <3>5. Excess(c)'
      <4>1. Cardinality(Known(c)') = Cardinality(Known(c)) + 1
        BY <1>0, <3>2, <3>4, KnownFinite, FS_AddElement
      <4>2. Cardinality(Known(c)) \in Nat /\ dups \in Nat
        BY <1>0, KnownFinite
      <4>. QED
        BY <1>0, <3>1, <3>3, <4>1, <4>2 DEF Excess
    <3>6. Numbered(c)'
      <4>1. /\ \A b \in Senders : dg_sent[b] \in Nat /\ dg_sent[b] =< dg_sent'[b]
            /\ dg_sent'[d] = dg_sent[d] + 1
        BY <1>0, <1>2 DEF DgShape
      <4>2. \A y \in Known(c) : y[1] \in Senders /\ y[2] \in Nat
        BY <1>0, KnownTyped
      <4>3. ASSUME NEW y \in Known(c) PROVE y[2] =< dg_sent'[y[1]]
        <5>1. PICK b \in Senders, n \in Nat : b = y[1] /\ n = y[2]
          BY <4>2, <4>3
        <5>2. n =< dg_sent[b] /\ dg_sent[b] =< dg_sent'[b]
          BY <3>1, <4>1, <4>3, <5>1 DEF Numbered
        <5>3. dg_sent[b] \in Nat /\ dg_sent'[b] \in Nat
          BY <1>0, <2>4 DEF DgShape
        <5>. QED
          BY <5>1, <5>2, <5>3
      <4>4. x[2] =< dg_sent'[x[1]]
        BY <1>0, <4>1
      <4>. QED
        BY <3>2, <4>3, <4>4 DEF Numbered
    <3>7. Lockstep(c)'
      BY <1>0, <1>2, <3>1 DEF Lockstep, DgShape
    <3>. QED
      BY <3>5, <3>6, <3>7
  <2>. QED
    BY <2>4, <2>5 DEF DgIInv
<1>. QED
  BY <1>1, <1>2 DEF Sendto

Counted(c, i, j, k, n) ==
  /\ i = Len(shown[c]) /\ j = Len(queue) /\ k = Len(answers[c])
  /\ n = IF server_at = "sendto" THEN 1 ELSE 0

\* The four parts of Copies, as numbers:
LEMMA Counts ==
  ASSUME DgShape, NEW c \in Senders
  PROVE  \E i, j, k \in Nat, n \in {0, 1} : Counted(c, i, j, k, n)
<1>1. Len(shown[c]) \in Nat /\ Len(queue) \in Nat /\ Len(answers[c]) \in Nat
  BY LenProperties DEF DgShape
<1>. QED
  BY <1>1 DEF Counted

\* their sum.
LEMMA CountedCopies ==
  ASSUME NEW c, NEW i, NEW j, NEW k, NEW n, Counted(c, i, j, k, n)
  PROVE  Copies(c) = i + j + k + n
BY DEF Counted, Copies

\* recvfrom in dg_cli: an answer goes from the socket to what is printed.
LEMMA ShownStep ==
  ASSUME DgIInv, NEW d \in Senders, DgCliRecvfrom(d)
  PROVE  DgIInv'
<1>. DEFINE x == Head(answers[d])
<1>0. /\ UNCHANGED <<protocol, dg_sent, server_at, pcli_addr, mesg, first_client, size, queue,
                     dups, dead>>
      /\ answers' = [answers EXCEPT ![d] = Tail(@)]
      /\ shown' = [shown EXCEPT ![d] = Append(@, x)]
      /\ dg_at' = [dg_at EXCEPT ![d] = "sendto"]
      /\ DgShape /\ dg_at[d] = "recvfrom" /\ answers[d] # <<>>
  BY DEF DgIInv, DgCliRecvfrom, dgServerVars, dgFaults
<1>1. /\ answers[d] \in Seq(Datagrams({d})) /\ shown[d] \in Seq(Datagrams({d}))
      /\ DOMAIN answers = Senders /\ DOMAIN shown = Senders
  BY <1>0 DEF DgShape
<1>2. /\ x \in Datagrams({d}) /\ Tail(answers[d]) \in Seq(Datagrams({d}))
      /\ Len(Tail(answers[d])) = Len(answers[d]) - 1
      /\ ToSet(answers[d]) = {x} \cup ToSet(Tail(answers[d]))
  BY <1>0, <1>1, HeadTailProperties, ToSetHead
<1>3. /\ Append(shown[d], x) \in Seq(Datagrams({d}))
      /\ Len(Append(shown[d], x)) = Len(shown[d]) + 1
      /\ \A j \in 1 .. Len(shown[d]) : Append(shown[d], x)[j] = shown[d][j]
      /\ Append(shown[d], x)[Len(shown[d]) + 1] = x
      /\ ToSet(Append(shown[d], x)) = ToSet(shown[d]) \cup {x}
  BY <1>1, <1>2, AppendProperties, ToSetAppend
<1>. HIDE DEF x
<1>4. /\ answers'[d] = Tail(answers[d]) /\ shown'[d] = Append(shown[d], x)
      /\ dg_at'[d] = "sendto"
      /\ \A c \in Senders \ {d} : /\ answers'[c] = answers[c] /\ shown'[c] = shown[c]
                                  /\ dg_at'[c] = dg_at[c]
  BY <1>0, <1>1 DEF DgShape
<1>5. DgShape'
  BY <1>0, <1>2, <1>3, <1>4 DEF DgShape
<1>6. ASSUME NEW c \in Senders, c # d PROVE (Numbered(c) /\ Lockstep(c) /\ Excess(c))'
  <2>1. Numbered(c) /\ Lockstep(c) /\ Excess(c)
    BY DEF DgIInv
  <2>2. Known(c)' = Known(c) /\ Copies(c)' = Copies(c)
    BY <1>0, <1>4, <1>6 DEF Known, Copies, Serving
  <2>. QED
    BY <1>0, <1>4, <1>6, <2>1, <2>2 DEF Numbered, Lockstep, Excess
<1>7. (Numbered(d) /\ Lockstep(d) /\ Excess(d))'
  <2>1. Numbered(d) /\ Lockstep(d) /\ Excess(d)
    BY DEF DgIInv
  <2>2. Known(d)' = Known(d)
    BY <1>0, <1>2, <1>3, <1>4 DEF Known, Serving
  <2>3. Copies(d)' = Copies(d)
    <3>1. PICK i \in Nat, j \in Nat, k \in Nat, n \in {0, 1} : Counted(d, i, j, k, n)
      BY <1>0, Counts
    <3>2. Copies(d) = i + j + k + n
      BY <3>1, CountedCopies
    <3>3. Copies(d)' = (i + 1) + j + (k - 1) + n
      BY <1>0, <1>2, <1>3, <1>4, <3>1 DEF Counted, Copies
    <3>. QED
      BY <3>2, <3>3
  <2>4. Lockstep(d)'
    <3>1. PICK i \in Nat : i = Len(shown[d])
      BY <1>1, LenProperties
    <3>2. dg_sent[d] = i + 1 /\ \A j \in 1 .. i : shown[d][j][2] =< j
      BY <1>0, <1>1, <2>1, <3>1, LenProperties DEF Lockstep
    <3>3. x[2] =< i + 1
      <4>1. x \in Known(d) /\ x[1] = d
        BY <1>2 DEF Known, Datagrams
      <4>. QED
        BY <2>1, <3>2, <4>1 DEF Numbered
    <3>4. DOMAIN shown'[d] = 1 .. i + 1 /\ Len(shown'[d]) = i + 1
      BY <1>3, <1>4, <3>1, LenProperties
    <3>5. \A j \in 1 .. i + 1 : shown'[d][j][2] =< j
      BY <1>3, <1>4, <3>1, <3>2, <3>3
    <3>. QED
      BY <1>0, <1>4, <3>2, <3>4, <3>5 DEF Lockstep
  <2>. QED
    BY <1>0, <2>1, <2>2, <2>3, <2>4 DEF Numbered, Excess
<1>. QED
  BY <1>5, <1>6, <1>7 DEF DgIInv

\* The client ends, in one way or another, and what is at its socket is lost.
LEMMA ClientStops ==
  ASSUME DgIInv, NEW d \in Senders, DgCliEnd(d) \/ DgKill(d)
  PROVE  DgIInv'
<1>0. /\ UNCHANGED <<protocol, dg_sent, shown, server_at, pcli_addr, mesg, first_client, size,
                     queue, dups>>
      /\ Quietly /\ DgShape /\ dead' \subseteq Senders
  BY DEF DgIInv, DgCliEnd, DgKill, DgShape, dgServerVars, dgFaults, Quietly
<1>1. /\ \A c \in Senders : dg_at'[c] \in {dg_at[c], "done", "dead"}
      /\ dg_at' \in [Senders -> {"sendto", "recvfrom", "done", "failed", "dead"}]
      /\ answers' = answers \/ answers' = [answers EXCEPT ![d] = <<>>]
  BY <1>0 DEF DgCliEnd, DgKill, DgShape
<1>2. \A S : <<>> \in Seq(S)
  BY EmptySeq
<1>3. DgShape'
  <2>1. /\ DOMAIN answers' = Senders
        /\ \A c \in Senders : answers'[c] = answers[c] \/ answers'[c] = <<>>
    BY <1>0, <1>1 DEF DgShape
  <2>2. \A c \in Senders : answers'[c] \in Seq(Datagrams({c}))
    BY <1>0, <1>2, <2>1 DEF DgShape
  <2>. QED
    BY <1>0, <1>1, <2>1, <2>2 DEF DgShape
<1>4. ASSUME NEW c \in Senders PROVE (Numbered(c) /\ Lockstep(c) /\ Excess(c))'
  <2>1. Numbered(c) /\ Lockstep(c) /\ Excess(c)
    BY DEF DgIInv
  <2>2. CASE answers'[c] = answers[c]
    <3>1. Known(c)' = Known(c) /\ Copies(c)' = Copies(c)
      BY <1>0, <2>2 DEF Known, Copies, Serving
    <3>2. Excess(c)'
      BY <1>0, <2>1, <3>1 DEF Excess
    <3>. QED
      BY <1>0, <1>1, <1>3, <2>1, <3>1, <3>2, QuietStep
  <2>3. CASE answers'[c] = <<>>
    <3>1. /\ answers[c] \in Seq(Datagrams({c})) /\ ToSet(answers'[c]) = {} /\ Len(answers'[c]) = 0
      BY <1>0, <2>3, EmptySeq DEF DgShape, ToSet
    <3>2. Known(c)' \subseteq Known(c) /\ Known(c) \ ToSet(answers[c]) \subseteq Known(c)'
      BY <1>0, <3>1 DEF Known, Serving
    <3>3. PICK i \in Nat, j \in Nat, k \in Nat, n \in {0, 1} : Counted(c, i, j, k, n)
      BY <1>0, Counts
    <3>4. Copies(c) = i + j + k + n
      BY <3>3, CountedCopies
    <3>5. Copies(c)' = i + j + 0 + n
      BY <1>0, <3>1, <3>3 DEF Counted, Copies
    <3>6. IsFiniteSet(ToSet(answers[c])) /\ Cardinality(ToSet(answers[c])) =< k
      BY <3>1, <3>3, ToSetFinite DEF Counted
    <3>7. Cardinality(ToSet(answers[c])) \in Nat /\ dups \in Nat
      BY <1>0, <3>6, FS_CardinalityType DEF DgShape
    <3>8. Copies(c)' + Cardinality(ToSet(answers[c])) + dups =< Copies(c) + dups'
      BY <1>0, <3>4, <3>5, <3>6, <3>7
    <3>9. Excess(c)'
      BY <1>0, <1>3, <2>1, <3>2, <3>6, <3>8, ExcessKept
    <3>. QED
      BY <1>0, <1>1, <1>3, <2>1, <3>2, <3>9, QuietStep
  <2>. QED
    BY <1>0, <1>1, <2>2, <2>3 DEF DgShape
<1>. QED
  BY <1>3, <1>4 DEF DgIInv

-----------------------------------------------------------------------------
(* The steps of the server *)

\* recvfrom in the server, which drops what is not from its first client.
LEMMA TakenStep ==
  ASSUME DgIInv, DgRecvfrom
  PROVE  DgIInv'
<1>. DEFINE x == Head(queue)
<1>0. /\ UNCHANGED <<protocol, dg_at, dg_sent, shown, size, answers, dups, dead>> /\ Quietly
      /\ DgShape /\ server_at = "recvfrom" /\ queue # <<>>
      /\ queue' = Tail(queue) /\ pcli_addr' = x[1] /\ mesg' = x[2]
      /\ server_at' \in {"sendto", "recvfrom"}
      /\ first_client' = first_client \/ first_client' = pcli_addr'
  BY DEF DgIInv, DgRecvfrom, dgClientVars, dgFaults, Quietly
<1>1. /\ queue \in Seq(Datagrams(Senders))
      /\ x \in Datagrams(Senders) /\ queue' \in Seq(Datagrams(Senders))
      /\ Len(queue') = Len(queue) - 1 /\ ToSet(queue) = {x} \cup ToSet(queue')
  <2>1. queue \in Seq(Datagrams(Senders))
    BY <1>0 DEF DgShape
  <2>. QED
    BY <1>0, <2>1, HeadTailProperties, ToSetHead
<1>. HIDE DEF x
<1>2. /\ pcli_addr' \in Senders /\ mesg' \in 1 .. Lines /\ x = <<pcli_addr', mesg'>>
      /\ mesg' \in 0 .. Lines
  BY <1>0, <1>1, DatagramAssumption DEF Datagrams
<1>3. DgShape'
  BY <1>0, <1>1, <1>2 DEF DgShape
<1>4. ASSUME NEW c \in Senders PROVE (Numbered(c) /\ Lockstep(c) /\ Excess(c))'
  <2>1. Numbered(c) /\ Lockstep(c) /\ Excess(c)
    BY DEF DgIInv
  <2>2. PICK i \in Nat, j \in Nat, k \in Nat, n \in {0, 1} : Counted(c, i, j, k, n)
    BY <1>0, Counts
  <2>3. n = 0 /\ Copies(c) = i + j + k + n
    <3>1. n = 0
      BY <1>0, <2>2 DEF Counted
    <3>. QED
      BY <2>2, <3>1, CountedCopies
  <2>4. Copies(c)' = i + (j - 1) + k + IF server_at' = "sendto" THEN 1 ELSE 0
    BY <1>0, <1>1, <2>2 DEF Counted, Copies
  <2>5. CASE server_at' = "sendto"
    <3>1. Known(c)' = Known(c)
      BY <1>0, <1>1, <1>2, <2>5 DEF Known, Serving
    <3>2. Copies(c)' = Copies(c)
      BY <2>3, <2>4, <2>5
    <3>3. Excess(c)'
      BY <1>0, <2>1, <3>1, <3>2 DEF Excess
    <3>. QED
      BY <1>0, <1>3, <2>1, <3>1, <3>3, QuietStep
  <2>6. CASE server_at' # "sendto"
    <3>1. Known(c)' \subseteq Known(c) /\ Known(c) \ {x} \subseteq Known(c)'
      BY <1>0, <1>1, <2>6 DEF Known, Serving
    <3>2. Copies(c)' = Copies(c) - 1
      BY <2>3, <2>4, <2>6
    <3>3. Excess(c)'
      BY <1>0, <1>3, <2>1, <3>1, <3>2, ExcessLoses
    <3>. QED
      BY <1>0, <1>3, <2>1, <3>1, <3>3, QuietStep
  <2>. QED
    BY <2>5, <2>6
<1>. QED
  BY <1>3, <1>4 DEF DgIInv

\* The server has done with a datagram, and the client has its answer or not.
Answering ==
  /\ UNCHANGED <<protocol, dg_at, dg_sent, shown, pcli_addr, mesg, queue, dups, dead>>
  /\ server_at = "sendto" /\ server_at' \in {"recvfrom", "over"}
  /\ size' \in Sizes /\ first_client' \in {first_client, NoSender}
  /\ \/ answers' = answers
     \/ answers' = [answers EXCEPT ![pcli_addr] = Append(@, <<pcli_addr, mesg>>)]

\* An answer is as many copies as the datagram was; without one a copy is lost.
LEMMA AnsweringStep ==
  ASSUME DgIInv, Answering
  PROVE  DgIInv'
<1>. DEFINE x == <<pcli_addr, mesg>>
<1>0. /\ DgShape /\ Quietly /\ pcli_addr \in Senders /\ mesg \in 1 .. Lines
      /\ x \in Datagrams({pcli_addr}) /\ answers[pcli_addr] \in Seq(Datagrams({pcli_addr}))
  BY DEF DgIInv, DgShape, Answering, Quietly, Datagrams
<1>1. /\ Append(answers[pcli_addr], x) \in Seq(Datagrams({pcli_addr}))
      /\ Len(Append(answers[pcli_addr], x)) = Len(answers[pcli_addr]) + 1
      /\ ToSet(Append(answers[pcli_addr], x)) = ToSet(answers[pcli_addr]) \cup {x}
  BY <1>0, AppendProperties, ToSetAppend
<1>2. /\ DOMAIN answers' = Senders
      /\ \A c \in Senders :
           \/ answers'[c] = answers[c]
           \/ c = pcli_addr /\ answers'[c] = Append(answers[pcli_addr], x)
  BY <1>0 DEF Answering, DgShape
<1>3. Serving = {x} /\ Serving' = {} /\ server_at = "sendto" /\ server_at' # "sendto"
  BY DEF Serving, Answering
<1>. HIDE DEF x
<1>4. DgShape'
  <2>1. \A c \in Senders : answers'[c] \in Seq(Datagrams({c}))
    BY <1>0, <1>1, <1>2 DEF DgShape
  <2>. QED
    BY <1>0, <1>2, <1>3, <2>1 DEF DgShape, Answering
<1>5. ASSUME NEW c \in Senders PROVE (Numbered(c) /\ Lockstep(c) /\ Excess(c))'
  <2>1. Numbered(c) /\ Lockstep(c) /\ Excess(c)
    BY DEF DgIInv
  <2>2. PICK i \in Nat, j \in Nat, k \in Nat, n \in {0, 1} : Counted(c, i, j, k, n)
    BY <1>0, Counts
  <2>3. n = 1 /\ Copies(c) = i + j + k + n
    <3>1. n = 1
      BY <1>3, <2>2 DEF Counted
    <3>. QED
      BY <2>2, <3>1, CountedCopies
  <2>4. shown' = shown /\ queue' = queue /\ dups' = dups /\ dg_at' = dg_at
    BY DEF Answering
  <2>5. CASE answers'[c] = answers[c]
    <3>1. Known(c)' \subseteq Known(c) /\ Known(c) \ {x} \subseteq Known(c)'
      BY <1>3, <2>4, <2>5 DEF Known
    <3>2. Copies(c)' = i + j + k + 0
      BY <1>3, <2>2, <2>4, <2>5 DEF Counted, Copies
    <3>3. Excess(c)'
      <4>1. Copies(c)' = Copies(c) - 1
        BY <2>3, <3>2
      <4>. QED
        BY <1>0, <1>4, <2>1, <2>4, <3>1, <4>1, ExcessLoses
    <3>. QED
      BY <1>0, <1>4, <2>1, <2>4, <3>1, <3>3, QuietStep
  <2>6. CASE c = pcli_addr /\ answers'[c] = Append(answers[pcli_addr], x)
    <3>1. Known(c)' = Known(c)
      BY <1>1, <1>3, <2>4, <2>6 DEF Known
    <3>2. Copies(c)' = i + j + (k + 1) + 0
      BY <1>1, <1>3, <2>2, <2>4, <2>6 DEF Counted, Copies
    <3>3. Excess(c)'
      BY <2>1, <2>3, <2>4, <3>1, <3>2 DEF Excess
    <3>. QED
      BY <1>0, <1>4, <2>1, <2>4, <3>1, <3>3, QuietStep
  <2>. QED
    BY <1>2, <2>5, <2>6
<1>. QED
  BY <1>4, <1>5 DEF DgIInv

\* The four services answer so, or log.
LEMMA ServerStep ==
  ASSUME DgIInv, DgEcho \/ InetdDgEcho \/ InetdDgDis \/ Log
  PROVE  Answering
<1>1. DgShape
  BY DEF DgIInv
<1>2. CASE DgEcho \/ InetdDgEcho \/ InetdDgDis
  BY <1>1, <1>2 DEF DgEcho, InetdDgEcho, InetdDgDis, Answer, Answering, DgShape, dgClientVars,
     dgFaults
<1>3. CASE Log
  BY <1>1, <1>3 DEF Log, Answering, DgShape, Sizes, dgClientVars, dgFaults
<1>. QED
  BY <1>2, <1>3

\* A peek takes nothing.
LEMMA PeekStep ==
  ASSUME DgIInv, Peek
  PROVE  DgIInv'
<1>0. /\ UNCHANGED <<protocol, dg_at, dg_sent, shown, pcli_addr, mesg, first_client, queue,
                     answers, dups, dead>>
      /\ server_at = "peek" /\ server_at' = "recvfrom" /\ size' \in Sizes /\ DgShape
  BY DEF DgIInv, DgShape, Peek, Sizes, dgClientVars, dgFaults
<1>1. DgShape'
  BY <1>0 DEF DgShape
<1>2. ASSUME NEW c \in Senders PROVE (Numbered(c) /\ Lockstep(c) /\ Excess(c))'
  <2>1. Numbered(c) /\ Lockstep(c) /\ Excess(c)
    BY DEF DgIInv
  <2>2. Known(c)' = Known(c) /\ Copies(c)' = Copies(c)
    BY <1>0 DEF Known, Copies, Serving
  <2>. QED
    BY <1>0, <2>1, <2>2 DEF Numbered, Lockstep, Excess
<1>. QED
  BY <1>1, <1>2 DEF DgIInv

-----------------------------------------------------------------------------
(* The network *)

\* One of the datagrams that c may be shown is lost, or none.
Loses(c) ==
  /\ Known(c)' \subseteq Known(c)
  /\ \/ Known(c) \subseteq Known(c)' /\ Copies(c)' = Copies(c)
     \/ \E x : Known(c) \ {x} \subseteq Known(c)' /\ Copies(c)' = Copies(c) - 1

\* The network loses a datagram.
LEMMA LoseStep ==
  ASSUME DgIInv, Lose
  PROVE  DgIInv'
<1>0. /\ UNCHANGED <<protocol, dg_at, dg_sent, shown, server_at, pcli_addr, mesg, first_client,
                     size, dups, dead>>
      /\ Quietly /\ DgShape /\ Serving' = Serving
  BY DEF DgIInv, Lose, Quietly, dgClientVars, dgServerVars, Serving
<1>1. SUFFICES DgShape' /\ \A c \in Senders : Loses(c)
  <2>. SUFFICES ASSUME DgShape', NEW c \in Senders, Loses(c)
                PROVE  (Numbered(c) /\ Lockstep(c) /\ Excess(c))'
    BY <1>1 DEF DgIInv
  <2>1. Numbered(c) /\ Lockstep(c) /\ Excess(c)
    BY DEF DgIInv
  <2>2. Excess(c)'
    <3>1. CASE Known(c) \subseteq Known(c)' /\ Copies(c)' = Copies(c)
      <4>1. Copies(c) \in Nat /\ dups \in Nat
        BY <1>0, KnownFinite
      <4>2. Copies(c)' + dups =< Copies(c) + dups'
        BY <1>0, <3>1, <4>1
      <4>. QED
        BY <1>0, <2>1, <3>1, <4>2, ExcessSame
    <3>2. ASSUME NEW x, Known(c) \ {x} \subseteq Known(c)', Copies(c)' = Copies(c) - 1
          PROVE  Excess(c)'
      BY <1>0, <2>1, <3>2, ExcessLoses
    <3>. QED
      BY <3>1, <3>2 DEF Loses
  <2>. QED
    BY <1>0, <2>1, <2>2, QuietStep DEF Loses
<1>2. ASSUME NEW m \in DOMAIN queue, queue' = RemoveAt(queue, m), answers' = answers
      PROVE  DgShape' /\ \A c \in Senders : Loses(c)
  <2>1. queue' \in Seq(Datagrams(Senders)) /\ Removed(queue, m)
    BY <1>0, <1>2, ToSetRemoved DEF DgShape
  <2>2. DgShape'
    BY <1>0, <1>2, <2>1 DEF DgShape
  <2>3. ASSUME NEW c \in Senders PROVE Loses(c)
    <3>1. PICK i \in Nat, j \in Nat, k \in Nat, n \in {0, 1} : Counted(c, i, j, k, n)
      BY <1>0, Counts
    <3>2. Copies(c) = i + j + k + n
      BY <3>1, CountedCopies
    <3>3. Copies(c)' = i + (j - 1) + k + n
      BY <1>0, <1>2, <2>1, <3>1 DEF Counted, Copies, Removed
    <3>4. Copies(c)' = Copies(c) - 1
      BY <3>2, <3>3
    <3>5. Known(c)' \subseteq Known(c) /\ Known(c) \ {queue[m]} \subseteq Known(c)'
      BY <1>0, <1>2, <2>1 DEF Known, Removed
    <3>. QED
      BY <3>4, <3>5 DEF Loses
  <2>. QED
    BY <2>2, <2>3
<1>3. ASSUME NEW d \in Senders, NEW m \in DOMAIN answers[d], queue' = queue,
             answers' = [answers EXCEPT ![d] = RemoveAt(@, m)]
      PROVE  DgShape' /\ \A c \in Senders : Loses(c)
  <2>1. /\ DOMAIN answers' = Senders
        /\ \A c \in Senders : answers'[c] = IF c = d THEN RemoveAt(answers[d], m) ELSE answers[c]
    BY <1>0, <1>3 DEF DgShape
  <2>2. answers'[d] \in Seq(Datagrams({d})) /\ Removed(answers[d], m)
    <3>1. answers[d] \in Seq(Datagrams({d}))
      BY <1>0 DEF DgShape
    <3>. QED
      BY <1>3, <2>1, <3>1, ToSetRemoved
  <2>3. DgShape'
    <3>1. \A c \in Senders : answers'[c] \in Seq(Datagrams({c}))
      BY <1>0, <2>1, <2>2 DEF DgShape
    <3>. QED
      BY <1>0, <1>3, <2>1, <3>1 DEF DgShape
  <2>4. ASSUME NEW c \in Senders, c # d PROVE Loses(c)
    <3>1. Known(c)' = Known(c) /\ Copies(c)' = Copies(c)
      BY <1>0, <1>3, <2>1, <2>4 DEF Known, Copies
    <3>. QED
      BY <3>1 DEF Loses
  <2>5. Loses(d)
    <3>1. PICK i \in Nat, j \in Nat, k \in Nat, n \in {0, 1} : Counted(d, i, j, k, n)
      BY <1>0, Counts
    <3>2. Copies(d) = i + j + k + n
      BY <3>1, CountedCopies
    <3>3. Copies(d)' = i + j + (k - 1) + n
      BY <1>0, <1>3, <2>1, <2>2, <3>1 DEF Counted, Copies, Removed
    <3>4. Copies(d)' = Copies(d) - 1
      BY <3>2, <3>3
    <3>5. Known(d)' \subseteq Known(d) /\ Known(d) \ {answers[d][m]} \subseteq Known(d)'
      BY <1>0, <1>3, <2>1, <2>2 DEF Known, Removed
    <3>. QED
      BY <3>4, <3>5 DEF Loses
  <2>. QED
    BY <2>3, <2>4, <2>5
<1>. QED
  BY <1>2, <1>3 DEF Lose

\* What is at a socket is there once more.
Gains(c) == /\ Known(c)' = Known(c)
            /\ Copies(c)' = Copies(c) + 1 \/ Copies(c)' = Copies(c)

\* The network duplicates a datagram.
LEMMA DuplicateStep ==
  ASSUME DgIInv, Duplicate
  PROVE  DgIInv'
<1>0. /\ UNCHANGED <<protocol, dg_at, dg_sent, shown, server_at, pcli_addr, mesg, first_client,
                     size, dead>>
      /\ Quietly /\ DgShape /\ Serving' = Serving /\ dups' = dups + 1 /\ dups \in Nat
  BY DEF DgIInv, DgShape, Duplicate, Quietly, dgClientVars, dgServerVars, Serving
<1>1. SUFFICES DgShape' /\ \A c \in Senders : Gains(c)
  <2>. SUFFICES ASSUME DgShape', NEW c \in Senders, Gains(c)
                PROVE  (Numbered(c) /\ Lockstep(c) /\ Excess(c))'
    BY <1>1 DEF DgIInv
  <2>1. Numbered(c) /\ Lockstep(c) /\ Excess(c)
    BY DEF DgIInv
  <2>2. Copies(c) \in Nat
    BY <1>0, KnownFinite
  <2>3. Copies(c)' + dups =< Copies(c) + dups'
    BY <1>0, <2>2 DEF Gains
  <2>4. Excess(c)'
    BY <1>0, <2>1, <2>3, ExcessSame DEF Gains
  <2>. QED
    BY <1>0, <2>1, <2>4, QuietStep DEF Gains
<1>2. ASSUME NEW S, NEW s \in Seq(S), NEW m \in DOMAIN s
      PROVE  /\ Append(s, s[m]) \in Seq(S) /\ Len(Append(s, s[m])) = Len(s) + 1
             /\ ToSet(Append(s, s[m])) = ToSet(s)
  <2>1. s[m] \in S /\ s[m] \in ToSet(s)
    BY LenProperties DEF ToSet
  <2>2. ToSet(Append(s, s[m])) = ToSet(s) \cup {s[m]}
    BY <2>1, ToSetAppend
  <2>. QED
    BY <2>1, <2>2, AppendProperties
<1>3. ASSUME NEW m \in DOMAIN queue, queue' = Append(queue, queue[m]), answers' = answers
      PROVE  DgShape' /\ \A c \in Senders : Gains(c)
  <2>1. /\ queue' \in Seq(Datagrams(Senders)) /\ Len(queue') = Len(queue) + 1
        /\ ToSet(queue') = ToSet(queue)
    <3>1. queue \in Seq(Datagrams(Senders))
      BY <1>0 DEF DgShape
    <3>. QED
      BY <1>2, <1>3, <3>1
  <2>2. DgShape'
    BY <1>0, <1>3, <2>1 DEF DgShape
  <2>3. ASSUME NEW c \in Senders PROVE Gains(c)
    <3>1. PICK i \in Nat, j \in Nat, k \in Nat, n \in {0, 1} : Counted(c, i, j, k, n)
      BY <1>0, Counts
    <3>2. Copies(c) = i + j + k + n
      BY <3>1, CountedCopies
    <3>3. Copies(c)' = i + (j + 1) + k + n
      BY <1>0, <1>3, <2>1, <3>1 DEF Counted, Copies
    <3>4. Copies(c)' = Copies(c) + 1
      BY <3>2, <3>3
    <3>5. Known(c)' = Known(c)
      BY <1>0, <1>3, <2>1 DEF Known
    <3>. QED
      BY <3>4, <3>5 DEF Gains
  <2>. QED
    BY <2>2, <2>3
<1>4. ASSUME NEW d \in Senders, NEW m \in DOMAIN answers[d], queue' = queue,
             answers' = [answers EXCEPT ![d] = Append(@, @[m])]
      PROVE  DgShape' /\ \A c \in Senders : Gains(c)
  <2>1. /\ DOMAIN answers' = Senders
        /\ \A c \in Senders : answers'[c] =
             IF c = d THEN Append(answers[d], answers[d][m]) ELSE answers[c]
    BY <1>0, <1>4 DEF DgShape
  <2>2. /\ answers'[d] \in Seq(Datagrams({d})) /\ Len(answers'[d]) = Len(answers[d]) + 1
        /\ ToSet(answers'[d]) = ToSet(answers[d])
    <3>1. answers[d] \in Seq(Datagrams({d}))
      BY <1>0 DEF DgShape
    <3>. QED
      BY <1>2, <1>4, <2>1, <3>1
  <2>3. DgShape'
    <3>1. \A c \in Senders : answers'[c] \in Seq(Datagrams({c}))
      BY <1>0, <2>1, <2>2 DEF DgShape
    <3>. QED
      BY <1>0, <1>4, <2>1, <3>1 DEF DgShape
  <2>4. ASSUME NEW c \in Senders, c # d PROVE Gains(c)
    <3>1. Known(c)' = Known(c) /\ Copies(c)' = Copies(c)
      BY <1>0, <1>4, <2>1, <2>4 DEF Known, Copies
    <3>. QED
      BY <3>1 DEF Gains
  <2>5. Gains(d)
    <3>1. PICK i \in Nat, j \in Nat, k \in Nat, n \in {0, 1} : Counted(d, i, j, k, n)
      BY <1>0, Counts
    <3>2. Copies(d) = i + j + k + n
      BY <3>1, CountedCopies
    <3>3. Copies(d)' = i + j + (k + 1) + n
      BY <1>0, <1>4, <2>2, <3>1 DEF Counted, Copies
    <3>4. Copies(d)' = Copies(d) + 1
      BY <3>2, <3>3
    <3>5. Known(d)' = Known(d)
      BY <1>0, <1>4, <2>2 DEF Known
    <3>. QED
      BY <3>4, <3>5 DEF Gains
  <2>. QED
    BY <2>3, <2>4, <2>5
<1>. QED
  BY <1>3, <1>4 DEF Duplicate

-----------------------------------------------------------------------------
(* The connectionless programs: all steps, and what the invariant gives *)

\* At the start nothing is known and there is no copy.
LEMMA DgInitIInv == DgInit => DgIInv
<1>. SUFFICES ASSUME DgInit PROVE DgIInv
  OBVIOUS
<1>1. \A S : <<>> \in Seq(S) /\ Len(<<>>) = 0
  BY EmptySeq
<1>2. DgShape
  BY <1>1, DatagramAssumption DEF DgInit, DgShape, Sizes
<1>3. ASSUME NEW c \in Senders PROVE Numbered(c) /\ Lockstep(c) /\ Excess(c)
  <2>1. /\ shown[c] = <<>> /\ answers[c] = <<>> /\ queue = <<>> /\ server_at # "sendto"
        /\ dg_at[c] = "sendto" /\ dg_sent[c] = 0 /\ dups = 0
    BY DEF DgInit
  <2>2. ToSet(<<>>) = {}
    BY DEF ToSet
  <2>3. Known(c) = {}
    BY <2>1, <2>2 DEF Known, Serving
  <2>4. Copies(c) = 0
    BY <1>1, <2>1 DEF Copies
  <2>5. Lockstep(c)
    BY <1>1, <2>1 DEF Lockstep
  <2>. QED
    BY <2>1, <2>3, <2>4, <2>5, FS_EmptySet DEF Numbered, Excess
<1>. QED
  BY <1>2, <1>3 DEF DgIInv

\* Every step of a client, the server, a kill or the network keeps the invariant.
LEMMA DgNextIInv == DgIInv /\ [DgNext]_dgVars => DgIInv'
<1>. SUFFICES ASSUME DgIInv, [DgNext]_dgVars PROVE DgIInv'
  OBVIOUS
<1>1. ASSUME NEW c \in Senders, DgClientStep(c) \/ DgKill(c) PROVE DgIInv'
  BY <1>1, SendtoStep, ShownStep, ClientStops DEF DgClientStep
<1>2. CASE DgServerStep
  BY <1>2, TakenStep, ServerStep, AnsweringStep, PeekStep DEF DgServerStep
<1>3. CASE UNCHANGED dgVars
  BY <1>3 DEF dgVars, dgClientVars, dgServerVars, dgFaults, DgIInv, DgShape, Numbered, Lockstep,
     Excess, Known, Copies, Serving
<1>. QED
  BY <1>1, <1>2, <1>3, LoseStep, DuplicateStep DEF DgNext

\* A union has no more elements than its parts.
LEMMA UnionBound ==
  ASSUME NEW S, IsFiniteSet(S), NEW T, IsFiniteSet(T), NEW m \in Nat, NEW n \in Nat,
         Cardinality(S) =< m, Cardinality(T) =< n
  PROVE  IsFiniteSet(S \cup T) /\ Cardinality(S \cup T) =< m + n
<1>1. /\ IsFiniteSet(S \cup T)
      /\ Cardinality(S \cup T) = Cardinality(S) + Cardinality(T) - Cardinality(S \cap T)
  BY FS_Union
<1>2. IsFiniteSet(S \cap T)
  BY FS_Subset
<1>3. Cardinality(S) \in Nat /\ Cardinality(T) \in Nat /\ Cardinality(S \cap T) \in Nat
  BY <1>2, FS_CardinalityType
<1>. QED
  BY <1>1, <1>3

\* The elements of a part of a sequence are no more than its places.
LEMMA Pictures ==
  ASSUME NEW s, NEW m \in Nat, NEW n \in Nat, m =< n
  PROVE  LET T == {s[j] : j \in m + 1 .. n} IN IsFiniteSet(T) /\ Cardinality(T) =< n - m
<1>. DEFINE T == {s[j] : j \in m + 1 .. n}
            f == [j \in m + 1 .. n |-> s[j]]
<1>1. IsFiniteSet(m + 1 .. n) /\ Cardinality(m + 1 .. n) = n - m
  <2>1. m + 1 \in Int /\ n \in Int
    OBVIOUS
  <2>2. /\ IsFiniteSet(m + 1 .. n)
        /\ Cardinality(m + 1 .. n) = IF m + 1 > n THEN 0 ELSE n - (m + 1) + 1
    BY <2>1, FS_Interval
  <2>. QED
    BY <2>2
<1>2. f \in Surjection(m + 1 .. n, T)
  BY DEF Surjection
<1>. HIDE DEF f
<1>3. IsFiniteSet(T) /\ Cardinality(T) =< Cardinality(m + 1 .. n)
  BY <1>1, <1>2, FS_Surjection
<1>. QED
  BY <1>1, <1>3

\* What is shown among the first k, and what may be shown later, is all that is known.
LEMMA LagFromExcess ==
  ASSUME DgShape, NEW c \in Senders, Lockstep(c), Excess(c), NEW k \in DOMAIN shown[c]
  PROVE  LET answered == {shown[c][j] : j \in 1 .. k} IN
         /\ answered \subseteq {c} \X (1 .. k)
         /\ Cardinality(answered) >= k - dups
<1>. DEFINE s == shown[c]
            answered == {s[j] : j \in 1 .. k}
<1>0. /\ s \in Seq(Datagrams({c})) /\ answers[c] \in Seq(Datagrams({c}))
      /\ queue \in Seq(Datagrams(Senders)) /\ dups \in Nat
  BY DEF DgShape
<1>1. PICK p \in Nat, q \in Nat, r \in Nat, n \in {0, 1} : Counted(c, p, q, r, n)
  BY Counts
<1>2. DOMAIN s = 1 .. p /\ k \in 1 .. p /\ k \in Nat /\ k =< p
  BY <1>0, <1>1, LenProperties DEF Counted
<1>3. answered \subseteq {c} \X (1 .. k)
  <2>1. ASSUME NEW j \in 1 .. k PROVE s[j] \in {c} \X (1 .. k)
    <3>1. j \in 1 .. p
      BY <1>2
    <3>2. s[j] \in Datagrams({c}) /\ s[j][2] =< j
      BY <1>0, <1>2, <3>1, LenProperties DEF Lockstep
    <3>3. s[j] = <<s[j][1], s[j][2]>> /\ s[j][1] = c /\ s[j][2] \in 1 .. Lines
      BY <3>2 DEF Datagrams
    <3>4. s[j][2] \in 1 .. k
      BY <1>2, <3>2, <3>3, DatagramAssumption
    <3>. QED
      BY <3>3, <3>4
  <2>. QED
    BY <2>1
<1>4. Cardinality(answered) >= k - dups
  <2>. DEFINE rest == {s[j] : j \in k + 1 .. p}
  <2>1. IsFiniteSet(answered) /\ Cardinality(answered) \in Nat
    <3>1. IsFiniteSet(ToSet(s))
      BY <1>0, ToSetFinite
    <3>2. answered \subseteq ToSet(s)
      <4>1. \A j \in 1 .. k : j \in 1 .. p
        BY <1>2
      <4>. QED
        BY <1>2, <4>1 DEF ToSet
    <3>. HIDE DEF answered
    <3>. QED
      BY <3>1, <3>2, FS_Subset, FS_CardinalityType
  <2>2. IsFiniteSet(rest) /\ Cardinality(rest) =< p - k /\ p - k \in Nat
    <3>1. p - k \in Nat
      BY <1>2
    <3>. HIDE DEF s
    <3>. QED
      BY <1>2, <3>1, Pictures
  <2>3. Known(c) = ((answered \cup rest) \cup ToSet(queue)) \cup (ToSet(answers[c]) \cup Serving)
    <3>1. ToSet(s) = answered \cup rest
      BY <1>2 DEF ToSet
    <3>. HIDE DEF answered, rest
    <3>. QED
      BY <3>1 DEF Known
  <2>4. IsFiniteSet(ToSet(queue)) /\ Cardinality(ToSet(queue)) =< q
    BY <1>0, <1>1, ToSetFinite DEF Counted
  <2>5. IsFiniteSet(ToSet(answers[c])) /\ Cardinality(ToSet(answers[c])) =< r
    BY <1>0, <1>1, ToSetFinite DEF Counted
  <2>6. IsFiniteSet(Serving) /\ Cardinality(Serving) =< n
    <3>1. CASE server_at = "sendto"
      <4>1. n = 1 /\ Serving = {<<pcli_addr, mesg>>}
        BY <1>1, <3>1 DEF Serving, Counted
      <4>2. PICK x : x = <<pcli_addr, mesg>>
        OBVIOUS
      <4>3. IsFiniteSet({x}) /\ Cardinality({x}) = 1
        BY FS_Singleton
      <4>. QED
        BY <4>1, <4>2, <4>3
    <3>2. CASE server_at # "sendto"
      <4>1. n = 0 /\ Serving = {}
        BY <1>1, <3>2 DEF Serving, Counted
      <4>. QED
        BY <4>1, FS_EmptySet
    <3>. QED
      BY <3>1, <3>2
  <2>. HIDE DEF answered, rest
  <2>7. PICK a \in Nat : a = Cardinality(answered)
    BY <2>1
  <2>8. /\ IsFiniteSet(answered \cup rest)
        /\ Cardinality(answered \cup rest) =< a + (p - k)
    <3>1. Cardinality(answered) =< a
      BY <2>7
    <3>. QED
      BY <2>1, <2>2, <3>1, UnionBound
  <2>9. /\ IsFiniteSet((answered \cup rest) \cup ToSet(queue))
        /\ Cardinality((answered \cup rest) \cup ToSet(queue)) =< (a + (p - k)) + q
    <3>1. a + (p - k) \in Nat
      BY <2>2
    <3>. QED
      BY <2>4, <2>8, <3>1, UnionBound
  <2>10. /\ IsFiniteSet(ToSet(answers[c]) \cup Serving)
         /\ Cardinality(ToSet(answers[c]) \cup Serving) =< r + n
    BY <2>5, <2>6, UnionBound
  <2>11. Cardinality(Known(c)) =< ((a + (p - k)) + q) + (r + n)
    <3>1. (a + (p - k)) + q \in Nat /\ r + n \in Nat
      BY <2>2
    <3>. QED
      BY <2>3, <2>9, <2>10, <3>1, UnionBound
  <2>12. p + q + r + n =< Cardinality(Known(c)) + dups
    <3>1. Copies(c) = p + q + r + n
      BY <1>1, CountedCopies
    <3>. QED
      BY <3>1 DEF Excess
  <2>13. Cardinality(Known(c)) \in Nat
    BY KnownFinite
  <2>14. k =< a + dups
    <3>1. PICK m \in Nat : m = Cardinality(Known(c))
      BY <2>13
    <3>2. m =< ((a + (p - k)) + q) + (r + n) /\ p + q + r + n =< m + dups
      BY <2>11, <2>12, <3>1
    <3>3. PICK z \in Nat, h \in Nat : z = dups /\ h = n
      BY <1>0
    <3>4. m =< ((a + (p - k)) + q) + (r + h) /\ p + q + r + h =< m + z /\ k \in Nat
      BY <1>2, <3>2, <3>3
    <3>5. k =< a + z
      BY <3>1, <3>4
    <3>. QED
      BY <3>3, <3>5
  <2>. QED
    BY <1>0, <1>2, <2>7, <2>14
<1>. QED
  BY <1>3, <1>4

\* The invariant gives the two invariants.
LEMMA DgIInvGives == DgIInv => DgTypeOK /\ LagBounded
BY LagFromExcess DEF DgIInv, DgShape, DgTypeOK, LagBounded

-----------------------------------------------------------------------------
(* The theorems of the composition *)

SocketsIInv == StreamIInv /\ DgIInv

\* No two parts share a variable, so that both invariants hold in the composition.
LEMMA SocketsInductive == SocketsSpec => []SocketsIInv
<1>1. SocketsInit => SocketsIInv
  BY StreamInitIInv, DgInitIInv DEF SocketsInit, SocketsIInv
<1>2. SocketsIInv /\ [SocketsNext]_allVars => SocketsIInv'
  <2>. SUFFICES ASSUME SocketsIInv, [SocketsNext]_allVars PROVE SocketsIInv'
    OBVIOUS
  <2>1. [StreamNext]_streamVars /\ [DgNext]_dgVars
    BY DEF SocketsNext, Moves, allVars
  <2>. QED
    BY <2>1, StreamNextIInv, DgNextIInv DEF SocketsIInv
<1>. QED
  BY <1>1, <1>2, PTL DEF SocketsSpec

\* readline, writen and fgets keep within their buffers, and the servers keep descriptors
\* and addresses of their clients only: the types of the connection oriented and the
\* connectionless programs.
THEOREM SocketsTypesCorrect == SocketsSpec => []SocketsTypeOK
<1>1. SocketsIInv => SocketsTypeOK
  BY StreamIInvGives, DgIInvGives DEF SocketsIInv, SocketsTypeOK
<1>. QED
  BY <1>1, SocketsInductive, PTL

\* str_cli, readline, writen and str_echo, of any number of clients at once and however read
\* and write split the lines: whoever is killed, refused or reset, a client whose lines fit
\* its buffer prints the start of what was typed.
THEOREM EchoesInOrder == SocketsSpec => []EchoInOrder
<1>1. SocketsIInv => EchoInOrder
  BY StreamIInvGives DEF SocketsIInv
<1>. QED
  BY <1>1, SocketsInductive, PTL

\* dg_cli waits for one answer to each line it sends: with datagrams lost and duplicated, of
\* its first k answers all are to its own first k lines, and no more are repeated than there
\* were duplicates.
THEOREM LagIsBounded == SocketsSpec => []LagBounded
<1>1. SocketsIInv => LagBounded
  BY DgIInvGives DEF SocketsIInv
<1>. QED
  BY <1>1, SocketsInductive, PTL
=============================================================================
