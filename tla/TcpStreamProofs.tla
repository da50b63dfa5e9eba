--------------------------- MODULE TcpStreamProofs ----------------------------
(***************************************************************************)
(* For streams, buffers and windows of every size: the bytes are counted   *)
(* once, the offsets stay inside the buffer, and TcpStream implements      *)
(* Relay.  Behind them is one invariant, of each copy by itself: which     *)
(* bytes of its sender the chunk in its buffer holds.                      *)
(***************************************************************************)
EXTENDS TcpStream, SequenceTheorems, TLAPS

USE DEF peerVars, chunkVars

\* The bytes 1 to n of a sender, in order.
Prefix(n) == [i \in 1 .. n |-> i]

\* What a receiver has got is what the copy has read, but for the rest of the
\* chunk: delivered[d] and the buffer up to filled[d] overlap in written[d]
\* bytes.
ChunkAt(d) ==
    /\ delivered[d] = Prefix(Len(delivered[d]))
    /\ fetched[d] <= sent[d]
    /\ pc[d] = "read" => written[d] = 0 /\ fetched[d] = Len(delivered[d])
    /\ pc[d] = "write" =>
          /\ written[d] < filled[d]
          /\ fetched[d] - filled[d] = Len(delivered[d]) - written[d]
          /\ \A i \in 1 .. filled[d] :
                buffer[d][i] = fetched[d] - filled[d] + i

Chunks == \A d \in Directions : ChunkAt(d)

-----------------------------------------------------------------------------
(* Sequences *)

\* What the receiver has once write_all has written k bytes of a buffer b
\* from its place m on.
Written(s, b, m, k) == s \o SubSeq(b, m + 1, m + k)

LEMMA Part ==
    ASSUME NEW b \in [1 .. BufSize -> Nat],
           NEW m \in Nat, NEW k \in Nat \ {0}, m + k <= BufSize
    PROVE  /\ SubSeq(b, m + 1, m + k) \in Seq(Nat)
           /\ Len(SubSeq(b, m + 1, m + k)) = k
           /\ \A i \in 1 .. k : SubSeq(b, m + 1, m + k)[i] = b[m + i]
<1> DEFINE u == SubSeq(b, m + 1, m + k)
<1>1. \A i \in m + 1 .. m + k : b[i] \in Nat
  <2> TAKE i \in m + 1 .. m + k
  <2>1. i \in 1 .. BufSize
    BY SizesAssumption
  <2> QED
    BY <2>1
<1>2. m + 1 \in Int /\ m + k \in Int /\ m + 1 <= m + k
  OBVIOUS
<1>3. /\ u \in Seq(Nat)
      /\ Len(u) = (IF m + 1 <= m + k THEN (m + k) - (m + 1) + 1 ELSE 0)
      /\ \A i \in 1 .. (m + k) - (m + 1) + 1 : u[i] = b[(m + 1) + i - 1]
  BY <1>1, <1>2, SubSeqProperties
<1> QED
  BY <1>2, <1>3

LEMMA WrittenType ==
    ASSUME NEW s \in Seq(Nat), NEW b \in [1 .. BufSize -> Nat],
           NEW m \in Nat, NEW k \in Nat \ {0}, m + k <= BufSize
    PROVE  Written(s, b, m, k) \in Seq(Nat)
<1>1. SubSeq(b, m + 1, m + k) \in Seq(Nat)
  BY Part, SizesAssumption
<1> QED
  BY <1>1, ConcatProperties DEF Written

\* A sequence that holds the number of each of its places is a prefix.
LEMMA IsPrefix ==
    ASSUME NEW s \in Seq(Nat), NEW n \in Nat, Len(s) = n,
           \A i \in 1 .. n : s[i] = i
    PROVE  s = Prefix(n)
BY LenProperties DEF Prefix

\* What a write adds to a prefix are the next bytes, if those are the ones
\* that the buffer holds.
LEMMA Extended ==
    ASSUME NEW n \in Nat, NEW b \in [1 .. BufSize -> Nat],
           NEW m \in Nat, NEW k \in Nat \ {0}, m + k <= BufSize,
           \A i \in m + 1 .. m + k : b[i] = n - m + i
    PROVE  Written(Prefix(n), b, m, k) = Prefix(n + k)
<1> DEFINE s == Prefix(n)
           t == Written(s, b, m, k)
           u == SubSeq(b, m + 1, m + k)
<1>1. s \in Seq(Nat) /\ Len(s) = n /\ \A i \in 1 .. n : s[i] = i
  BY DEF Prefix
<1>2. u \in Seq(Nat) /\ Len(u) = k /\ \A i \in 1 .. k : u[i] = b[m + i]
  BY Part, SizesAssumption
<1>t. t = s \o u
  BY DEF Written
<1> HIDE DEF s, u, t
<1>c. /\ t \in Seq(Nat) /\ Len(t) = n + k
      /\ \A i \in 1 .. n + k : t[i] = IF i <= n THEN s[i] ELSE u[i - n]
  <2>1. /\ s \o u \in Seq(Nat) /\ Len(s \o u) = Len(s) + Len(u)
        /\ \A i \in 1 .. Len(s) + Len(u) :
              (s \o u)[i] = IF i <= Len(s) THEN s[i] ELSE u[i - Len(s)]
    <3>1. s \in Seq(Nat) /\ u \in Seq(Nat)
      BY <1>1, <1>2
    <3> QED
      BY <3>1, ConcatProperties
  <2> QED
    BY <1>1, <1>2, <1>t, <2>1
<1>3. ASSUME NEW i \in n + 1 .. n + k
      PROVE  t[i] = i
  <2>1. i - n \in 1 .. k /\ m + (i - n) \in m + 1 .. m + k
        /\ n - m + (m + (i - n)) = i /\ ~(i <= n) /\ i \in 1 .. n + k
    OBVIOUS
  <2>2. t[i] = u[i - n] /\ u[i - n] = b[m + (i - n)]
    BY <1>2, <1>c, <2>1
  <2> QED
    BY <2>1, <2>2
<1>4. \A i \in 1 .. n + k : i \in 1 .. n \/ i \in n + 1 .. n + k
  OBVIOUS
<1>5. \A i \in 1 .. n + k : t[i] = i
  BY <1>1, <1>c, <1>3, <1>4
<1> QED
  BY <1>c, <1>5, IsPrefix DEF s, t

-----------------------------------------------------------------------------
(* Types *)

LEMMA TypesInit == Init => TypeOK
BY SizesAssumption DEF Init, TypeOK

LEMMA TypesNext == TypeOK /\ Chunks /\ [Next]_vars => TypeOK'
<1> SUFFICES ASSUME TypeOK, Chunks, [Next]_vars
             PROVE  TypeOK'
  OBVIOUS
<1> USE SizesAssumption DEF TypeOK
<1>1. ASSUME NEW d \in Directions, Send(d)
      PROVE  TypeOK'
  <2>1. sent[d] + 1 \in 0 .. MaxBytes
    BY <1>1 DEF Send
  <2>2. sent' \in [Directions -> 0 .. MaxBytes]
    BY <1>1, <2>1 DEF Send
  <2> QED
    BY <1>1, <2>2 DEF Send
<1>2. ASSUME NEW d \in Directions, Take(d)
      PROVE  TypeOK'
  <2>1. taken' \in [Directions -> Nat]
    BY <1>2 DEF Take
  <2> QED
    BY <1>2, <2>1 DEF Take
<1>7. ASSUME NEW d \in Directions, Close(d) \/ EndOfFile(d) \/ Fail(d)
      PROVE  TypeOK'
  <2>1. CASE Close(d)
    BY <2>1 DEF Close
  <2>2. CASE EndOfFile(d)
    BY <2>2 DEF EndOfFile
  <2>3. CASE Fail(d)
    BY <2>3 DEF Fail
  <2> QED
    BY <1>7, <2>1, <2>2, <2>3
<1>3. ASSUME NEW p \in Peers, Break(p)
      PROVE  TypeOK'
  BY <1>3 DEF Break
<1>4. ASSUME NEW d \in Directions, Fill(d)
      PROVE  TypeOK'
  <2>1. PICK n \in 1 .. BufSize :
          /\ n <= sent[d] - fetched[d]
          /\ filled' = [filled EXCEPT ![d] = n]
          /\ fetched' = [fetched EXCEPT ![d] = @ + n]
          /\ buffer' = [buffer EXCEPT ![d] = [i \in 1 .. BufSize |->
                           IF i <= n THEN fetched[d] + i ELSE @[i]]]
    BY <1>4 DEF Fill
  <2>2. fetched[d] + n \in 0 .. MaxBytes
    BY <2>1
  <2>3. [i \in 1 .. BufSize |-> IF i <= n THEN fetched[d] + i ELSE buffer[d][i]]
           \in [1 .. BufSize -> 0 .. MaxBytes]
    <3>1. ASSUME NEW i \in 1 .. BufSize, i <= n
          PROVE  fetched[d] + i \in 0 .. MaxBytes
      <4>1. fetched[d] \in 0 .. MaxBytes /\ n \in 1 .. BufSize
        OBVIOUS
      <4> QED
        BY <2>2, <3>1, <4>1
    <3> QED
      BY <3>1
  <2> DEFINE chunk == [i \in 1 .. BufSize |->
                          IF i <= n THEN fetched[d] + i ELSE buffer[d][i]]
  <2>4. buffer' \in [Directions -> [1 .. BufSize -> 0 .. MaxBytes]]
    <3>1. buffer' = [buffer EXCEPT ![d] = chunk]
      BY <2>1
    <3>2. chunk \in [1 .. BufSize -> 0 .. MaxBytes]
      BY <2>3
    <3> HIDE DEF chunk
    <3> QED
      BY <3>1, <3>2
  <2>5. /\ filled' \in [Directions -> 0 .. BufSize]
        /\ fetched' \in [Directions -> 0 .. MaxBytes]
    <3>1. filled' \in [Directions -> 0 .. BufSize]
      BY <2>1
    <3>2. fetched' = [fetched EXCEPT ![d] = fetched[d] + n]
      BY <2>1
    <3> QED
      BY <2>2, <3>1, <3>2
  <2> QED
    BY <1>4, <2>4, <2>5 DEF Fill
<1>5. ASSUME NEW d \in Directions, WriteSome(d)
      PROVE  TypeOK'
  <2>1. PICK k \in 1 .. Room(d) :
          /\ k <= filled[d] - written[d]
          /\ delivered' = [delivered EXCEPT ![d] =
                              @ \o SubSeq(buffer[d], written[d] + 1, written[d] + k)]
          /\ IF written[d] + k = filled[d]
             THEN /\ written' = [written EXCEPT ![d] = 0]
                  /\ bytes_transferred' = bytes_transferred + filled[d]
                  /\ pc' = [pc EXCEPT ![d] = "read"]
             ELSE /\ written' = [written EXCEPT ![d] = @ + k]
                  /\ UNCHANGED <<pc, bytes_transferred>>
    BY <1>5 DEF WriteSome
  <2>2. k \in Nat \ {0} /\ written[d] + k \in 0 .. BufSize
    <3>1. Room(d) \in Int
      BY SizesAssumption, LenProperties DEF Room
    <3>2. filled[d] \in 0 .. BufSize /\ written[d] \in 0 .. BufSize
      OBVIOUS
    <3>3. k \in 1 .. Room(d) /\ k <= filled[d] - written[d]
      BY <2>1
    <3> QED
      BY <3>1, <3>2, <3>3
  <2>3. buffer[d] \in [1 .. BufSize -> Nat] /\ written[d] \in Nat
        /\ written[d] + k <= BufSize
    BY <2>2
  <2>4. delivered[d] \o SubSeq(buffer[d], written[d] + 1, written[d] + k) \in Seq(Nat)
    BY <2>2, <2>3, WrittenType DEF Written
  <2>5. delivered' \in [Directions -> Seq(Nat)]
    BY <2>1, <2>4
  <2>6. /\ written' \in [Directions -> 0 .. BufSize] /\ bytes_transferred' \in Nat
        /\ pc' \in [Directions -> {"read", "write"}]
    <3>1. CASE written[d] + k = filled[d]
      <4>1. /\ written' = [written EXCEPT ![d] = 0]
            /\ bytes_transferred' = bytes_transferred + filled[d]
            /\ pc' = [pc EXCEPT ![d] = "read"]
        BY <2>1, <3>1
      <4>2. filled[d] \in Nat
        OBVIOUS
      <4> QED
        BY <4>1, <4>2
    <3>2. CASE written[d] + k # filled[d]
      BY <2>1, <2>2, <3>2
    <3> QED
      BY <3>1, <3>2
  <2> QED
    BY <1>5, <2>5, <2>6 DEF WriteSome
<1>6. CASE UNCHANGED vars
  BY <1>6 DEF vars
<1> QED
  BY <1>1, <1>2, <1>3, <1>4, <1>5, <1>6, <1>7 DEF Next, CopyStep

-----------------------------------------------------------------------------
(* Chunks *)

LEMMA ChunksInit == Init => Chunks
BY DEF Init, Chunks, ChunkAt, Prefix

\* A copy does not touch what the other one reads, holds or has written.
LEMMA ChunkFrame ==
    ASSUME NEW d \in Directions, ChunkAt(d), sent[d] <= sent'[d],
           sent[d] \in Int, sent'[d] \in Int, fetched[d] \in Int,
           /\ pc'[d] = pc[d] /\ buffer'[d] = buffer[d] /\ filled'[d] = filled[d]
           /\ written'[d] = written[d] /\ fetched'[d] = fetched[d]
           /\ delivered'[d] = delivered[d]
    PROVE  ChunkAt(d)'
BY DEF ChunkAt

\* Once a chunk is read its bytes are the next ones, whatever is behind them.
LEMMA ChunkFilled ==
    ASSUME TypeOK, NEW d \in Directions, ChunkAt(d), Fill(d)
    PROVE  ChunkAt(d)'
<1>1. PICK n \in 1 .. BufSize :
          /\ n <= sent[d] - fetched[d]
          /\ filled' = [filled EXCEPT ![d] = n]
          /\ fetched' = [fetched EXCEPT ![d] = @ + n]
          /\ buffer' = [buffer EXCEPT ![d] = [i \in 1 .. BufSize |->
                           IF i <= n THEN fetched[d] + i ELSE @[i]]]
  BY DEF Fill
<1>2. /\ fetched[d] \in Nat /\ sent[d] \in Nat /\ Len(delivered[d]) \in Nat
      /\ n \in Nat \ {0}
  BY SizesAssumption, LenProperties DEF TypeOK
<1>3. /\ filled'[d] = n /\ fetched'[d] = fetched[d] + n /\ pc'[d] = "write"
      /\ buffer'[d] = [i \in 1 .. BufSize |->
                           IF i <= n THEN fetched[d] + i ELSE buffer[d][i]]
      /\ UNCHANGED <<sent, written, delivered>>
  BY <1>1 DEF Fill, TypeOK
<1>4. \A i \in 1 .. n : buffer'[d][i] = fetched[d] + i
  <2> TAKE i \in 1 .. n
  <2>1. i \in 1 .. BufSize /\ i <= n
    BY SizesAssumption
  <2> QED
    BY <1>3, <2>1
<1>5. pc[d] = "read" /\ written[d] = 0 /\ fetched[d] = Len(delivered[d])
      /\ delivered[d] = Prefix(Len(delivered[d]))
  BY DEF Fill, ChunkAt
<1>6. /\ fetched[d] + n <= sent[d]
      /\ 0 < n /\ (fetched[d] + n) - n = fetched[d]
      /\ Len(delivered[d]) - 0 = fetched[d]
  BY <1>1, <1>2, <1>5
<1>7. /\ fetched'[d] <= sent'[d] /\ written'[d] < filled'[d]
      /\ fetched'[d] - filled'[d] = Len(delivered'[d]) - written'[d]
      /\ fetched'[d] - filled'[d] = fetched[d]
  BY <1>3, <1>5, <1>6
<1>8. \A i \in 1 .. filled'[d] : buffer'[d][i] = fetched'[d] - filled'[d] + i
  BY <1>3, <1>4, <1>7
<1> QED
  BY <1>3, <1>5, <1>7, <1>8 DEF ChunkAt

\* What a write adds are the next bytes.
LEMMA ChunkWritten ==
    ASSUME TypeOK, NEW d \in Directions, ChunkAt(d), WriteSome(d)
    PROVE  /\ ChunkAt(d)'
           /\ \E k \in Nat \ {0} :
                 /\ Len(delivered[d]) + k <= sent[d]
                 /\ delivered' = [delivered EXCEPT ![d] = Prefix(Len(delivered[d]) + k)]
                 /\ bytes_transferred' + written'[d] =
                      bytes_transferred + written[d] + k
<1>0. Room(d) \in Int
  BY SizesAssumption, LenProperties DEF TypeOK, Room
<1>1. PICK k \in Nat \ {0} :
          /\ k <= filled[d] - written[d]
          /\ delivered' = [delivered EXCEPT ![d] =
                              @ \o SubSeq(buffer[d], written[d] + 1, written[d] + k)]
          /\ IF written[d] + k = filled[d]
             THEN /\ written' = [written EXCEPT ![d] = 0]
                  /\ bytes_transferred' = bytes_transferred + filled[d]
                  /\ pc' = [pc EXCEPT ![d] = "read"]
             ELSE /\ written' = [written EXCEPT ![d] = @ + k]
                  /\ UNCHANGED <<pc, bytes_transferred>>
  <2>1. \A k \in 1 .. Room(d) : k \in Nat \ {0}
    BY <1>0
  <2> HIDE DEF peerVars, chunkVars
  <2> QED
    BY <2>1 DEF WriteSome
<1> DEFINE n == Len(delivered[d])
           m == written[d]
           b == buffer[d]
           t == Written(delivered[d], b, m, k)
<1>2. /\ fetched[d] \in Nat /\ sent[d] \in Nat /\ n \in Nat /\ m \in Nat
      /\ filled[d] \in Nat /\ delivered[d] \in Seq(Nat)
  BY SizesAssumption, LenProperties DEF TypeOK
<1>3. m + k <= filled[d]
  <2>1. k <= filled[d] - m
    BY <1>1
  <2> QED
    BY <1>2, <2>1
<1>4. /\ pc[d] = "write" /\ delivered[d] = Prefix(n) /\ fetched[d] <= sent[d]
      /\ fetched[d] - filled[d] = n - m
      /\ \A i \in 1 .. filled[d] : b[i] = fetched[d] - filled[d] + i
  BY DEF WriteSome, ChunkAt
<1>5. \A i \in m + 1 .. m + k : b[i] = n - m + i
  <2> TAKE i \in m + 1 .. m + k
  <2>1. i \in 1 .. filled[d]
    BY <1>2, <1>3
  <2> QED
    BY <1>4, <2>1
<1>6. m + k <= BufSize /\ b \in [1 .. BufSize -> Nat]
  BY <1>2, <1>3, SizesAssumption DEF TypeOK
<1>7. t = Prefix(n + k)
  <2>1. \A i \in m + 1 .. m + k : b[i] = n - m + i
    BY <1>5
  <2> HIDE DEF n, m, b
  <2>2. Written(Prefix(n), b, m, k) = Prefix(n + k)
    BY <1>2, <1>6, <2>1, Extended
  <2> QED
    BY <1>4, <2>2
<1> HIDE DEF t
<1>s. n + k <= fetched[d] /\ n + k <= sent[d]
  <2> HIDE DEF n, m, b
  <2> QED
    BY <1>2, <1>3, <1>4
<1>8. delivered' = [delivered EXCEPT ![d] = Prefix(n + k)]
  BY <1>1, <1>7 DEF t, Written
<1>9. /\ delivered'[d] = t /\ delivered'[d] = Prefix(Len(delivered'[d]))
      /\ Len(delivered'[d]) = n + k
  BY <1>2, <1>7, <1>8 DEF TypeOK, Prefix
<1>10. UNCHANGED <<sent, buffer, filled, fetched>>
  BY DEF WriteSome
<1>11. CASE m + k = filled[d]
  <2>1. written'[d] = 0 /\ pc'[d] = "read"
    BY <1>1, <1>11 DEF TypeOK
  <2>2. fetched[d] = n + k
    BY <1>2, <1>3, <1>4, <1>11
  <2>3. ChunkAt(d)'
    BY <1>4, <1>9, <1>10, <2>1, <2>2 DEF ChunkAt
  <2>4. bytes_transferred' + written'[d] = bytes_transferred + m + k
    <3>1. bytes_transferred' = bytes_transferred + filled[d]
      BY <1>1, <1>11
    <3>2. bytes_transferred \in Nat
      BY DEF TypeOK
    <3> QED
      BY <1>2, <1>11, <2>1, <3>1, <3>2
  <2> QED
    BY <1>s, <1>8, <2>3, <2>4
<1>12. CASE m + k # filled[d]
  <2>1. written'[d] = m + k /\ pc'[d] = "write"
    BY <1>1, <1>4, <1>12 DEF TypeOK
  <2>2. m + k < filled[d] /\ fetched[d] - filled[d] = (n + k) - (m + k)
    <3>1. fetched[d] - filled[d] = n - m
      BY <1>4
    <3> HIDE DEF n, m, b
    <3>2. m + k < filled[d]
      BY <1>2, <1>3, <1>12
    <3>3. fetched[d] - filled[d] = (n + k) - (m + k)
      BY <1>2, <1>3, <3>1
    <3> QED
      BY <3>2, <3>3
  <2>3. ChunkAt(d)'
    BY <1>4, <1>9, <1>10, <2>1, <2>2 DEF ChunkAt
  <2>4. bytes_transferred' + written'[d] = bytes_transferred + m + k
    <3>1. bytes_transferred' = bytes_transferred
      BY <1>1, <1>12
    <3>2. bytes_transferred \in Nat
      BY DEF TypeOK
    <3> QED
      BY <1>2, <2>1, <3>1, <3>2
  <2> QED
    BY <1>s, <1>8, <2>3, <2>4
<1> QED
  BY <1>11, <1>12

LEMMA ChunksNext == TypeOK /\ Chunks /\ [Next]_vars => Chunks'
<1> SUFFICES ASSUME TypeOK, Chunks, [Next]_vars, NEW d \in Directions
             PROVE  ChunkAt(d)'
  BY DEF Chunks
<1>0. ChunkAt(d) /\ sent[d] \in Nat /\ fetched[d] \in Nat
  BY DEF Chunks, TypeOK
<1>1. ASSUME sent'[d] \in Nat, sent[d] <= sent'[d], UNCHANGED <<pc, chunkVars, delivered>>
      PROVE  ChunkAt(d)'
  BY <1>0, <1>1, ChunkFrame
<1>2. ASSUME NEW e \in Directions, Send(e)
      PROVE  ChunkAt(d)'
  <2>1. sent'[d] \in Nat /\ sent[d] <= sent'[d]
    BY <1>0, <1>2 DEF Send, TypeOK
  <2> QED
    BY <1>1, <1>2, <2>1 DEF Send
<1>3. ASSUME NEW e \in Directions, Close(e) \/ Take(e) \/ EndOfFile(e) \/ Fail(e)
      PROVE  ChunkAt(d)'
  <2>1. UNCHANGED <<sent, pc, chunkVars, delivered>>
    BY <1>3 DEF Close, Take, EndOfFile, Fail
  <2> QED
    BY <1>0, <1>1, <2>1
<1>4. ASSUME NEW p \in Peers, Break(p)
      PROVE  ChunkAt(d)'
  <2>1. UNCHANGED <<sent, pc, chunkVars, delivered>>
    BY <1>4 DEF Break
  <2> QED
    BY <1>0, <1>1, <2>1
<1>5. ASSUME NEW e \in Directions, Fill(e)
      PROVE  ChunkAt(d)'
  <2>1. CASE e = d
    BY <1>0, <1>5, <2>1, ChunkFilled
  <2>2. CASE e # d
    <3>1. /\ sent'[d] = sent[d] /\ pc'[d] = pc[d] /\ buffer'[d] = buffer[d]
          /\ filled'[d] = filled[d] /\ written'[d] = written[d]
          /\ fetched'[d] = fetched[d] /\ delivered'[d] = delivered[d]
      BY <1>5, <2>2 DEF Fill, TypeOK
    <3> QED
      BY <1>0, <3>1, ChunkFrame
  <2> QED
    BY <2>1, <2>2
<1>6. ASSUME NEW e \in Directions, WriteSome(e)
      PROVE  ChunkAt(d)'
  <2>1. CASE e = d
    BY <1>0, <1>6, <2>1, ChunkWritten
  <2>2. CASE e # d
    <3>1. /\ sent'[d] = sent[d] /\ pc'[d] = pc[d] /\ buffer'[d] = buffer[d]
          /\ filled'[d] = filled[d] /\ written'[d] = written[d]
          /\ fetched'[d] = fetched[d] /\ delivered'[d] = delivered[d]
      BY <1>6, <2>2 DEF WriteSome, TypeOK
    <3> QED
      BY <1>0, <3>1, ChunkFrame
  <2> QED
    BY <2>1, <2>2
<1>7. CASE UNCHANGED vars
  BY <1>0, <1>1, <1>7 DEF vars
<1> QED
  BY <1>2, <1>3, <1>4, <1>5, <1>6, <1>7 DEF Next, CopyStep

LEMMA Invariants == Spec => [](TypeOK /\ Chunks)
BY TypesInit, TypesNext, ChunksInit, ChunksNext, PTL DEF Spec

\* The variables keep their types; in particular no copy reads or writes
\* beyond its buffer.
THEOREM Typing == Spec => []TypeOK
BY Invariants, PTL

-----------------------------------------------------------------------------
(* The ledger *)

\* The ledger of the two directions, in either order.
LEMMA Commuted ==
    ASSUME NEW b \in Nat, NEW w \in Nat, NEW v \in Nat, NEW l \in Nat, NEW k \in Nat,
           b + w + v = l + k
    PROVE  b + v + w = k + l
OBVIOUS

\* One direction has n more bytes, of which the ledger counts n more.
LEMMA Counted ==
    ASSUME NEW b \in Nat, NEW w \in Nat, NEW v \in Nat, NEW l \in Nat, NEW k \in Nat,
           NEW c \in Nat, NEW u \in Nat, NEW n \in Nat,
           b + w + v = l + k, c + u = b + w + n
    PROVE  c + u + v = (l + n) + k
OBVIOUS

Got(d) == Len(delivered[d])

LEMMA LedgerNext == TypeOK /\ Chunks /\ TransferLedger /\ [Next]_vars => TransferLedger'
<1> SUFFICES ASSUME TypeOK, Chunks, TransferLedger, [Next]_vars
             PROVE  TransferLedger'
  OBVIOUS
<1>1. CASE UNCHANGED <<bytes_transferred, written, delivered>>
  BY <1>1 DEF TransferLedger
<1>2. ASSUME NEW d \in Directions, WriteSome(d)
      PROVE  TransferLedger'
  <2>0. ChunkAt(d) /\ pc[d] = "write"
    BY <1>2 DEF Chunks, WriteSome
  <2>1. PICK n \in Nat \ {0} :
           /\ delivered' = [delivered EXCEPT ![d] = Prefix(Len(delivered[d]) + n)]
           /\ bytes_transferred' + written'[d] = bytes_transferred + written[d] + n
    BY <1>2, <2>0, ChunkWritten
  <2> DEFINE o == Other(d)
  <2>3. /\ o \in Directions /\ d # o
        /\ (d = "up" /\ o = "down") \/ (d = "down" /\ o = "up")
    BY DEF Other, Directions
  <2> HIDE DEF o
  <2>4. /\ Got(d) \in Nat /\ Got(o) \in Nat
        /\ written[d] \in Nat /\ written[o] \in Nat /\ bytes_transferred \in Nat
    BY <2>3, SizesAssumption, LenProperties DEF TypeOK, Got
  <2>2. bytes_transferred' \in Nat /\ written'[d] \in Nat
    <3>1. TypeOK'
      BY TypesNext
    <3> QED
      BY <3>1, SizesAssumption DEF TypeOK
  <2>5. Got(d)' = Got(d) + n
    BY <2>1, <2>4 DEF TypeOK, Prefix, Got
  <2>6. Got(o)' = Got(o) /\ written'[o] = written[o]
    BY <1>2, <2>1, <2>3 DEF WriteSome, TypeOK, Got
  <2>7. bytes_transferred + written[d] + written[o] =
           Got(d) + Got(o)
    <3>1. CASE d = "up" /\ o = "down"
      BY <2>4, <3>1 DEF TransferLedger, Got
    <3>2. CASE d = "down" /\ o = "up"
      <4>1. bytes_transferred + written[o] + written[d] =
               Got(o) + Got(d)
        BY <3>2 DEF TransferLedger, Got
      <4> QED
        BY <2>4, <4>1, Commuted
    <3> QED
      BY <2>3, <3>1, <3>2
  <2>8. bytes_transferred' + written'[d] + written'[o] =
           Got(d)' + Got(o)'
    <3>1. bytes_transferred' + written'[d] = bytes_transferred + written[d] + n
      BY <2>1
    <3>2. bytes_transferred' + written'[d] + written[o] =
             (Got(d) + n) + Got(o)
      BY <2>2, <2>4, <2>7, <3>1, Counted
    <3> QED
      BY <2>5, <2>6, <3>2
  <2>9. written'[o] \in Nat /\ Got(d)' \in Nat /\ Got(o)' \in Nat
    BY <2>4, <2>5, <2>6
  <2>10. CASE d = "up" /\ o = "down"
    BY <2>2, <2>8, <2>9, <2>10 DEF TransferLedger, Got
  <2>11. CASE d = "down" /\ o = "up"
    <3>1. bytes_transferred' + written'[o] + written'[d] =
             Got(o)' + Got(d)'
      BY <2>2, <2>8, <2>9, Commuted
    <3> QED
      BY <2>11, <3>1 DEF TransferLedger, Got
  <2> QED
    BY <2>3, <2>10, <2>11
<1>3. CASE Next /\ ~(\E d \in Directions : WriteSome(d))
  BY <1>1, <1>3 DEF Next, CopyStep, Send, Close, Take, Fill, EndOfFile, Fail, Break
<1> QED
  BY <1>1, <1>2, <1>3 DEF vars

\* copy_stream counts what it has delivered, chunk by chunk.
THEOREM BytesAreCounted == Spec => []TransferLedger
<1>1. Init => TransferLedger
  BY DEF Init, TransferLedger, Directions
<1> QED
  BY <1>1, LedgerNext, Invariants, PTL DEF Spec

-----------------------------------------------------------------------------
(* Refinement *)

LEMMA RelayInit == Init => Promise!Init
BY DEF Init, Promise!Init, Directions, Promise!Directions

LEMMA RelayNext == TypeOK /\ Chunks /\ [Next]_vars => [Promise!Next]_(Promise!vars)
<1> SUFFICES ASSUME TypeOK, Chunks, [Next]_vars
             PROVE  Promise!Next \/ UNCHANGED Promise!vars
  OBVIOUS
<1>d. Directions = Promise!Directions /\ Peers = Promise!Peers
  BY DEF Directions, Peers, Promise!Directions, Promise!Peers
<1>1. ASSUME NEW d \in Directions, Send(d)
      PROVE  Promise!Send(d)
  BY <1>1 DEF Send, Promise!Send, Sender, Promise!Sender
<1>2. ASSUME NEW d \in Directions, Close(d)
      PROVE  Promise!Close(d)
  BY <1>2 DEF Close, Promise!Close
<1>3. ASSUME NEW p \in Peers, Break(p)
      PROVE  Promise!Break(p)
  BY <1>3 DEF Break, Promise!Break
<1>4. ASSUME NEW d \in Directions, Take(d) \/ Fill(d)
      PROVE  UNCHANGED Promise!vars
  BY <1>4 DEF Take, Fill, Promise!vars
\* the copy waits for more to read, so its chunk has been passed on
<1>5. ASSUME NEW d \in Directions, EndOfFile(d)
      PROVE  Promise!EndOk
  <2>1. ChunkAt(d)
    BY DEF Chunks
  <2> QED
    BY <1>5, <2>1, <1>d DEF EndOfFile, Running, ChunkAt, Promise!EndOk
<1>6. ASSUME NEW d \in Directions, WriteSome(d)
      PROVE  Promise!Deliver(d)
  <2>1. ChunkAt(d)
    BY DEF Chunks
  <2>2. PICK k \in Nat \ {0} :
          /\ Len(delivered[d]) + k <= sent[d]
          /\ delivered' = [delivered EXCEPT ![d] = Prefix(Len(delivered[d]) + k)]
    BY <1>6, <2>1, ChunkWritten
  <2>3. Len(delivered[d]) \in Nat /\ sent[d] \in Nat
    BY LenProperties, SizesAssumption DEF TypeOK
  <2>4. Len(delivered[d]) + k \in Len(delivered[d]) + 1 .. sent[d]
    BY <2>2, <2>3
  <2>5. \E upto \in Len(delivered[d]) + 1 .. sent[d] :
           delivered' = [delivered EXCEPT ![d] = [i \in 1 .. upto |-> i]]
    BY <2>2, <2>4 DEF Prefix
  <2> QED
    BY <1>6, <2>5 DEF WriteSome, Running, Promise!Deliver
<1>7. ASSUME NEW d \in Directions, Fail(d)
      PROVE  Promise!EndErr
  BY <1>7 DEF Fail, Running, Promise!EndErr
<1>8. CASE UNCHANGED vars
  BY <1>8 DEF vars, Promise!vars
<1> QED
  BY <1>1, <1>2, <1>3, <1>4, <1>5, <1>6, <1>7, <1>8, <1>d
  DEF Next, CopyStep, Promise!Next

\* stream_bidirectional keeps the promise of Relay.
THEOREM StreamIsARelay == Spec => RelayImplemented
BY RelayInit, RelayNext, Invariants, PTL DEF Spec, RelayImplemented, Promise!Spec
=============================================================================
