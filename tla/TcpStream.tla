------------------------------ MODULE TcpStream -------------------------------
(***************************************************************************)
(* The bytes of one TCP connection through the proxy: stream_bidirectional *)
(* of proxy/tcp.rs, which polls two copies in one task, one per direction, *)
(* until the first of them returns, and then drops the other wherever it   *)
(* is.  TcpProxy sees all of this as the one step EndStream.               *)
(*                                                                         *)
(* A step of a copy is one read, or one of the writes write_all is made    *)
(* of.  A sender's bytes are numbered from 1, so what a buffer holds shows *)
(* where it came from.  A receiver that does not read leaves no room.      *)
(***************************************************************************)
EXTENDS Integers, Sequences

CONSTANTS
    MaxBytes,       \* bound: bytes sent in each direction
    BufSize,        \* bytes a buffer holds (65536 in the code)
    Window          \* bytes a receiver's socket takes before it is read

ASSUME SizesAssumption ==
    MaxBytes \in Nat /\ BufSize \in Nat \ {0} /\ Window \in Nat \ {0}

Directions == {"up", "down"}      \* client to upstream, upstream to client
Peers == {"client", "upstream"}

Sender(d) == IF d = "up" THEN "client" ELSE "upstream"
Receiver(d) == IF d = "up" THEN "upstream" ELSE "client"
Other(d) == IF d = "up" THEN "down" ELSE "up"

VARIABLES
    sent, closed, broken,         \* the peers: bytes sent and end of file, per
                                  \* direction, and peers that have reset
    taken,                        \* bytes the receiver has read
    pc,                           \* where each copy is
    buffer, filled, written,      \* its buffer, the bytes the last read put
                                  \* there, and those of them already written
    fetched,                      \* bytes read from the sender's socket
    delivered,                    \* bytes written to the receiver's socket
    bytes_transferred,            \* TcpProxyMetrics
    result                        \* of the copy that returned first

peerVars == <<sent, closed, broken, taken>>
chunkVars == <<buffer, filled, written, fetched>>
vars == <<peerVars, pc, chunkVars, delivered, bytes_transferred, result>>

Init ==
    /\ sent = [d \in Directions |-> 0]
    /\ closed = [d \in Directions |-> FALSE]
    /\ broken = {}
    /\ taken = [d \in Directions |-> 0]
    /\ pc = [d \in Directions |-> "read"]
    /\ buffer = [d \in Directions |-> [i \in 1 .. BufSize |-> 0]]
    /\ filled = [d \in Directions |-> 0]
    /\ written = [d \in Directions |-> 0]
    /\ fetched = [d \in Directions |-> 0]
    /\ delivered = [d \in Directions |-> <<>>]
    /\ bytes_transferred = 0
    /\ result = "none"

\* Neither copy has returned, so the task still polls both.
Running == result = "none"

-----------------------------------------------------------------------------
(* the peers *)

Send(d) ==
    /\ Running
    /\ ~closed[d] /\ Sender(d) \notin broken
    /\ sent[d] < MaxBytes
    /\ sent' = [sent EXCEPT ![d] = @ + 1]
    /\ UNCHANGED <<closed, broken, taken, pc, chunkVars, delivered,
                   bytes_transferred, result>>

\* The sender shuts down its side and can still receive.
Close(d) ==
    /\ Running
    /\ ~closed[d]
    /\ closed' = [closed EXCEPT ![d] = TRUE]
    /\ UNCHANGED <<sent, broken, taken, pc, chunkVars, delivered,
                   bytes_transferred, result>>

Break(p) ==
    /\ Running
    /\ p \notin broken
    /\ broken' = broken \cup {p}
    /\ UNCHANGED <<sent, closed, taken, pc, chunkVars, delivered,
                   bytes_transferred, result>>

Take(d) ==
    /\ taken[d] < Len(delivered[d])
    /\ taken' = [taken EXCEPT ![d] = @ + 1]
    /\ UNCHANGED <<sent, closed, broken, pc, chunkVars, delivered,
                   bytes_transferred, result>>

Room(d) == Window - (Len(delivered[d]) - taken[d])

-----------------------------------------------------------------------------
(* copy_stream *)

\* Faulty: one more byte than the buffer holds.
FillOver(d) ==
    /\ Running
    /\ pc[d] = "read"
    /\ \E n \in 1 .. sent[d] - fetched[d] :
          /\ filled' = [filled EXCEPT ![d] = n]
          /\ fetched' = [fetched EXCEPT ![d] = @ + n]
          /\ buffer' = [buffer EXCEPT ![d] = [i \in 1 .. BufSize |->
                           IF i <= n THEN fetched[d] + i ELSE @[i]]]
    /\ pc' = [pc EXCEPT ![d] = "write"]
    /\ UNCHANGED <<peerVars, written, delivered, bytes_transferred, result>>
\* Faulty: one loop serves both directions, and finishes a write first.
FillInTurn(d) ==
    /\ Running
    /\ pc[d] = "read" /\ pc[Other(d)] = "read"
    /\ \E n \in 1 .. BufSize :
          /\ n <= sent[d] - fetched[d]
          /\ filled' = [filled EXCEPT ![d] = n]
          /\ fetched' = [fetched EXCEPT ![d] = @ + n]
          /\ buffer' = [buffer EXCEPT ![d] = [i \in 1 .. BufSize |->
                           IF i <= n THEN fetched[d] + i ELSE @[i]]]
    /\ pc' = [pc EXCEPT ![d] = "write"]
    /\ UNCHANGED <<peerVars, written, delivered, bytes_transferred, result>>

\* reader.read returns some bytes; those of an earlier read stay behind them.
\* (An error of kind UnexpectedEof would end the copy with Ok; read on a socket
\* does not return it, and it is left out.)
Fill(d) ==
    /\ Running
    /\ pc[d] = "read"
    /\ \E n \in 1 .. BufSize :
          /\ n <= sent[d] - fetched[d]
          /\ filled' = [filled EXCEPT ![d] = n]
          /\ fetched' = [fetched EXCEPT ![d] = @ + n]
          /\ buffer' = [buffer EXCEPT ![d] = [i \in 1 .. BufSize |->
                           IF i <= n THEN fetched[d] + i ELSE @[i]]]
    /\ pc' = [pc EXCEPT ![d] = "write"]
    /\ UNCHANGED <<peerVars, written, delivered, bytes_transferred, result>>

\* Ok(0): the copy returns, and the select drops the other one.
EndOfFile(d) ==
    /\ Running
    /\ pc[d] = "read"
    /\ closed[d] /\ fetched[d] = sent[d]
    /\ result' = "ok"
    /\ UNCHANGED <<peerVars, pc, chunkVars, delivered, bytes_transferred>>

\* Faulty: the whole buffer is written, not buffer[..bytes_read].
WriteWhole(d) ==
    /\ Running
    /\ pc[d] = "write"
    /\ Receiver(d) \notin broken
    /\ \E k \in 1 .. Room(d) :
          /\ k <= BufSize - written[d]
          /\ delivered' = [delivered EXCEPT ![d] =
                              @ \o SubSeq(buffer[d], written[d] + 1, written[d] + k)]
          /\ IF written[d] + k = BufSize
             THEN /\ written' = [written EXCEPT ![d] = 0]
                  /\ bytes_transferred' = bytes_transferred + filled[d]
                  /\ pc' = [pc EXCEPT ![d] = "read"]
             ELSE /\ written' = [written EXCEPT ![d] = @ + k]
                  /\ UNCHANGED <<pc, bytes_transferred>>
    /\ UNCHANGED <<peerVars, buffer, filled, fetched, result>>
\* Faulty: each write is counted, and then the chunk again.
WriteCountedTwice(d) ==
    /\ Running
    /\ pc[d] = "write"
    /\ Receiver(d) \notin broken
    /\ \E k \in 1 .. Room(d) :
          /\ k <= filled[d] - written[d]
          /\ delivered' = [delivered EXCEPT ![d] =
                              @ \o SubSeq(buffer[d], written[d] + 1, written[d] + k)]
          /\ IF written[d] + k = filled[d]
             THEN /\ written' = [written EXCEPT ![d] = 0]
                  /\ bytes_transferred' = bytes_transferred + filled[d]
                  /\ pc' = [pc EXCEPT ![d] = "read"]
             ELSE /\ written' = [written EXCEPT ![d] = @ + k]
                  /\ bytes_transferred' = bytes_transferred + k
                  /\ UNCHANGED pc
    /\ UNCHANGED <<peerVars, buffer, filled, fetched, result>>

\* One write of write_all.  After the last one the chunk is counted, in the
\* same poll, and the copy goes back to reading.
WriteSome(d) ==
    /\ Running
    /\ pc[d] = "write"
    /\ Receiver(d) \notin broken
    /\ \E k \in 1 .. Room(d) :
          /\ k <= filled[d] - written[d]
          /\ delivered' = [delivered EXCEPT ![d] =
                              @ \o SubSeq(buffer[d], written[d] + 1, written[d] + k)]
          /\ IF written[d] + k = filled[d]
             THEN /\ written' = [written EXCEPT ![d] = 0]
                  /\ bytes_transferred' = bytes_transferred + filled[d]
                  /\ pc' = [pc EXCEPT ![d] = "read"]
             ELSE /\ written' = [written EXCEPT ![d] = @ + k]
                  /\ UNCHANGED <<pc, bytes_transferred>>
    /\ UNCHANGED <<peerVars, buffer, filled, fetched, result>>

\* "Read failed" or "Write failed": the copy returns the error, and the other
\* one is dropped.  Data that arrived before a reset may still be read.
Fail(d) ==
    /\ Running
    /\ \/ pc[d] = "read" /\ Sender(d) \in broken
       \/ pc[d] = "write" /\ Receiver(d) \in broken
    /\ result' = "err"
    /\ UNCHANGED <<peerVars, pc, chunkVars, delivered, bytes_transferred>>

CopyStep(d) == Fill(d) \/ EndOfFile(d) \/ WriteSome(d) \/ Fail(d)

Next ==
    \/ \E d \in Directions : Send(d) \/ Close(d) \/ Take(d) \/ CopyStep(d)
    \/ \E p \in Peers : Break(p)

Spec == Init /\ [][Next]_vars

\* Each copy is polled whenever it can go on.  No peer is obliged to anything.
FairSpec == Spec /\ \A d \in Directions : WF_vars(CopyStep(d))

-----------------------------------------------------------------------------
(* Properties *)

\* Types of the peers' and the copies' state; offsets stay inside the buffer.
TypeOK ==
    /\ sent \in [Directions -> 0 .. MaxBytes]
    /\ closed \in [Directions -> BOOLEAN]
    /\ broken \subseteq Peers
    /\ taken \in [Directions -> Nat]
    /\ pc \in [Directions -> {"read", "write"}]
    /\ buffer \in [Directions -> [1 .. BufSize -> 0 .. MaxBytes]]
    /\ filled \in [Directions -> 0 .. BufSize]
    /\ written \in [Directions -> 0 .. BufSize]
    /\ fetched \in [Directions -> 0 .. MaxBytes]
    /\ delivered \in [Directions -> Seq(Nat)]
    /\ bytes_transferred \in Nat
    /\ result \in {"none", "ok", "err"}

\* bytes_transferred counts each delivered byte once, in both directions and
\* through partial writes.  What a copy has written of its present chunk is
\* not in it, and never will be if the copy is dropped there.
TransferLedger ==
    bytes_transferred + written["up"] + written["down"] =
        Len(delivered["up"]) + Len(delivered["down"])

\* The connection keeps the promise of Relay: with reused buffers, partial
\* writes, resets and a copy that is dropped in the middle, a receiver gets
\* the sender's bytes in order with no gap, and a connection that counts as a
\* success has delivered everything of a direction that was closed.
Promise == INSTANCE Relay
RelayImplemented == Promise!Spec

\* A receiver that does not read holds up its own direction only: once a
\* sender has closed and its receiver goes on reading, the connection ends,
\* whatever the other direction is waiting for.
ClosedEnds ==
    \A d \in Directions :
       []<>(Room(d) > 0 \/ ~Running) => (closed[d] ~> ~Running)
=============================================================================
