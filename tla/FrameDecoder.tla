----------------------------- MODULE FrameDecoder ------------------------------
(***************************************************************************)
(* CTraderFrameDecoder below StrictTransport: from the bytes of a TLS      *)
(* stream, read in whatever pieces, to whole frames.  A frame is a header  *)
(* that tells its length and a payload; nothing marks where one begins,    *)
(* so that a byte lost or kept too long turns payload into headers.  A     *)
(* deadline that passes leaves the buffer as it is: the step is a stutter. *)
(*                                                                         *)
(* The header is two digits of base ByteBase for the code's four bytes.    *)
(***************************************************************************)
EXTENDS Naturals, Sequences, SequencesExt

CONSTANTS
  ByteBase,           \* a byte is one of 0 .. ByteBase - 1
  MaxFrameBytes,      \* m_maximumFrameBytes
  ReadBytes,          \* what one SSL_read takes at most
  FramePayloads,      \* the payloads the other side sends
  MaxSends,           \* bound: frames sent on one connection
  MaxStreams          \* bound: connections of a run

\* MAX_PROTO_FRAME_BYTES is 4 MiB, a read takes 16 KiB.
ASSUME FrameAssumption ==
  /\ ByteBase \in Nat \ {0, 1} /\ MaxFrameBytes \in Nat \ {0}
  /\ ReadBytes \in 1 .. MaxFrameBytes
  /\ MaxSends \in Nat /\ MaxStreams \in Nat \ {0}
  /\ \A p \in FramePayloads :
       p \in Seq(0 .. ByteBase - 1) /\ Len(p) < ByteBase * ByteBase

VARIABLES
  streams,       \* connections so far
  wire,          \* bytes under way on the current one
  sent,          \* history: the payloads sent on it
  buffer,        \* m_buffer
  frames,        \* history: the payloads handed up on it
  failure        \* "none", or what the decoder said of it: "malformed"

frameVars == <<streams, wire, sent, buffer, frames, failure>>

HeaderBytes == 2
MaxBuffered == 2 * MaxFrameBytes + 2 * HeaderBytes    \* m_maximumBufferedBytes

Legal(payload) == Len(payload) \in 1 .. MaxFrameBytes

FrameInit ==
  /\ streams = 1 /\ wire = <<>> /\ sent = <<>> /\ buffer = <<>> /\ frames = <<>>
  /\ failure = "none"

--------------------------------------------------------------------------------

EncodedFrame(payload) ==
  << Len(payload) \div ByteBase, Len(payload) % ByteBase >> \o payload

\* The other side (external): frames it may send, and some it may not.
SendFrame ==
  /\ Len(sent) < MaxSends
  /\ \E p \in FramePayloads :
       wire' = wire \o EncodedFrame(p) /\ sent' = Append(sent, p)
  /\ UNCHANGED <<streams, buffer, frames, failure>>

\* What next() makes of the buffer.
HeaderRead == Len(buffer) >= HeaderBytes
FrameLength == buffer[1] * ByteBase + buffer[2]
BadLength == FrameLength = 0 \/ FrameLength > MaxFrameBytes
FrameIsWhole == Len(buffer) >= HeaderBytes + FrameLength
NeedsMore == HeaderRead => ~BadLength /\ ~FrameIsWhole

NoBytes == <<>>                                         \* clear()

\* SSL_read() takes some of the bytes, append() stores them if they fit.
ReadMore ==
  /\ failure = "none" /\ NeedsMore
  /\ \E n \in 1 .. ReadBytes :
       /\ n <= Len(wire)
       /\ wire' = SubSeq(wire, n + 1, Len(wire))
       /\ IF Len(buffer) + n > MaxBuffered
          THEN buffer' = NoBytes /\ failure' = "malformed"
          ELSE buffer' = buffer \o SubSeq(wire, 1, n) /\ UNCHANGED failure
  /\ UNCHANGED <<streams, sent, frames>>

NextFrame ==
  /\ failure = "none" /\ HeaderRead /\ ~BadLength /\ FrameIsWhole
  /\ LET total == HeaderBytes + FrameLength
     IN  /\ frames' = Append(frames, SubSeq(buffer, HeaderBytes + 1, total))
         /\ buffer' = SubSeq(buffer, total + 1, Len(buffer))
  /\ UNCHANGED <<streams, wire, sent, failure>>

RejectFrame ==
  /\ failure = "none" /\ HeaderRead /\ BadLength
  /\ buffer' = NoBytes /\ failure' = "malformed"
  /\ UNCHANGED <<streams, wire, sent, frames>>

\* Mutant: close() leaves the bytes of the lost connection in the decoder.
BufferAfterClose_Kept == buffer

\* What close() leaves of the buffer.
BufferAfterClose == NoBytes

\* reconnectDemo(), at any moment, with part of a frame in the buffer or not:
\* close(), then a stream of its own.
ReconnectStream ==
  /\ streams < MaxStreams /\ streams' = streams + 1
  /\ wire' = <<>> /\ sent' = <<>> /\ frames' = <<>> /\ failure' = "none"
  /\ buffer' = BufferAfterClose

FrameNext == SendFrame \/ ReadMore \/ NextFrame \/ RejectFrame \/ ReconnectStream

FrameSpec == FrameInit /\ [][FrameNext]_frameVars

--------------------------------------------------------------------------------

\* Types of the decoder's variables.
FrameTypeOK ==
  LET bytes == Seq(0 .. ByteBase - 1)
  IN  /\ streams \in 1 .. MaxStreams /\ failure \in { "none", "malformed" }
      /\ wire \in bytes /\ buffer \in bytes /\ Len(buffer) <= MaxBuffered
      /\ sent \in Seq(FramePayloads) /\ frames \in Seq(FramePayloads)

\* The frames handed up on a connection are the ones sent on it, whole and in
\* order, in whatever pieces they were read and however an earlier connection
\* ended; what is not handed up yet is in the buffer and under way, and only a
\* frame that may not be sent is called malformed: the class comment of
\* CTraderFrameDecoder, append(), next() and close().
FramesAreSent ==
  /\ IsPrefix(frames, sent)
  /\ LET rest == SubSeq(sent, Len(frames) + 1, Len(sent))
     IN  IF failure = "none"
         THEN buffer \o wire =
                FlattenSeq([ i \in DOMAIN rest |-> EncodedFrame(rest[i]) ])
         ELSE rest # <<>> /\ ~Legal(Head(rest))
================================================================================
