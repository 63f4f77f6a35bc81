---------------------------- MODULE MessageProtocol ----------------------------
(***************************************************************************)
(* cppio::Message and cppio::MessageProtocol, src/src/message.cpp: one      *)
(* thread sends messages over a line and one thread at the other end reads  *)
(* them.  A message is a sequence of frames, a frame a sequence of bytes; on *)
(* the line it is a count word, and for every frame a length word and the   *)
(* bytes.                                                                   *)
(*                                                                          *)
(* The line is any IoLine: a read or write moves at least one byte and      *)
(* perhaps fewer than it could, waits, or returns a code that is not        *)
(* positive.  A write that waits for room when the other end hangs up may   *)
(* fail, as on a socket, or sleep on, as on an inproc line, whose predicate *)
(* looks for room only (inproc.cpp:179).  uint32_t words are WordSize bytes *)
(* and an int is less than IntLimit, so that their limits are within reach. *)
(***************************************************************************)
EXTENDS Integers, Sequences, SequencesExt

CONSTANTS Base,        \* the number of values of a byte
          WordSize,    \* the number of bytes of a uint32_t
          IntLimit,    \* INT_MAX + 1
          Capacity,    \* the bytes the line holds, and the longest write it accepts
          Messages,    \* the messages that are sent
          MaxSends,    \* bound: calls of sendMessage
          MaxWrote,    \* bound: bytes the line takes in one of them
          Failures,    \* what a failed write returns, negated: eConnectionLost and
                       \* eUnknown on inproc lines and sockets, 0 on a Windows pipe
          Timeouts,    \* the ends that have set a timeout: ReceiveTimeout at "in",
                       \* SendTimeout (sockets only) at "out"
          HangUps      \* the ends that may destroy their line: "in" reads, "out" writes

ASSUME ProtocolAssumption ==
  /\ Base \in Nat \ {0, 1} /\ WordSize \in Nat \ {0} /\ IntLimit \in Nat \ {0}
  /\ Capacity \in Nat \ {0} /\ MaxSends \in Nat /\ MaxWrote \in Nat /\ Failures \subseteq Nat
  /\ Timeouts \subseteq {"in", "out"} /\ HangUps \subseteq {"in", "out"}

Byte == 0..(Base - 1)

-------------------------------------------------------------------------------
\* The format.

\* n >> 8 * i, as far as a word goes.
Shifted(n) == LET s[i \in 0..WordSize] == IF i = 0 THEN n ELSE s[i - 1] \div Base
              IN  s

\* *((uint32_t*)b) = n, little endian, and back.
Word(n)      == [i \in 1..WordSize |-> Shifted(n)[i - 1] % Base]
WordValue(w) ==
  LET v[i \in 0..Len(w)] == IF i = 0 THEN 0 ELSE v[i - 1] * Base + w[Len(w) + 1 - i]
  IN  v[Len(w)]

\* Message::messageSize: totalSize after i frames, and after all of them.
FrameEnds(m) ==
  LET totalSize[i \in 0..Len(m)] ==
        IF i = 0 THEN WordSize ELSE totalSize[i - 1] + WordSize + Len(m[i])
  IN  totalSize

MessageSize(m) == FrameEnds(m)[Len(m)]

\* The lengths that a word and an int can hold are the messages' limits.
WordHolds(n) == Shifted(n)[WordSize] = 0

ASSUME MessagesAssumption ==
  \A m \in Messages : /\ m \in Seq(Seq(Byte))
                      /\ WordHolds(Len(m)) /\ \A i \in 1..Len(m) : WordHolds(Len(m[i]))
                      /\ MessageSize(m) < IntLimit

\* Message::writeMessage: the buffer after i frames, and after all of them.
Written(m) ==
  LET b[i \in 0..Len(m)] ==
        IF i = 0 THEN Word(Len(m)) ELSE b[i - 1] \o (Word(Len(m[i])) \o m[i])
  IN  b

WriteMessage(m) == Written(m)[Len(m)]

\* Mutant: the length of the frame alone is compared with the buffer.
FrameOverrunsAlone(current, frameLength, length) == frameLength > length

\* current + currentFrameLength - start > bufferLength
FrameOverruns(current, frameLength, length) == current + frameLength > length

\* The word behind the first n bytes of a buffer; behind its end is whatever is there.
WordAt(b, junk, n) ==
  WordValue([i \in 1..WordSize |-> IF n + i \in DOMAIN b THEN b[n + i] ELSE junk])

\* One frame of Message::readMessage, which reads each word before it compares with
\* the length of the buffer.
ReadFrame(b, junk, at) ==
  LET frameLength == WordAt(b, junk, at.current)
      current     == at.current + WordSize
  IN  IF at.error THEN at
      ELSE IF FrameOverruns(current, frameLength, Len(b)) THEN [at EXCEPT !.error = TRUE]
      ELSE [current |-> current + frameLength, error |-> FALSE,
            m |-> Append(at.m, SubSeq(b, current + 1, current + frameLength))]

\* Message::readMessage of a whole buffer, after i frames and after all of them.
FramesRead(b, junk) ==
  LET at[i \in 0..WordAt(b, junk, 0)] ==
        IF i = 0 THEN [current |-> WordSize, error |-> FALSE, m |-> <<>>]
        ELSE ReadFrame(b, junk, at[i - 1])
  IN  at

ReadBuffer(b, junk) == FramesRead(b, junk)[WordAt(b, junk, 0)]

\* The value of an int after n is assigned to it.
ToInt(n) == ((n + IntLimit) % (2 * IntLimit)) - IntLimit

-------------------------------------------------------------------------------

VARIABLES stream,    \* the bytes on the line
          open,      \* the ends that still have their line
          sender,    \* sendMessage: pc, whether it is asleep in line->write, and its
                     \* locals buffer, data and towrite
          sent,      \* history: the messages passed to sendMessage
          wrote,     \* history: the bytes the line has taken from the last of them
          reader,    \* readMessage: pc, the bytes read so far, frames, frameLength and m
          received,  \* history: the messages readMessage returned with 1
          torn       \* history: the ends where a call on the line failed inside a message

vars == <<stream, open, sender, sent, wrote, reader, received, torn>>

senderVars == <<sender, sent, wrote>>
readerVars == <<reader, received>>

Idle == [pc |-> "idle", bytes |-> <<>>, frames |-> 0, frameLength |-> 0, m |-> <<>>]

TypeOK ==
  /\ stream \in Seq(Byte) /\ Len(stream) <= Capacity
  /\ open \subseteq {"in", "out"}
  /\ sender.pc \in {"idle", "sending"} /\ sender.write \in {"none", "asleep"}
  /\ sender.buffer \in Seq(Byte)
  /\ sender.towrite \in -IntLimit..(IntLimit - 1)
  /\ reader.pc \in {"idle", "count", "length", "payload"}
  /\ Len(reader.bytes) < IF reader.pc = "payload" THEN reader.frameLength ELSE WordSize
  /\ reader.pc \in {"length", "payload"} => Len(reader.m) < reader.frames
  /\ torn \subseteq {"in", "out"}

Init ==
  /\ stream = <<>>
  /\ open = {"in", "out"}
  /\ sender = [pc |-> "idle", write |-> "none", buffer |-> <<>>, data |-> 0, towrite |-> 0]
  /\ sent = <<>> /\ wrote = 0
  /\ reader = Idle /\ received = <<>> /\ torn = {}

-------------------------------------------------------------------------------
\* sendMessage.

CallSend(m) ==
  /\ sender.pc = "idle" /\ "out" \in open /\ Len(sent) < MaxSends
  /\ sender' = [pc |-> "sending", write |-> "none", buffer |-> WriteMessage(m), data |-> 0,
                towrite |-> ToInt(MessageSize(m))]
  /\ sent' = Append(sent, m) /\ wrote' = 0
  /\ UNCHANGED <<stream, open, torn, readerVars>>

\* Mutant: an error code is neither counted nor returned.
AdvanceIgnoreErrors(done) ==
  IF done < 0 THEN sender' = [sender EXCEPT !.write = "none"]
  ELSE sender' = [sender EXCEPT !.write = "none", !.data = @ + done, !.towrite = ToInt(@ - done)]

\* write took done bytes, or returned the error code done: either way done is
\* subtracted from towrite and added to the pointer.
Advance(done) ==
  sender' = [sender EXCEPT !.write = "none", !.data = @ + done, !.towrite = ToInt(@ - done)]

\* line->write takes some bytes.  Bytes outside the buffer are whatever is there.
WriteSome ==
  /\ sender.pc = "sending" /\ sender.towrite > 0
  /\ sender.towrite <= Capacity
  /\ \E k \in 1..sender.towrite, junk \in Byte :
       /\ Len(stream) + k <= Capacity
       /\ wrote + k <= MaxWrote
       /\ stream' = stream \o [i \in 1..k |-> IF sender.data + i \in DOMAIN sender.buffer
                                              THEN sender.buffer[sender.data + i] ELSE junk]
       /\ Advance(k)
       /\ wrote' = wrote + k
  /\ UNCHANGED <<open, sent, torn, readerVars>>

\* line->write finds somebody at the other end and no room, and waits.
WriteWaits ==
  /\ sender.pc = "sending" /\ sender.write = "none"
  /\ sender.towrite \in 1..Capacity /\ Len(stream) = Capacity /\ "in" \in open
  /\ sender' = [sender EXCEPT !.write = "asleep"]
  /\ UNCHANGED <<stream, open, sent, wrote, torn, readerVars>>

\* line->write refuses a buffer that could never fit.
WriteTooBig ==
  /\ sender.pc = "sending" /\ sender.towrite > Capacity
  /\ Advance(-3)                                            \* eTooBigBuffer
  /\ UNCHANGED <<stream, open, sent, wrote, torn, readerVars>>

\* line->write fails: nobody is at the other end, or the SendTimeout passes
\* while it waits.
WriteFails ==
  /\ sender.pc = "sending" /\ sender.towrite > 0
  /\ "in" \notin open
     \/ ("out" \in Timeouts /\ sender.write = "asleep" /\ Len(stream) = Capacity)
  /\ \E f \in Failures : Advance(-f)
  /\ torn' = torn \cup {"out"}
  /\ UNCHANGED <<stream, open, sent, wrote, readerVars>>

\* Mutant: one write and no loop around it.
SendReturnEarly ==
  /\ sender.pc = "sending" /\ sender.data > 0
  /\ sender' = [sender EXCEPT !.pc = "idle"]
  /\ UNCHANGED <<stream, open, sent, wrote, torn, readerVars>>

\* The loop is over: return 1.
SendReturn ==
  /\ sender.pc = "sending" /\ sender.towrite <= 0
  /\ sender' = [sender EXCEPT !.pc = "idle"]
  /\ UNCHANGED <<stream, open, sent, wrote, torn, readerVars>>

-------------------------------------------------------------------------------
\* readMessage.

CallRead ==
  /\ reader.pc = "idle" /\ "in" \in open
  /\ reader' = [Idle EXCEPT !.pc = "count"]
  /\ UNCHANGED <<stream, open, senderVars, received, torn>>

\* The bytes the current loop still wants.
Wanted == (IF reader.pc = "payload" THEN reader.frameLength ELSE WordSize) - Len(reader.bytes)

\* Mutant: one frame too many, i <= frames.
NextFrameExtra(frames, m) ==
  IF Len(m) > frames
    THEN reader' = Idle /\ received' = Append(received, m)
    ELSE /\ reader' = [Idle EXCEPT !.pc = "length", !.frames = frames, !.m = m]
         /\ UNCHANGED received

\* On to the next frame of m, or return 1 after the last one.
NextFrame(frames, m) ==
  IF Len(m) = frames
    THEN reader' = Idle /\ received' = Append(received, m)
    ELSE /\ reader' = [Idle EXCEPT !.pc = "length", !.frames = frames, !.m = m]
         /\ UNCHANGED received

\* One of the three loops has what it wanted.
Complete(bytes) ==
  LET n == WordValue(bytes)
  IN  CASE reader.pc = "count" -> NextFrame(n, <<>>)
        [] reader.pc = "length" /\ n = 0 -> NextFrame(reader.frames, Append(reader.m, <<>>))
        [] reader.pc = "length" /\ n > 0 ->
             /\ reader' = [reader EXCEPT !.pc = "payload", !.bytes = <<>>, !.frameLength = n]
             /\ UNCHANGED received
        [] reader.pc = "payload" -> NextFrame(reader.frames, Append(reader.m, bytes))

\* Mutant: does not ask again when a read returned fewer bytes than wanted.
ReadSomeOnce ==
  /\ reader.pc # "idle"
  /\ \E k \in 1..Wanted :
       /\ k <= Len(stream)
       /\ stream' = SubSeq(stream, k + 1, Len(stream))
       /\ Complete(SubSeq(stream, 1, k))
  /\ UNCHANGED <<open, senderVars, torn>>

\* line->read returns some of the bytes.
ReadSome ==
  /\ reader.pc # "idle"
  /\ \E k \in 1..Wanted :
       /\ k <= Len(stream)
       /\ stream' = SubSeq(stream, k + 1, Len(stream))
       /\ LET bytes == reader.bytes \o SubSeq(stream, 1, k)
          IN  IF k = Wanted THEN Complete(bytes)
              ELSE reader' = [reader EXCEPT !.bytes = bytes] /\ UNCHANGED received
  /\ UNCHANGED <<open, senderVars, torn>>

\* line->read returns eTimeout or eConnectionLost, and readMessage returns it:
\* what was read of the message is gone.
ReadFails ==
  /\ reader.pc # "idle" /\ stream = <<>>
  /\ "in" \in Timeouts \/ "out" \notin open
  /\ reader' = Idle
  /\ torn' = IF reader = [Idle EXCEPT !.pc = "count"] THEN torn ELSE torn \cup {"in"}
  /\ UNCHANGED <<stream, open, senderVars, received>>

-------------------------------------------------------------------------------

\* A line is destroyed by its user, between two calls.
HangUp(e) ==
  /\ e \in HangUps \cap open
  /\ IF e = "in" THEN reader.pc = "idle" ELSE sender.pc = "idle"
  /\ open' = open \ {e}
  /\ UNCHANGED <<stream, senderVars, readerVars, torn>>

Next ==
  \/ \E m \in Messages : CallSend(m)
  \/ WriteSome \/ WriteWaits \/ WriteTooBig \/ WriteFails \/ SendReturn
  \/ CallRead \/ ReadSome \/ ReadFails
  \/ \E e \in {"in", "out"} : HangUp(e)

Spec == Init /\ [][Next]_vars

\* A thread that runs goes on, and a write that waits for room finds it when the
\* other end reads: an inproc read notifies the writers when it begins, not when it
\* has made room (inproc.cpp:135).  No line has to end a wait because the other end
\* hung up, and nobody has to call or to hang up.
FairSpec ==
  /\ Spec
  /\ WF_vars(sender.write = "none" /\ (WriteSome \/ WriteWaits \/ WriteTooBig \/ WriteFails \/ SendReturn))
  /\ WF_vars(reader.pc # "idle" /\ WriteSome)
  /\ WF_vars(ReadSome)

-------------------------------------------------------------------------------

\* The line takes the message: it does not refuse it with eTooBigBuffer.
Fits(m) == MessageSize(m) <= Capacity

\* The messages of s that the line takes, among the first i and among all of them.
TakenOf(s) ==
  LET t[i \in 0..Len(s)] == IF i = 0 THEN <<>>
                            ELSE IF Fits(s[i]) THEN Append(t[i - 1], s[i]) ELSE t[i - 1]
  IN  t

Taken(s) == TakenOf(s)[Len(s)]

(***************************************************************************)
(* As long as no call on the line failed in the middle of a message, what   *)
(* readMessage returns are the messages passed to sendMessage, unchanged    *)
(* and in order, however the line cuts the bytes into pieces; none but the  *)
(* ones that are too big for the line is left out, and a timeout between    *)
(* two messages is harmless (message.cpp:156-199 against :102-115 and       *)
(* :201-214).                                                               *)
(***************************************************************************)
UntornInOrder == torn = {} => IsPrefix(received, Taken(sent))

(***************************************************************************)
(* sendMessage of a message that fits returns 1 only when the line has      *)
(* taken all of it, as long as no write failed (message.cpp:207-213).       *)
(***************************************************************************)
FittingIsSent ==
  sender.pc = "idle" /\ sent # <<>> /\ Fits(Last(sent)) /\ "out" \notin torn
    => wrote = MessageSize(Last(sent))

(***************************************************************************)
(* The parser of a buffer and the writer agree: the buffer that sendMessage *)
(* makes gives back the message, and a part of it that has the whole count  *)
(* word is refused, wherever it is cut and whatever lies behind it in       *)
(* memory (message.cpp:58-80 against :91-115).                              *)
(***************************************************************************)
BufferRoundTrip ==
  sender.pc = "sending" /\ sender.data = 0 => \A junk \in Byte :
    LET whole == ReadBuffer(sender.buffer, junk)
    IN  /\ whole.m = Last(sent) /\ ~whole.error
        /\ whole.current = Len(sender.buffer) /\ Len(sender.buffer) = MessageSize(Last(sent))
        /\ \A n \in WordSize..(Len(sender.buffer) - 1) :
             ReadBuffer(SubSeq(sender.buffer, 1, n), junk).error

(***************************************************************************)
(* A reader inside readMessage that finds bytes on the line gets its        *)
(* message: it is all there or on its way, also when the sender has hung up *)
(* or when the line has less room than the message needs, since the loops   *)
(* of the two ends do not wait for each other (message.cpp:207-212 and      *)
(* :161-196).                                                               *)
(***************************************************************************)
ReadCompletes ==
  (reader.pc # "idle" /\ stream # <<>>) ~> (reader.pc = "idle" \/ torn # {})

(***************************************************************************)
(* sendMessage comes back when the other end hangs up while it is not       *)
(* asleep in a write.  It does so only because the error codes, subtracted  *)
(* from towrite, make it overflow in the end (message.cpp:207-212), and on  *)
(* lines with negative error codes only.  Nothing is promised of a write    *)
(* that is asleep on a full line: an inproc one sleeps for good.            *)
(***************************************************************************)
SendReturns ==
  (sender.pc = "sending" /\ sender.write = "none" /\ "in" \notin open) ~> sender.pc = "idle"

-------------------------------------------------------------------------------
\* What the repository expects of the protocol and the code does not give.

(***************************************************************************)
(* sendMessage returns 1 only when the line has taken the whole message, as *)
(* its callers assume.  Violated: an error code of write is subtracted from *)
(* towrite until the loop ends (message.cpp:207-213).                       *)
(***************************************************************************)
SuccessMeansSent ==
  sender.pc = "idle" /\ sent # <<>> => wrote = MessageSize(Last(sent))
===============================================================================
