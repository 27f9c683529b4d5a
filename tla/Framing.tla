------------------------------- MODULE Framing ------------------------------
(***************************************************************************)
(* How the messages of one direction of a connection become bytes and      *)
(* messages again (src/src/codec.rs): the sender writes frames, a length   *)
(* and a payload; TCP hands the bytes over in pieces of any size; Framed   *)
(* collects them in a buffer and asks the decoder for one frame at a time. *)
(* The first frame is the Hello that perform_handshake reads, the others   *)
(* go to the server task; both use the same buffer.                        *)
(***************************************************************************)
EXTENDS Integers, Sequences, SequencesExt

CONSTANTS
    Payload,     \* the bytes of the messages, as serde_json writes them
    Garbage,     \* payloads that serde_json refuses
    Hello,       \* the payload of the Hello of the sender
    Base,        \* values of a byte, 256 in the code: small, so that lengths
                 \* need more than the last byte of the header
    MaxFrames    \* bound: frames written

\* What a byte of the header counts, from the first to the last.
Weight == <<Base * Base * Base, Base * Base, Base, 1>>
HeaderLen == Len(Weight)

ASSUME PayloadAssumption ==
    /\ Base \in Nat /\ Base >= 2
    /\ Hello \in Payload /\ Payload \intersect Garbage = {}
    /\ \A m \in Payload \union Garbage :
          m \in Seq(0 .. Base - 1) /\ Len(m) \in 1 .. Base * Weight[1] - 1

VARIABLES
    sent,       \* the payloads written
    stream,     \* bytes in the sockets and on the way
    buffer,     \* BytesMut of the receiving Framed
    readable,   \* the buffer may hold a frame that was not looked at
    phase,      \* of the receiver: "greeting", "reading" or "ended"
    handed,     \* the payloads decoded, the Hello included
    open        \* the sender can still write and nothing has been lost

vars == <<sent, stream, buffer, readable, phase, handed, open>>

-----------------------------------------------------------------------------
(* The codec                                                               *)

Header(n) == [i \in 1 .. HeaderLen |-> (n \div Weight[i]) % Base]

Encode(m) == Header(Len(m)) \o m

Length(b) ==
    Weight[1] * b[1] + Weight[2] * b[2] + Weight[3] * b[3] + Weight[4] * b[4]

\* Mutant: a frame counts as complete when more than it has arrived.
CompleteAndMore(b) == Len(b) >= HeaderLen /\ Len(b) > HeaderLen + Length(b)

Complete(b) == Len(b) >= HeaderLen /\ Len(b) >= HeaderLen + Length(b)

FirstPayload(b) == SubSeq(b, HeaderLen + 1, HeaderLen + Length(b))
AfterFirst(b) == SubSeq(b, HeaderLen + Length(b) + 1, Len(b))

-----------------------------------------------------------------------------
(* The sender and TCP                                                      *)

\* perform_handshake writes the Hello, framed_writer everything else.
Write(m) ==
    /\ open /\ Len(sent) < MaxFrames /\ (m = Hello \/ sent # <<>>)
    /\ sent' = Append(sent, m)
    /\ stream' = stream \o Encode(m)
    /\ UNCHANGED <<buffer, readable, phase, handed, open>>

\* The sender closes the connection, or it fails: what was on the way may be
\* lost from some byte on.
Close ==
    /\ open /\ open' = FALSE
    /\ \E i \in 0 .. Len(stream) : stream' = SubSeq(stream, 1, i)
    /\ UNCHANGED <<sent, buffer, readable, phase, handed>>

\* Framed reads when the decoder has nothing more to give.
Arrive ==
    /\ phase # "ended" /\ ~ readable
    /\ \E i \in 1 .. Len(stream) :
          /\ buffer' = buffer \o SubSeq(stream, 1, i)
          /\ stream' = SubSeq(stream, i + 1, Len(stream))
    /\ readable' = TRUE
    /\ UNCHANGED <<sent, phase, handed, open>>

\* The end of the stream: with or without the start of a frame in the buffer,
\* no frame follows.
EndOfStream ==
    /\ phase # "ended" /\ ~ readable /\ ~ open /\ stream = <<>>
    /\ phase' = "ended"
    /\ UNCHANGED <<sent, stream, buffer, readable, handed, open>>

-----------------------------------------------------------------------------
(* The decoder and who calls it                                            *)

Looks == phase # "ended" /\ readable

NeedsMore ==
    /\ Looks /\ ~ Complete(buffer)
    /\ readable' = FALSE
    /\ UNCHANGED <<sent, stream, buffer, phase, handed, open>>

\* Mutant: the tasks of the connection start with a buffer of their own.
SplitAnew ==
    /\ Looks /\ Complete(buffer) /\ FirstPayload(buffer) \in Payload
    /\ phase = "reading" \/ FirstPayload(buffer) = Hello
    /\ phase' = "reading"
    /\ handed' = Append(handed, FirstPayload(buffer))
    /\ buffer' = IF phase = "greeting" THEN <<>> ELSE AfterFirst(buffer)
    /\ UNCHANGED <<sent, stream, readable, open>>

\* The handshake takes the first frame and only a Hello; the framed stream is
\* then split, and its reader takes the others.
TakeFrame ==
    /\ Looks /\ Complete(buffer) /\ FirstPayload(buffer) \in Payload
    /\ phase = "reading" \/ FirstPayload(buffer) = Hello
    /\ phase' = "reading"
    /\ handed' = Append(handed, FirstPayload(buffer))
    /\ buffer' = AfterFirst(buffer)
    /\ UNCHANGED <<sent, stream, readable, open>>

\* A frame that serde_json refuses is gone from the buffer. The handshake
\* fails; the reader asks for the next frame, and it is up to Framed whether
\* there is one or the stream counts as ended.
RefuseFrame ==
    /\ Looks /\ Complete(buffer) /\ FirstPayload(buffer) \notin Payload
    /\ buffer' = AfterFirst(buffer)
    /\ phase' \in {phase, "ended"} \ {"greeting"}
    /\ UNCHANGED <<sent, stream, readable, handed, open>>

\* A first frame that is no Hello, or five seconds without one.
GiveUp ==
    /\ phase = "greeting"
    /\ phase' = "ended"
    /\ UNCHANGED <<sent, stream, buffer, readable, handed, open>>

-----------------------------------------------------------------------------
(* Specification                                                           *)

Init ==
    /\ sent = <<>> /\ stream = <<>> /\ buffer = <<>> /\ handed = <<>>
    /\ readable = FALSE /\ phase = "greeting" /\ open = TRUE

Decode == NeedsMore \/ TakeFrame \/ RefuseFrame

Next ==
    \/ \E m \in Payload \union Garbage : Write(m)
    \/ Close \/ Arrive \/ EndOfStream \/ Decode \/ GiveUp

Spec == Init /\ [][Next]_vars

\* Bytes arrive in the end, and the receiver looks at them.
FairSpec == Spec /\ WF_vars(Arrive) /\ WF_vars(Decode)

-----------------------------------------------------------------------------
(* Properties                                                              *)

Frames(ms) == FlattenSeq([i \in DOMAIN ms |-> Encode(ms[i])])
Valid(ms) ==
    FlattenSeq([i \in DOMAIN ms |-> IF ms[i] \in Payload THEN <<ms[i]>> ELSE <<>>])

\* However the bytes are cut into pieces, the buffer always starts with a
\* frame: what has been decoded are the valid payloads sent so far, in order
\* and once each, and the buffer and the bytes on the way are the rest of the
\* frames, up to where the connection was lost. It is this that makes a link
\* of MiniRaft a FIFO queue of which a failure loses the end.
InOrderAndAligned ==
    \E n \in 0 .. Len(sent) :
        LET rest == Frames(SubSeq(sent, n + 1, Len(sent))) IN
        /\ handed = Valid(SubSeq(sent, 1, n))
        /\ IF open THEN buffer \o stream = rest
                   ELSE IsPrefix(buffer \o stream, rest)

\* A message is decoded in the end, without another one that pushes it out,
\* unless the connection ends or has carried a payload that is refused.
EveryFrameArrives ==
    \A k \in 1 .. MaxFrames :
        Len(sent) >= k /\ ToSet(sent) \subseteq Payload
        ~> \/ Len(handed) >= k \/ ~ open \/ phase = "ended"
           \/ ~ (ToSet(sent) \subseteq Payload)

=============================================================================
