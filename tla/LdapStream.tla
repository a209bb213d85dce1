----------------------------- MODULE LdapStream -----------------------------
(***************************************************************************)
(* One direction of a connection, whatever the messages say: one side      *)
(* sends messages, TCP carries their bytes in order but cuts them          *)
(* anywhere, the other side frames the bytes and takes one message after   *)
(* the other out of its buffer.  LdapExchange contains this twice.         *)
(***************************************************************************)
EXTENDS LdapFraming, SequencesExt

VARIABLES
    messages,  \* the messages sent, in order
    wire,      \* bytes on their way
    side,      \* the receiver's buffer and framing
    taken      \* number of messages taken out of the buffer

vars == <<messages, wire, side, taken>>

\* Lengths up to this one are written in three octets or less.
MaxContent == 16777215

\* What the generators write: a sequence with its length, no shorter than the
\* bytes the framing waits for.
IsMessage(m) ==
    /\ m \in Seq(Byte) /\ Len(m) >= MinHeader
    /\ \E n \in 2 .. 5 :
          Len(m) - n <= MaxContent /\ m = Tagged(48, SubSeq(m, n + 1, Len(m)))

Init ==
    /\ messages = <<>> /\ wire = <<>> /\ taken = 0
    /\ side = [buffer |-> <<>>, frame |-> NoFrame]

Send(m) ==
    /\ messages' = Append(messages, m)
    /\ IsMessage(m)
    /\ wire' = wire \o m
    /\ UNCHANGED <<side, taken>>

Receive(n) ==
    /\ side' = [side EXCEPT !.buffer = @ \o SubSeq(wire, 1, n)]
    /\ wire' = SubSeq(wire, n + 1, Len(wire))
    /\ UNCHANGED <<messages, taken>>

Decode ==
    LET x == Framed(side)
    IN  /\ \/ Complete(x) /\ side' = Taken(x) /\ taken' = taken + 1
           \/ ~Complete(x) /\ side' = x /\ UNCHANGED taken
        /\ UNCHANGED <<messages, wire>>

\* Any message may be sent: it is the last one sent afterwards.
Next ==
    \/ \E m \in Range(messages') : Send(m)
    \/ \E n \in 1 .. Len(wire) : Receive(n)
    \/ Decode

Spec == Init /\ [][Next]_vars

-----------------------------------------------------------------------------

\* The messages that are still to be taken.
Pending == SubSeq(messages, taken + 1, Len(messages))

(***************************************************************************)
(* Wherever the bytes are cut, the framing stays in step with the          *)
(* messages: what is in the buffer and on the way are the messages not yet *)
(* taken, from the first byte of the next one on; the next one is found    *)
(* complete as soon as its last byte is there, no sooner and no later; and *)
(* the bytes the decoder is then given are that message.                   *)
(***************************************************************************)
FramingInStep ==
    LET x == Framed(side)
    IN  /\ side.buffer \o wire = FlattenSeq(Pending)
        /\ Complete(x) <=> Pending # <<>> /\ Len(Pending[1]) <= Len(side.buffer)
        /\ Complete(x) => SubSeq(FromBody(x), 1, x.frame.length) = Pending[1]
=============================================================================
