---------------------------- MODULE StreamFrames ----------------------------
(* docker-client.ts demultiplex: the output of an exec comes as frames (a  *)
(* header naming the stream and the length, then the payload), cut into    *)
(* chunks anywhere, and is split back into stdout and stderr.  The daemon  *)
(* writes a sequence of frames; bytes are numbered in the order it writes  *)
(* them, and a header is one that tells the stream and the size.           *)
EXTENDS Naturals, Sequences

CONSTANTS
    HeaderBytes,  \* 8
    MaxPayload,   \* bound: payload bytes of a frame
    MaxFrames     \* bound: frames of the output

ASSUME HeaderAssumption == HeaderBytes \in Nat \ {0}

VARIABLES
    wire,     \* all bytes the daemon writes, as frames written so far
    sent,     \* bytes of the wire that have come in as chunks
    pending,  \* bytes kept until the rest of the frame arrives
    stdout, stderr, \* bytes written to each stream
    ended     \* "open", "end" or "error"

frameVars == <<wire, sent, pending, stdout, stderr, ended>>

Streams == {"stdout", "stderr"}

(* The bytes of a frame: its header bytes carry the stream and the size.   *)
Frame(stream, size, first) ==
    [i \in 1..(HeaderBytes + size) |->
        [at |-> first + i, stream |-> stream, size |-> size,
         part |-> IF i <= HeaderBytes THEN "header" ELSE "payload"]]

FramesInit ==
    /\ wire = <<>> /\ sent = 0 /\ pending = <<>>
    /\ stdout = <<>> /\ stderr = <<>> /\ ended = "open"

DaemonWrites ==
    /\ ended = "open"
    /\ \E stream \in Streams, size \in 0..MaxPayload :
        /\ Len(wire) + HeaderBytes + size <= MaxFrames * (HeaderBytes + MaxPayload)
        /\ wire' = wire \o Frame(stream, size, Len(wire))
    /\ UNCHANGED <<sent, pending, stdout, stderr, ended>>

HasFrame(bytes) ==
    Len(bytes) >= HeaderBytes /\ Len(bytes) >= HeaderBytes + bytes[1].size

(* One turn of the loop over what is pending: nothing can be taken off, or *)
(* the payload of the first frame is written to its stream.                *)
Turn(s) ==
    LET frame == HeaderBytes + s.rest[1].size
        data  == SubSeq(s.rest, HeaderBytes + 1, frame)
        rest  == SubSeq(s.rest, frame + 1, Len(s.rest))
    IN IF ~HasFrame(s.rest) THEN s
       ELSE IF s.rest[1].stream = "stderr"
            THEN [rest |-> rest, stdout |-> s.stdout, stderr |-> s.stderr \o data]
            ELSE [rest |-> rest, stdout |-> s.stdout \o data, stderr |-> s.stderr]

(* The loop: every turn but the last takes a header off at least.          *)
Split(bytes) ==
    LET turns[k \in 0..Len(bytes)] ==
            IF k = 0 THEN [rest |-> bytes, stdout |-> stdout, stderr |-> stderr]
            ELSE Turn(turns[k - 1])
    IN turns[Len(bytes)]

\* Mutant: a chunk is split by itself, without what was kept of the last one.
DataAlone ==
    /\ ended = "open"
    /\ \E to \in (sent + 1)..Len(wire) :
        LET s == Split(SubSeq(wire, sent + 1, to)) IN
        sent' = to /\ pending' = s.rest /\ stdout' = s.stdout /\ stderr' = s.stderr
    /\ UNCHANGED <<wire, ended>>

(* A chunk of any length comes in, and what is whole is passed on.         *)
Data ==
    /\ ended = "open"
    /\ \E to \in (sent + 1)..Len(wire) :
        LET s == Split(pending \o SubSeq(wire, sent + 1, to)) IN
        sent' = to /\ pending' = s.rest /\ stdout' = s.stdout /\ stderr' = s.stderr
    /\ UNCHANGED <<wire, ended>>

End == ended = "open" /\ ended' = "end" /\ UNCHANGED <<wire, sent, pending, stdout, stderr>>

SourceFails ==
    ended = "open" /\ ended' = "error" /\ UNCHANGED <<wire, sent, pending, stdout, stderr>>

FramesNext == DaemonWrites \/ Data \/ End \/ SourceFails

FramesSpec == FramesInit /\ [][FramesNext]_frameVars
-----------------------------------------------------------------------------
(* The log holds the payload bytes of the stream among the first n bytes   *)
(* of the wire: those and no others, each once, in their order.            *)
IsPayload(log, stream, bytes, n) ==
    /\ \A i \in DOMAIN log : log[i].at \in 1..n /\ log[i] = bytes[log[i].at]
                             /\ log[i].stream = stream /\ log[i].part = "payload"
    /\ \A i, j \in DOMAIN log : i < j => log[i].at < log[j].at
    /\ \A k \in 1..n : bytes[k].stream = stream /\ bytes[k].part = "payload"
                          => \E i \in DOMAIN log : log[i] = bytes[k]

(* However the output is cut into chunks, what has come out of a stream is *)
(* a beginning of the payload written to it, in order and whole; what is   *)
(* kept back is less than a frame, so when the last frame has come in all  *)
(* of it has come out (docker-client.ts:121-124, :130-138).                *)
FramesComeOutWhole ==
    LET cut == sent - Len(pending) IN
    /\ IsPayload(stdout, "stdout", wire, cut)
    /\ IsPayload(stderr, "stderr", wire, cut)
    /\ pending = SubSeq(wire, cut + 1, sent) /\ ~HasFrame(pending)
    /\ sent = Len(wire) => pending = <<>>
=============================================================================
