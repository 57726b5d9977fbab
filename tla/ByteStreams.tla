---------------------------- MODULE ByteStreams ----------------------------
(***************************************************************************)
(* What the connection layer of SAAC promises its main loop, without the   *)
(* memory pool: per connection a stream of received bytes handed out line  *)
(* by line, and a stream of bytes to send.  A message is queued whole or   *)
(* refused whole, nothing is reordered, and a peer's end of file is acted  *)
(* on only when no complete line is left to deliver (saac/tcp_struct.c).   *)
(***************************************************************************)
EXTENDS Naturals, Sequences

CONSTANTS
  Conns,     \* connection indices
  NL,        \* the byte '\n'
  Bad,       \* lines whose dispatch logs the server out
  Chunks,    \* what one read or one message may carry
  MaxLine    \* longest line the caller's buffer takes

VARIABLES
  open,      \* open[c]: the connection exists
  eof,       \* eof[c]: closed_by_remote
  in, out    \* bytes received and not delivered; queued and not sent

streams == <<open, eof, in, out>>

StreamsInit ==
  /\ open = [c \in Conns |-> FALSE]
  /\ eof = [c \in Conns |-> FALSE]
  /\ in = [c \in Conns |-> <<>>]
  /\ out = [c \in Conns |-> <<>>]

(* The first line of s, without its end, has n bytes.                      *)
LineOf(s, n) ==
  /\ n + 1 \in DOMAIN s
  /\ s[n + 1] = NL
  /\ \A i \in 1 .. n : s[i] # NL

HasLine(s) == \E i \in DOMAIN s : s[i] = NL

Open(c) ==
  /\ ~open[c]
  /\ open' = [open EXCEPT ![c] = TRUE]
  /\ eof' = [eof EXCEPT ![c] = FALSE]
  /\ UNCHANGED <<in, out>>

Arrive(c, d) ==
  /\ open[c] /\ ~eof[c]
  /\ UNCHANGED <<open, eof, out>>
  /\ in' = [in EXCEPT ![c] = @ \o d]

Finish(c) ==
  /\ open[c] /\ ~eof[c]
  /\ eof' = [eof EXCEPT ![c] = TRUE]
  /\ UNCHANGED <<open, in, out>>

Enqueue(c, d) ==
  /\ open[c]
  /\ UNCHANGED <<open, eof, in>>
  /\ out' = [out EXCEPT ![c] = @ \o d]

Transmit(c, n) ==
  /\ open[c] /\ ~eof[c]
  /\ UNCHANGED <<open, eof, in>>
  /\ out' = [out EXCEPT ![c] = SubSeq(@, n + 1, Len(@))]

Discard(c) ==
  /\ open' = [open EXCEPT ![c] = FALSE]
  /\ in' = [in EXCEPT ![c] = <<>>]
  /\ out' = [out EXCEPT ![c] = <<>>]
  /\ UNCHANGED eof

(* A line leaves whole, unless it is one that logs the server out.         *)
Deliver(c, n) ==
  /\ open[c]
  /\ n <= MaxLine
  /\ LineOf(in[c], n)
  /\ IF SubSeq(in[c], 1, n) \in Bad
       THEN Discard(c)
       ELSE /\ UNCHANGED <<open, eof, out>>
            /\ in' = [in EXCEPT ![c] = SubSeq(@, n + 2, Len(@))]

(* The connection ends for want of a deliverable line, never before.       *)
GiveUp(c) ==
  /\ open[c]
  /\ \/ eof[c] /\ ~HasLine(in[c])
     \/ \E n \in 0 .. Len(in[c]) : n > MaxLine /\ LineOf(in[c], n)
  /\ Discard(c)

StreamsNext ==
  \E c \in Conns :
    \/ Open(c) \/ Finish(c) \/ GiveUp(c)
    \/ \E d \in Chunks : Arrive(c, d) \/ Enqueue(c, d)
    \/ \E n \in 0 .. Len(in[c]) : Deliver(c, n)
    \/ \E n \in 1 .. Len(out[c]) : Transmit(c, n)

StreamsSpec == StreamsInit /\ [][StreamsNext]_streams
=============================================================================
