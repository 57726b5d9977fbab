----------------------------- MODULE MemBuffer -----------------------------
(***************************************************************************)
(* The connection buffers of SAAC (saac/main.c 772-984, tcp_struct.c).     *)
(* All connections share one pool of small buffers.  A connection owns two *)
(* chains, received bytes and bytes to send; a chain is modelled as the    *)
(* sequence of the indices its next links visit.  Every call runs to its   *)
(* end inside the single main loop; the loop's fixed order of connections  *)
(* is abstracted to any order.                                             *)
(***************************************************************************)
EXTENDS Integers, Sequences, FiniteSets, SequencesExt

CONSTANTS
  Size,      \* g_mem_buffer_size
  BufSize,   \* sizeof(g_mem_buffer[0].buf)
  Conns,     \* usable indices of g_con (1 .. MAXCONNECTION - 1)
  NL,        \* '\n'
  MaxLine,   \* sizeof(sTcpBuf) - 1
  Bad,       \* malformed or unauthenticated requests, and ACServerLogout
  PeekSize,  \* sizeof(send_buf)
  MaxQueue,  \* bound of the model: no more than this many bytes queued before
             \* another chunk is appended
  Reads,     \* what a peer may send at once
  Writes     \* the messages SAAC may answer with

ASSUME MemBufferAssumption ==
  /\ Size \in Nat \ {0} /\ BufSize \in Nat \ {0}
  /\ MaxLine \in Nat /\ MaxQueue \in Nat /\ PeekSize \in Nat \ {0}
  /\ Conns \subseteq Nat
  /\ \A d \in Reads \union Writes : d # <<>> /\ d \in Seq(Range(d))

VARIABLES
  g_mem_buffer,         \* [use, data]: len is Len(data)
  g_mem_buffer_used,
  g_mem_buffer_finder,
  g_con                 \* [use, closed_by_remote, ri, wi]

pool == <<g_mem_buffer, g_mem_buffer_used, g_mem_buffer_finder>>
vars == <<pool, g_con>>

Bufs == 0 .. Size - 1
Blank == [use |-> FALSE, data |-> <<>>]
NoSession == [use |-> FALSE, closed_by_remote |-> FALSE, ri |-> <<>>, wi |-> <<>>]

Init ==
  /\ g_mem_buffer = [b \in Bufs |-> Blank]
  /\ g_mem_buffer_used = 0
  /\ g_mem_buffer_finder = 0
  /\ g_con = [c \in Conns |-> NoSession]

getFreeMem == (Size - g_mem_buffer_used) * BufSize

(* allocateMemBuf called n times: the free buffers met first, going round  *)
(* from g_mem_buffer_finder.                                               *)
Free == {b \in Bufs : ~g_mem_buffer[b].use}
Turn(b) == IF b > g_mem_buffer_finder THEN b - g_mem_buffer_finder
                                      ELSE b - g_mem_buffer_finder + Size
allocateMemBuf(n) ==
  [i \in 1 .. n |->
     CHOOSE b \in Free : Cardinality({f \in Free : Turn(f) < Turn(b)}) = i - 1]

Contents(ch) == FlattenSeq([i \in DOMAIN ch |-> g_mem_buffer[ch[i]].data])

(* The byte streams the chains stand for.                                  *)
open == [c \in Conns |-> g_con[c].use]
eof  == [c \in Conns |-> g_con[c].closed_by_remote]
in   == [c \in Conns |-> Contents(g_con[c].ri)]
out  == [c \in Conns |-> Contents(g_con[c].wi)]

Lines == INSTANCE ByteStreams WITH Chunks <- Reads \union Writes

-----------------------------------------------------------------------------
(* Variant: the blank of a buffer taken to be the whole of it.             *)
Room_whole(b) == BufSize

Room(b) == BufSize - Len(g_mem_buffer[b].data)

(* The pieces appendMemBufList cuts d into: the blank of the last buffer,  *)
(* then a fresh buffer at a time.  Upto is where the i-th of them ends.    *)
Upto(d, blank, i) == IF blank + i * BufSize < Len(d) THEN blank + i * BufSize ELSE Len(d)
Piece(d, blank, i) == SubSeq(d, Upto(d, blank, i - 1) + 1, Upto(d, blank, i))

Ceil(n) == (n + BufSize - 1) \div BufSize

(* appendMemBufList: d goes to the end of chain ch whole, or (len >= free) *)
(* not at all.                                                             *)
Appendable(d) == Len(d) < getFreeMem

AppendMemBufList(ch, d) ==
  LET last  == ch[Len(ch)]
      blank == Room(last)
      n     == IF Len(d) <= blank THEN 0 ELSE Ceil(Len(d) - blank)
      new   == allocateMemBuf(n)
  IN  [chain  |-> ch \o new,
       mem    |-> [b \in Bufs |->
                    IF b = last THEN [use |-> TRUE, data |-> g_mem_buffer[b].data \o
                                                     SubSeq(d, 1, Upto(d, blank, 0))]
                    ELSE IF \E i \in 1 .. n : new[i] = b
                      THEN [use |-> TRUE,
                            data |-> Piece(d, blank, CHOOSE i \in 1 .. n : new[i] = b)]
                    ELSE g_mem_buffer[b]],
       used   |-> g_mem_buffer_used + n,
       finder |-> IF n = 0 THEN g_mem_buffer_finder ELSE new[n]]

(* consumeMemBufList with is_consume: up to max bytes leave the front of   *)
(* the chain.  Left is what remains in the chain's i-th buffer.            *)
Before(ch, i) == Len(Contents(SubSeq(ch, 1, i - 1)))
Left(ch, max, i) ==
  LET data == g_mem_buffer[ch[i]].data
      gone == IF Before(ch, i) < max THEN max - Before(ch, i) ELSE 0
  IN  SubSeq(data, gone + 1, Len(data))

(* Variant: buffers left empty stay linked in the chain.                   *)
Emptied_none(ch, max) == {}

Emptied(ch, max) == {i \in 2 .. Len(ch) : Left(ch, max, i) = <<>>}

(* Its second loop releases every buffer left empty behind the head and    *)
(* links the head to what follows it: after the loop, to what follows the  *)
(* last of them.                                                           *)
Consume(ch, max) ==
  LET empty == Emptied(ch, max)
      last  == CHOOSE i \in {1} \union empty : \A j \in empty : j <= i
      at(b) == CHOOSE i \in DOMAIN ch : ch[i] = b
  IN  [chain  |-> <<ch[1]>> \o SubSeq(ch, last + 1, Len(ch)),
       mem    |-> [b \in Bufs |->
                    IF ~\E i \in DOMAIN ch : ch[i] = b THEN g_mem_buffer[b]
                    ELSE IF at(b) \in empty THEN Blank
                    ELSE [use |-> TRUE, data |-> Left(ch, max, at(b))]],
       used   |-> g_mem_buffer_used - Cardinality(empty),
       finder |-> g_mem_buffer_finder]

Becomes(r) ==
  /\ g_mem_buffer' = r.mem
  /\ g_mem_buffer_used' = r.used
  /\ g_mem_buffer_finder' = r.finder

-----------------------------------------------------------------------------
(* tcpstruct_accept, one readable connection.                              *)
MarkRemoteClosed(c) ==
  /\ g_con' = [g_con EXCEPT ![c].closed_by_remote = TRUE]
  /\ UNCHANGED pool

Polled(c) == g_con[c].use /\ ~g_con[c].closed_by_remote

Read(c) ==
  /\ Polled(c)
  /\ \/ MarkRemoteClosed(c)         \* read gave 0 or an error, or fr <= 1
     \/ /\ getFreeMem > 1
        /\ \E d \in Reads :
             /\ Len(d) <= getFreeMem - 1
             /\ Len(Contents(g_con[c].ri)) <= MaxQueue
             /\ IF Appendable(d)
                  THEN LET r == AppendMemBufList(g_con[c].ri, d) IN
                       /\ Becomes(r)
                       /\ g_con' = [g_con EXCEPT ![c].ri = r.chain]
                  ELSE MarkRemoteClosed(c)

(* The same, one writable connection: a peek of at most PeekSize bytes, of *)
(* which the socket takes some, or fails.                                  *)
Send(c) ==
  /\ Polled(c)
  /\ Contents(g_con[c].wi) # <<>>
  /\ \/ \E n \in 1 .. PeekSize :
          /\ n <= Len(Contents(g_con[c].wi))
          /\ LET r == Consume(g_con[c].wi, n) IN
             /\ Becomes(r)
             /\ g_con' = [g_con EXCEPT ![c].wi = r.chain]
     \/ MarkRemoteClosed(c)

(* Variant: forgets the chain of bytes to send.                            *)
tcpstruct_close_leaks(c) ==
  LET mine == {b \in Bufs : \E i \in DOMAIN g_con[c].ri : g_con[c].ri[i] = b}
  IN  /\ g_mem_buffer' = [b \in Bufs |-> IF b \in mine THEN Blank ELSE g_mem_buffer[b]]
      /\ g_mem_buffer_used' =
           g_mem_buffer_used - Len(g_con[c].ri)
      /\ g_con' = [g_con EXCEPT ![c].use = FALSE, ![c].ri = <<>>, ![c].wi = <<>>]
      /\ UNCHANGED g_mem_buffer_finder

(* The two heads go back too, after everything behind them.                *)
tcpstruct_close(c) ==
  LET mine == {b \in Bufs : \E i \in DOMAIN g_con[c].ri : g_con[c].ri[i] = b}
              \union {b \in Bufs : \E i \in DOMAIN g_con[c].wi : g_con[c].wi[i] = b}
  IN  /\ g_mem_buffer' = [b \in Bufs |-> IF b \in mine THEN Blank ELSE g_mem_buffer[b]]
      /\ g_mem_buffer_used' =
           g_mem_buffer_used - Len(g_con[c].ri) - Len(g_con[c].wi)
      /\ g_con' = [g_con EXCEPT ![c].use = FALSE, ![c].ri = <<>>, ![c].wi = <<>>]
      /\ UNCHANGED g_mem_buffer_finder

(* findregBlankCon and accept, when the listening socket is readable.      *)
FirstBlank(c) == ~g_con[c].use /\ \A d \in Conns : d < c => g_con[d].use

Accept(c) ==
  LET n == IF Cardinality(Free) < 2 THEN Cardinality(Free) ELSE 2
      new == allocateMemBuf(n)
      last == IF n = 0 THEN g_mem_buffer_finder ELSE new[n]
      found == [b \in Bufs |-> IF b \in {new[1], new[2]} THEN [use |-> TRUE, data |-> <<>>]
                                                         ELSE g_mem_buffer[b]]
  IN  /\ FirstBlank(c)
      /\ \/ /\ n = 2                          \* accepted
            /\ Becomes([mem |-> found, used |-> g_mem_buffer_used + 2, finder |-> last])
            /\ g_con' = [g_con EXCEPT ![c] =
                 [use |-> TRUE, closed_by_remote |-> FALSE,
                  ri |-> <<new[1]>>, wi |-> <<new[2]>>]]
         \/ /\ g_mem_buffer_finder' = last    \* accept failed, or TCPSTRUCT_EMBFULL
            /\ UNCHANGED <<g_mem_buffer, g_mem_buffer_used, g_con>>

(* Variant: end of file acted on before the lines already received.        *)
Line_eofFirst(c) ==
  /\ g_con[c].use
  /\ LET s == Contents(g_con[c].ri) IN
     \/ \E n \in 0 .. Len(s) :
          /\ Lines!LineOf(s, n)
          /\ n <= MaxLine
          /\ IF SubSeq(s, 1, n) \in Bad
               THEN tcpstruct_close(c)
               ELSE LET r == Consume(g_con[c].ri, n + 1) IN
                    /\ Becomes(r)
                    /\ g_con' = [g_con EXCEPT ![c].ri = r.chain]
     \/ \E n \in 0 .. Len(s) :              \* TCPSTRUCT_ETOOLONG
          /\ Lines!LineOf(s, n)
          /\ n > MaxLine
          /\ tcpstruct_close(c)
     \/ /\ g_con[c].closed_by_remote        \* TCPSTRUCT_EREADFIN
        /\ tcpstruct_close(c)

(* Variant: a connection closed by its peer is left as it is.              *)
Line_noEof(c) ==
  /\ g_con[c].use
  /\ LET s == Contents(g_con[c].ri) IN
     \/ \E n \in 0 .. Len(s) :
          /\ Lines!LineOf(s, n)
          /\ n <= MaxLine
          /\ IF SubSeq(s, 1, n) \in Bad
               THEN tcpstruct_close(c)
               ELSE LET r == Consume(g_con[c].ri, n + 1) IN
                    /\ Becomes(r)
                    /\ g_con' = [g_con EXCEPT ![c].ri = r.chain]
     \/ \E n \in 0 .. Len(s) :              \* TCPSTRUCT_ETOOLONG
          /\ Lines!LineOf(s, n)
          /\ n > MaxLine
          /\ tcpstruct_close(c)

(* tcpstruct_readline_chop and the dispatch of the line by the main loop,  *)
(* which logs the server out (logout_game_server) on a line of Bad.        *)
Line(c) ==
  /\ g_con[c].use
  /\ LET s == Contents(g_con[c].ri) IN
     \/ \E n \in 0 .. Len(s) :
          /\ Lines!LineOf(s, n)
          /\ n <= MaxLine
          /\ IF SubSeq(s, 1, n) \in Bad
               THEN tcpstruct_close(c)
               ELSE LET r == Consume(g_con[c].ri, n + 1) IN
                    /\ Becomes(r)
                    /\ g_con' = [g_con EXCEPT ![c].ri = r.chain]
     \/ \E n \in 0 .. Len(s) :              \* TCPSTRUCT_ETOOLONG
          /\ Lines!LineOf(s, n)
          /\ n > MaxLine
          /\ tcpstruct_close(c)
     \/ /\ ~Lines!HasLine(s)                \* TCPSTRUCT_EREADFIN
        /\ g_con[c].closed_by_remote
        /\ tcpstruct_close(c)

(* tcpstruct_write: its result is not looked at, so a message that does    *)
(* not fit is lost as a whole.                                             *)
Write(c) ==
  /\ g_con[c].use
  /\ \E d \in Writes :
       /\ Appendable(d)
       /\ Len(Contents(g_con[c].wi)) <= MaxQueue
       /\ LET r == AppendMemBufList(g_con[c].wi, d) IN
          /\ Becomes(r)
          /\ g_con' = [g_con EXCEPT ![c].wi = r.chain]

Next == \E c \in Conns : Read(c) \/ Send(c) \/ Accept(c) \/ Line(c) \/ Write(c)

(* Every turn of the main loop hands each connection to the line reader.   *)
Spec == Init /\ [][Next]_vars /\ \A c \in Conns : WF_vars(Line(c))

-----------------------------------------------------------------------------
Chain(ch) == ch \in Seq(Bufs) /\ Len(ch) <= Size
TypeOK ==
  /\ \A b \in Bufs : /\ g_mem_buffer[b].use \in BOOLEAN
                     /\ Len(g_mem_buffer[b].data) <= BufSize
  /\ g_mem_buffer_used \in 0 .. Size
  /\ g_mem_buffer_finder \in Bufs
  /\ \A c \in Conns : /\ g_con[c].use \in BOOLEAN
                      /\ g_con[c].closed_by_remote \in BOOLEAN
                      /\ Chain(g_con[c].ri) /\ Chain(g_con[c].wi)

(* Where a buffer is linked: connection, chain and position.               *)
Places(b) ==
  {p \in Conns \X {"ri", "wi"} \X (1 .. Size) :
     LET chain == g_con[p[1]][p[2]] IN p[3] \in DOMAIN chain /\ chain[p[3]] = b}

(* The pool: a buffer in use is linked exactly once, in the chain of one   *)
(* connection; an unused one nowhere; the count getFreeMem relies on is    *)
(* exact.  A leak, a double release or a chain shared by two connections   *)
(* breaks it (allocateMemBuf, releaseMemBuf, tcpstruct_close).             *)
BuffersOwned ==
  /\ \A b \in Bufs : Cardinality(Places(b)) = IF g_mem_buffer[b].use THEN 1 ELSE 0
  /\ g_mem_buffer_used = Size - Cardinality(Free)

(* A connection in use keeps the head of both its chains, and behind a     *)
(* head every buffer holds data: consumption gives memory back at once, so *)
(* an idle connection never costs more than two buffers.                   *)
NothingEmptyBehindHead ==
  \A c \in Conns : g_con[c].use =>
    \A ch \in {g_con[c].ri, g_con[c].wi} :
      /\ ch # <<>>
      /\ \A i \in 2 .. Len(ch) : g_mem_buffer[ch[i]].data # <<>>

(* The chains implement the byte streams: nothing lost, reordered or mixed *)
(* between connections, messages queued whole or not at all, and no end of *)
(* file acted on while a complete line waits.                              *)
RefinesByteStreams == Lines!StreamsSpec

(* A connection whose peer has gone is given up in the end, after its last *)
(* complete lines: its two chains return to the pool.                      *)
ClosedIsReleased ==
  \A c \in Conns : (g_con[c].use /\ g_con[c].closed_by_remote) ~> ~g_con[c].use
=============================================================================
