--------------------------------- MODULE Mail ---------------------------------
(***************************************************************************)
(* Offline mail in SAAC (saac/mail.c): every mail has a slot of the buffer *)
(* g_mail_buf and a file of its own, is sent to the game servers, again to *)
(* the one its recipient logs in on, and dropped when one acknowledges it  *)
(* or when it expires.  The texts are left out; when a mail expires is     *)
(* left open.  A file is removed whenever its slot is cleared: that unlink *)
(* may fail, which is only logged, is left out.                            *)
(***************************************************************************)
EXTENDS Integers, Sequences, FiniteSets, FiniteSetsExt

CONSTANTS
  People,     \* recipients: id_to and char_name_to
  HashOf,     \* hashpjw of a recipient: one of PRIME = 211 numbers
  Servers,    \* connections of game servers
  FlushMax,   \* MAX_FLUSH_MAIL: 1024 in the code
  MaxMails    \* bound on the mails written

Missing == -1

VARIABLES
  buf,       \* g_mail_buf: its length is g_mail_buf_size
  finder,    \* g_mail_buf_finder
  disk,      \* the mail files: hash directory, name and recipient
  mail_id,   \* what the file mail_id holds, or Missing
  gs,        \* the game servers that are logged in
  sent       \* the mails each of them was sent and may acknowledge

vars == <<buf, finder, disk, mail_id, gs, sent>>

NoMail == [use |-> FALSE, to |-> Missing, id |-> 0, state |-> "NOUSE"]
Now == [buf |-> buf, finder |-> finder, disk |-> disk, sent |-> sent]
Becomes(s) == buf' = s.buf /\ finder' = s.finder /\ disk' = s.disk /\ sent' = s.sent

Init ==
  /\ buf = <<>> /\ finder = 0 /\ disk = {} /\ mail_id = Missing
  /\ gs = {} /\ sent = [g \in Servers |-> {}]

-----------------------------------------------------------------------------
(* getNextMessageID: what the file says is used and counted up; a new file *)
(* begins elsewhere, and one that cannot be written gives an id again.     *)
NextId(writable) ==
  CASE mail_id # Missing -> mail_id
    [] mail_id = Missing /\ writable -> 1000
    [] OTHER -> 9999

CountUp(writable) ==
  mail_id' = CASE ~writable -> mail_id
               [] writable /\ mail_id = Missing -> 10000
               [] OTHER -> mail_id + 1

(* reallocMailBuf: twice the slots, if none is free.                       *)
Enlarged(b) ==
  IF \E i \in DOMAIN b : ~b[i].use THEN b
  ELSE b \o [i \in 1 .. (IF b = <<>> THEN 1 ELSE Len(b)) |-> NoMail]

(* allocMail: the first free slot behind the finder, counted from 0.       *)
Found(b, f) ==
  LET k == Min({n \in 1 .. Len(b) : ~b[((f + n) % Len(b)) + 1].use})
  IN (f + k) % Len(b)

File(to, id) == [dir |-> HashOf[to], name |-> id, to |-> to]

(* Mail_receive.  What cannot be saved keeps its slot but is not sent.     *)
Received(s, to, id, saved) ==
  LET room == Enlarged(s.buf)
      i == Found(room, s.finder)
      send == saved /\ gs # {}
      mail == [use |-> TRUE, to |-> to, id |-> id,
               state |-> IF send THEN "WAIT_ACK" ELSE "NEWMESSAGE"]
      others == {f \in s.disk : f.dir # HashOf[to] \/ f.name # id}
  IN [buf |-> [room EXCEPT ![i + 1] = mail],
      finder |-> i,
      disk |-> IF saved THEN others \union {File(to, id)} ELSE s.disk,
      sent |-> [g \in Servers |-> IF send /\ g \in gs
                  THEN s.sent[g] \union {[to |-> to, id |-> id]} ELSE s.sent[g]]]

(* The slot i is cleared and the file of its mail removed.                 *)
Dropped(s, i) ==
  [s EXCEPT !.buf = [@ EXCEPT ![i] = NoMail],
            !.disk = {f \in @ : f.dir # HashOf[s.buf[i].to] \/ f.name # s.buf[i].id}]

Mail_receive(to) == \E writable, saved \in BOOLEAN :
  /\ Cardinality({i \in DOMAIN buf : buf[i].use}) < MaxMails
  /\ mail_id < 10000 + MaxMails
  /\ Becomes(Received(Now, to, NextId(writable), saved))
  /\ CountUp(writable) /\ UNCHANGED gs

(* Mail_receive_ack from g: the first mail it fits.                        *)
Mail_receive_ack(g, m) ==
  LET fits == {i \in DOMAIN buf : /\ buf[i].use /\ buf[i].id = m.id /\ buf[i].to = m.to
                                  /\ buf[i].state = "WAIT_ACK"}
      s == IF fits = {} THEN Now ELSE Dropped(Now, Min(fits))
  IN /\ g \in gs /\ m \in sent[g]
     /\ Becomes([s EXCEPT !.sent = [@ EXCEPT ![g] = @ \ {m}]])
     /\ UNCHANGED <<mail_id, gs>>

(* Mail_flush: the recipient has logged in on g, its mails are sent there, *)
(* in the order of their ids.                                              *)
Mail_flush(g, to) ==
  LET mine == {i \in DOMAIN buf : i <= FlushMax /\ buf[i].use /\ buf[i].to = to}
  IN /\ g \in gs /\ mine # {}
     /\ buf' = [i \in DOMAIN buf |-> IF i \in mine
                  THEN [buf[i] EXCEPT !.state = "WAIT_ACK"] ELSE buf[i]]
     /\ sent' = [sent EXCEPT ![g] = @ \union {[to |-> to, id |-> buf[i].id] : i \in mine}]
     /\ UNCHANGED <<finder, disk, mail_id, gs>>

(* Mail_expire: the slots whose mail is older than MAIL_EXPIRE_TIME.       *)
Mail_expire ==
  \E old \in SUBSET {i \in DOMAIN buf : i <= FlushMax /\ buf[i].use} :
    /\ old # {}
    /\ Becomes(FoldSet(LAMBDA i, s : Dropped(s, i), Now, old))
    /\ UNCHANGED <<mail_id, gs>>

ServerLogin(g) ==
  /\ g \notin gs /\ gs' = gs \union {g} /\ UNCHANGED <<buf, finder, disk, mail_id, sent>>

ServerLogout(g) ==
  /\ g \in gs /\ gs' = gs \ {g} /\ sent' = [sent EXCEPT ![g] = {}]
  /\ UNCHANGED <<buf, finder, disk, mail_id>>

(* What readdir64 finds in a mail directory: its mails and "." and "..".   *)
DirEntries(dir) ==
  {[dot |-> FALSE, regular |-> TRUE, file |-> f] : f \in {f \in disk : f.dir = dir}}
    \union {[dot |-> TRUE, regular |-> FALSE, file |-> Missing]}

(* The entries Mail_read goes on with: d_name[0] == '.', a regular file.   *)
ReadBack ==
  {e.file : e \in {e \in UNION {DirEntries(HashOf[p]) : p \in People} : e.dot /\ e.regular}}

(* SAAC starts again, with the files and without the buffer; what is read  *)
(* is received again under its id.  No game server is there yet.           *)
Restart ==
  /\ gs = {} /\ buf # <<>>
  /\ LET blank == [buf |-> <<>>, finder |-> 0, disk |-> disk,
                   sent |-> [g \in Servers |-> {}]]
     IN Becomes(FoldSet(LAMBDA f, s : Received(s, f.to, f.name, TRUE), blank, ReadBack))
  /\ UNCHANGED <<mail_id, gs>>

Next ==
  \/ \E p \in People : Mail_receive(p)
  \/ \E g \in Servers : ServerLogin(g) \/ ServerLogout(g)
  \/ \E g \in Servers : \E p \in People : Mail_flush(g, p)
  \/ \E g \in Servers : \E m \in sent[g] : Mail_receive_ack(g, m)
  \/ Mail_expire
  \/ Restart

Spec == Init /\ [][Next]_vars

-----------------------------------------------------------------------------
(* Every mail on disk has a slot of the buffer, also after a restart, for  *)
(* which Mail_read reads the directories: from a slot it is delivered to   *)
(* who logs in, or expires.  The comment at mail.c:334 says the scan skips *)
(* "." and ".."; the code skips everything else.                           *)
StoredMailIsReadBack ==
  \A f \in disk : \E i \in DOMAIN buf : buf[i].use /\ buf[i].to = f.to /\ buf[i].id = f.name
=============================================================================
