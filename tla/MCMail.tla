-------------------------------- MODULE MCMail --------------------------------
(* Two recipients in one directory, one game server, two mails at a time.  *)
EXTENDS Mail
MCPeople == {1, 2}
MCHashOf == [p \in MCPeople |-> 7]
MCServers == {1}
=============================================================================
