------------------------------ MODULE LockMap ------------------------------
(***************************************************************************)
(* What the account locks of SAAC promise: at most one game server holds   *)
(* the lock of an account.  The code answers by cdkey and never by owner,  *)
(* so Unlock takes no server: whoever asks, the lock goes                  *)
(* (saac/char.c lockUser, saac/lock.c).  LockTable is the linked-list      *)
(* implementation; Login uses these operations as its lock store.          *)
(***************************************************************************)
CONSTANTS
  Cdkeys,    \* account names
  Servers,   \* game server names
  NoServer   \* "not locked"

ASSUME NoServerAssumption == NoServer \notin Servers

VARIABLE lock   \* lock[k]: the server that holds account k, or NoServer

LockTypeOK == lock \in [Cdkeys -> Servers \union {NoServer}]

LockInit == lock = [k \in Cdkeys |-> NoServer]

isLocked(k) == lock[k] # NoServer

(* lockUser with lock # 0: refused while anybody holds the account.        *)
Lock(k, s) ==
  /\ ~isLocked(k)
  /\ lock' = [lock EXCEPT ![k] = s]

(* lockUser with lock = 0, and every other caller of DeleteMemLock.        *)
Unlock(k) ==
  lock' = [lock EXCEPT ![k] = NoServer]

(* DeleteMemLockServer: every lock held in the name of one server.         *)
UnlockServer(s) ==
  lock' = [k \in Cdkeys |-> IF lock[k] = s THEN NoServer ELSE lock[k]]

LockNext ==
  \/ \E k \in Cdkeys, s \in Servers : Lock(k, s)
  \/ \E k \in Cdkeys : Unlock(k)
  \/ \E s \in Servers : UnlockServer(s)

LockSpec == LockInit /\ [][LockNext]_lock
=============================================================================
