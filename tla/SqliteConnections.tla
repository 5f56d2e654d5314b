-------------------------- MODULE SqliteConnections -------------------------
(***************************************************************************)
(* sqlite3.Connection objects of several processes on one SQLite file, as  *)
(* the storage classes use them: default isolation level, WAL journal.     *)
(* External: modelled by what the code sees of it.                         *)
(*   - A SELECT outside a transaction reads the committed database.        *)
(*   - The first INSERT or UPDATE opens a deferred transaction, which      *)
(*     commit() or rollback() ends and nothing else does.                  *)
(*   - One connection writes at a time; the others fail with               *)
(*     OperationalError("database is locked") once the busy timeout is     *)
(*     over, and their transaction stays open.                             *)
(*   - A SELECT in an open transaction pins the connection to the          *)
(*     committed state of that moment; once another connection commits,    *)
(*     the pinned one reads old data and every write of it fails.          *)
(***************************************************************************)
CONSTANTS Workers,   \* processes, one connection each
          NoWorker,
          EmptyDb    \* the database before anything is written; also: no value

VARIABLES
    db,      \* the committed database
    lock,    \* the worker whose transaction may write
    txn,     \* the uncommitted database of that worker
    conn,    \* per worker: the state of its connection's transaction
    snap     \* per worker: the database a stale connection still reads

ConnStates == {"closed",  \* no transaction
               "open",    \* a write failed: transaction open, nothing read
               "pinned",  \* transaction open, and it has read
               "stale"}   \* pinned, and another connection has committed since

\* What a SELECT of worker w returns.
View(w) == IF conn[w] = "stale" THEN snap[w] ELSE db

Read(w) ==
    /\ conn' = IF conn[w] = "open" THEN [conn EXCEPT ![w] = "pinned"] ELSE conn
    /\ UNCHANGED <<db, lock, txn, snap>>

CanWrite(w) == lock \in {NoWorker, w} /\ conn[w] # "stale"

\* The database a write statement of w starts from.
Base(w) == IF lock = w THEN txn ELSE db

Write(w, new) ==
    /\ CanWrite(w)
    /\ lock' = w
    /\ txn' = new
    /\ UNCHANGED <<db, conn, snap>>

\* OperationalError: no caller rolls back.
WriteFails(w) ==
    /\ ~CanWrite(w)
    /\ conn' = IF conn[w] = "closed" THEN [conn EXCEPT ![w] = "open"] ELSE conn
    /\ UNCHANGED <<db, lock, txn, snap>>

\* The lock and the snapshot of w are gone.
Release(w) ==
    /\ lock' = IF lock = w THEN NoWorker ELSE lock
    /\ txn' = IF lock = w THEN EmptyDb ELSE txn

\* A commit leaves every pinned connection behind.
Commit(w) ==
    /\ lock = w
    /\ db' = txn
    /\ Release(w)
    /\ snap' = [x \in Workers |->
                  IF x # w /\ conn[x] = "pinned" THEN db ELSE snap[x]]
    /\ conn' = [x \in Workers |->
                  IF x = w THEN "closed"
                  ELSE IF conn[x] = "pinned" THEN "stale" ELSE conn[x]]

\* rollback(), the end of the process, or a commit of no change.
Rollback(w) ==
    /\ Release(w)
    /\ snap' = [snap EXCEPT ![w] = EmptyDb]
    /\ conn' = [conn EXCEPT ![w] = "closed"]
    /\ UNCHANGED db
=============================================================================
