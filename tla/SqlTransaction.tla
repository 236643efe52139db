--------------------------- MODULE SqlTransaction ---------------------------
(***************************************************************************)
(* The transaction methods of ppl7::db::MySQL, PostgreSQL and SQLite       *)
(* (src/src/database/): a depth counter on the client that turns nested    *)
(* brackets into BEGIN, SAVEPOINT LEVEL<n>, RELEASE, ROLLBACK TO, COMMIT   *)
(* and ROLLBACK, on a connection that may be lost.                         *)
(*                                                                         *)
(* The server is not part of the library: what it answers to these         *)
(* statements, and its session, are modelled as the code relies on them.   *)
(* The application handles exceptions: after one inside a transaction it   *)
(* calls nothing but the cancel methods and reconnect until it succeeded.  *)
(***************************************************************************)
EXTENDS Naturals, Integers, Sequences

CONSTANTS
  Rows,          (* what the application inserts                           *)
  Dialects,      (* which of the three classes are used                    *)
  Lossy,         (* the ones whose connection may be lost                  *)
  ThrowsAfter,   (* the statements that may be carried out and yet throw   *)
  MaxDepth,      (* bound: how deep the application nests                  *)
  MaxSavepoints  (* bound: savepoints of a session                         *)

Statements ==
  {"BEGIN", "INSERT", "COMMIT", "ROLLBACK", "SAVEPOINT", "RELEASE", "ROLLBACK TO"}

ASSUME SqlAssumption ==
  /\ Dialects \subseteq {"MySQL", "PostgreSQL", "SQLite"}
  /\ Lossy \subseteq Dialects \ {"SQLite"}
  /\ ThrowsAfter \subseteq Statements
  /\ MaxDepth \in Nat
  /\ MaxSavepoints \in Nat

VARIABLES
  dialect,           (* the class of the object; never changes             *)
  connected,         (* conn is not NULL                                   *)
  transactiondepth,
  failed,            (* the application has an exception to handle         *)
  up,                (* the connection behind conn is still there          *)
  session,           (* the server's side of it                            *)
  stored             (* the rows every session sees                        *)

client == <<dialect, connected, transactiondepth, failed>>
server == <<up, session, stored>>
vars == <<client, server>>

(* work: the rows of the open transaction; saves: its savepoints, each     *)
(* with the rows at that time; aborted: only ROLLBACK is accepted.         *)
Fresh == [inTx |-> FALSE, aborted |-> FALSE, work |-> {}, saves |-> <<>>]

Init ==
  /\ dialect \in Dialects
  /\ connected = TRUE /\ transactiondepth = 0 /\ failed = FALSE
  /\ up = TRUE /\ session = Fresh /\ stored = {}

-----------------------------------------------------------------------------
(* The server.  Statements are pairs <<what, argument>>.                   *)

Answer(ok, s, db) == [ok |-> ok, session |-> s, stored |-> db]

Named(s, n) == {i \in DOMAIN s.saves : s.saves[i].level = n}
Latest(s, n) == CHOOSE i \in Named(s, n) : \A j \in Named(s, n) : j <= i

(* MySQL replaces a savepoint of the same name, the others shadow it.      *)
NewSavepoint(s, n) ==
  LET i == Latest(s, n)
      kept == IF dialect = "MySQL" /\ Named(s, n) # {}
              THEN SubSeq(s.saves, 1, i - 1) \o SubSeq(s.saves, i + 1, Len(s.saves))
              ELSE s.saves
  IN Append(kept, [level |-> n, work |-> s.work])

(* What a statement does to session s and the stored rows db when it       *)
(* succeeds: a set of answers, empty if it cannot.                         *)
Successes(q, s, db) ==
  LET n == q[2]
      tells(t, rows) == {Answer(TRUE, t, rows)}
      only(condition, answers) == IF condition THEN answers ELSE {}
  IN
  CASE q[1] = "BEGIN" ->
         only(~s.inTx, tells([Fresh EXCEPT !.inTx = TRUE], db))
    [] q[1] = "INSERT" /\ s.inTx ->
         only(~s.aborted, tells([s EXCEPT !.work = @ \cup {n}], db))
    [] q[1] = "INSERT" /\ ~s.inTx ->
         tells(s, db \cup {n})
    [] q[1] = "COMMIT" ->
         only(s.inTx \/ dialect # "SQLite",
              tells(Fresh, IF s.aborted THEN db ELSE db \cup s.work))
    [] q[1] = "ROLLBACK" ->
         only(s.inTx \/ dialect # "SQLite", tells(Fresh, db))
    [] q[1] = "SAVEPOINT" /\ s.inTx ->
         only(~s.aborted, tells([s EXCEPT !.saves = NewSavepoint(s, n)], db))
    [] q[1] = "SAVEPOINT" /\ ~s.inTx ->
         only(dialect = "MySQL", tells(s, db))
    [] q[1] = "RELEASE" ->
         only(Named(s, n) # {} /\ ~s.aborted,
              tells([s EXCEPT !.saves = SubSeq(@, 1, Latest(s, n) - 1)], db))
    [] q[1] = "ROLLBACK TO" ->
         only(Named(s, n) # {},
              tells([s EXCEPT !.saves = SubSeq(@, 1, Latest(s, n)),
                              !.work = s.saves[Latest(s, n)].work,
                              !.aborted = FALSE], db))

(* An error aborts a PostgreSQL transaction, and ends it at COMMIT.  For   *)
(* the others it concerns the statement only, or, with a deadlock or a     *)
(* full disk, rolls the whole transaction back.                            *)
Failures(q, s, db) ==
  LET left ==
        IF dialect # "PostgreSQL"
        THEN {s} \cup (IF q[1] = "INSERT" THEN {Fresh} ELSE {})
        ELSE {IF ~s.inTx \/ q[1] = "COMMIT" THEN Fresh
              ELSE [s EXCEPT !.aborted = TRUE]}
  IN {Answer(FALSE, t, db) : t \in left}

(* Any statement but a rollback may fail.                                  *)
Answers(q, s, db) ==
  Successes(q, s, db) \cup
  (IF q[1] \in {"ROLLBACK", "ROLLBACK TO"} /\ Successes(q, s, db) # {}
   THEN {} ELSE Failures(q, s, db))

Served(q, s, db, ok) ==
  \E a \in Answers(q, s, db) :
    a.ok = ok /\ session' = a.session /\ stored' = a.stored

(* The connection breaks, the server gives the session up.                 *)
Lose ==
  /\ dialect \in Lossy
  /\ up
  /\ up' = FALSE
  /\ session' = Fresh
  /\ UNCHANGED <<client, stored>>

-----------------------------------------------------------------------------
(* exec(): ok tells whether it returned or threw.                          *)

(* The connection is broken, with db stored by then.  MySQL::mysqlQuery    *)
(* connects again, which may fail, and repeats the statement on the new    *)
(* session; in PostgreSQL::pgsqlQuery it is an error.                      *)
ExecBroken(q, db, ok) ==
  \/ /\ dialect = "MySQL"
     /\ up' = TRUE
     /\ UNCHANGED connected
     /\ Served(q, Fresh, db, ok)
  \/ /\ ~ok
     /\ connected' = (dialect # "MySQL")
     /\ up' = FALSE /\ session' = Fresh /\ stored' = db

(* The connection may also break when the server has carried the statement *)
(* out and its answer is on the way.  And exec throws behind a statement   *)
(* that succeeded when the logger of logQuery throws, or in MySQL when an  *)
(* error is left over from mysql_store_result.                             *)
Exec(q, ok) ==
  /\ UNCHANGED dialect
  /\ \/ ~connected /\ ~ok /\ UNCHANGED <<connected, server>>
     \/ connected /\ up /\ Served(q, session, stored, ok) /\ UNCHANGED <<connected, up>>
     \/ /\ connected /\ up /\ q[1] \in ThrowsAfter
        /\ ~ok /\ Served(q, session, stored, TRUE)
        /\ UNCHANGED <<connected, up>>
     \/ connected /\ ~up /\ ExecBroken(q, stored, ok)
     \/ /\ connected /\ up /\ dialect \in Lossy
        /\ \E a \in Answers(q, session, stored) : ExecBroken(q, a.stored, ok)

(* The statement q, and the depth after it succeeded; an exception leaves  *)
(* the depth and, inside a transaction, the application with an error.     *)
Method(q, depth) ==
  \/ Exec(q, TRUE) /\ transactiondepth' = depth /\ failed' = FALSE
  \/ /\ Exec(q, FALSE)
     /\ failed' = (transactiondepth > 0)
     /\ UNCHANGED transactiondepth

(* A mistake: the savepoint of a level is named after the level above.     *)
startTransactionOffByOne ==
  /\ ~failed
  /\ transactiondepth < MaxDepth
  /\ Len(session.saves) < MaxSavepoints
  /\ Method(IF transactiondepth = 0 THEN <<"BEGIN", 0>>
            ELSE <<"SAVEPOINT", transactiondepth - 1>>, transactiondepth + 1)

startTransaction ==
  /\ ~failed
  /\ transactiondepth < MaxDepth
  /\ Len(session.saves) < MaxSavepoints
  /\ Method(IF transactiondepth = 0 THEN <<"BEGIN", 0>>
            ELSE <<"SAVEPOINT", transactiondepth>>, transactiondepth + 1)

(* A mistake: every bracket ends with a COMMIT.                            *)
endTransactionCommits ==
  /\ ~failed
  /\ transactiondepth > 0
  /\ Method(<<"COMMIT", 0>>, transactiondepth - 1)

(* Also without a transaction: there is no savepoint LEVEL-1.              *)
endTransaction ==
  /\ ~failed
  /\ IF transactiondepth = 1
     THEN Method(<<"COMMIT", 0>>, 0)
     ELSE Method(<<"RELEASE", transactiondepth - 1>>, transactiondepth - 1)

(* A mistake: an inner bracket is released instead of rolled back.         *)
cancelTransactionReleases ==
  IF transactiondepth = 1
  THEN Method(<<"ROLLBACK", 0>>, 0)
  ELSE Method(<<"RELEASE", transactiondepth - 1>>, transactiondepth - 1)

cancelTransaction ==
  IF transactiondepth = 1
  THEN Method(<<"ROLLBACK", 0>>, 0)
  ELSE Method(<<"ROLLBACK TO", transactiondepth - 1>>, transactiondepth - 1)

cancelTransactionComplete == Method(<<"ROLLBACK", 0>>, 0)

insert(r) ==
  /\ ~failed
  /\ r \notin stored \cup session.work
  /\ Method(<<"INSERT", r>>, transactiondepth)

-----------------------------------------------------------------------------
(* Connecting again.                                                       *)

(* reconnect(), and connect() after close(): a new session, or none, and   *)
(* the depth stays.  An application does so outside of a transaction or to *)
(* get over an error.  (MySQL::reconnect first pings the server: if that   *)
(* answers, nothing changes.)                                              *)
reconnect ==
  /\ failed \/ transactiondepth = 0
  /\ session' = Fresh
  /\ \E answers \in BOOLEAN : connected' = answers /\ up' = answers
  /\ UNCHANGED <<dialect, transactiondepth, failed, stored>>

(* PostgreSQL::selectDB opens a second connection, and takes it over if it *)
(* could; it is the one method that resets the depth.                      *)
selectDB ==
  /\ dialect = "PostgreSQL"
  /\ connected
  /\ up' = TRUE
  /\ session' = Fresh
  /\ transactiondepth' = 0 /\ failed' = FALSE
  /\ UNCHANGED <<dialect, connected, stored>>

Next ==
  \/ startTransaction \/ endTransaction
  \/ cancelTransaction \/ cancelTransactionComplete
  \/ \E r \in Rows : insert(r)
  \/ reconnect \/ selectDB
  \/ Lose

Spec == Init /\ [][Next]_vars

-----------------------------------------------------------------------------
Savepoints == [level : 1..MaxDepth, work : SUBSET Rows]

(* The values of the variables.                                            *)
TypeOK ==
  /\ dialect \in Dialects
  /\ connected \in BOOLEAN /\ failed \in BOOLEAN /\ up \in BOOLEAN
  /\ transactiondepth \in 0..MaxDepth
  /\ stored \subseteq Rows
  /\ session.inTx \in BOOLEAN /\ session.aborted \in BOOLEAN
  /\ session.work \subseteq Rows
  /\ session.saves \in Seq(Savepoints)

(* The rows before the bracket at the given depth was opened.              *)
Base(depth) ==
  IF depth = 1 \/ Named(session, depth - 1) = {}
  THEN {} ELSE session.saves[Latest(session, depth - 1)].work

(* The brackets the client counts are the ones open on the server:         *)
(* as long as the connection is there and no error is being handled, the   *)
(* server is in a transaction exactly when the depth is not zero, and the  *)
(* newest savepoints LEVEL1, LEVEL2, ... up to the depth exist and were    *)
(* set in this order.  cancelTransaction leaves savepoints behind and the  *)
(* names are used again.                                                   *)
LevelsAreOnServer ==
  connected /\ up /\ ~failed =>
    /\ transactiondepth > 0 <=> session.inTx
    /\ ~session.aborted
    /\ \A n \in 1..transactiondepth - 1 : Named(session, n) # {}
    /\ \A n \in 1..transactiondepth - 2 : Latest(session, n) < Latest(session, n + 1)

(* What was written in each bracket, and whether the server has dropped    *)
(* the transaction the client counts brackets of.                          *)
Levels ==
  [i \in 1..transactiondepth |->
     (IF i = transactiondepth THEN session.work ELSE Base(i + 1)) \ Base(i)]
Lost == transactiondepth > 0 /\ ~session.inTx

NT == INSTANCE NestedTransaction WITH stored <- stored, levels <- Levels, lost <- Lost

(* endTransaction throws although the COMMIT has been carried out: its     *)
(* answer was lost, or exec threw behind it.  The note at endTransaction   *)
(* (Database.cpp 1168-1170) says that on an error none of the changes was  *)
(* carried out.                                                            *)
CommitUnanswered ==
  /\ endTransaction
  /\ transactiondepth = 1 /\ failed'
  /\ stored' = stored \cup Levels[1]
  /\ Levels' = <<{}>>
  /\ Lost' = TRUE

(* The brackets as the application sees them: an end or a cancel takes     *)
(* effect on what was written since the matching start, and the outermost  *)
(* end stores everything or nothing (Database.cpp 1137-1152), the former   *)
(* only when it returns.  CommitUnanswered is the one exception.           *)
ImplementsNesting == NT!Init /\ [][NT!Next \/ CommitUnanswered]_NT!nvars

(* A method that does not take effect changes nothing, or the database has *)
(* dropped the transaction; in both cases nothing is stored.               *)
NoEffect == NT!Drop \/ UNCHANGED NT!nvars

(* Each method does its own part of that: a cancel never keeps what an end *)
(* would keep, nor the other way round, an insert goes to the innermost    *)
(* bracket, and none of them stores anything when it throws, except for    *)
(* CommitUnanswered and for an insert outside of all brackets.             *)
MethodsKeepPromises ==
  [][/\ startTransaction => NT!Begin \/ NoEffect
     /\ endTransaction => NT!End \/ NoEffect \/ CommitUnanswered
     /\ cancelTransaction => NT!Cancel \/ NoEffect
     /\ cancelTransactionComplete => NT!CancelComplete \/ NoEffect
     /\ \A r \in Rows : insert(r) => NT!Write(r) \/ NoEffect]_vars

(* Database.cpp 1137-1139: a transaction is carried out completely or not  *)
(* at all.  So nothing is stored while a bracket is open.                  *)
NothingStoredInside ==
  [][transactiondepth > 0 /\ transactiondepth' > 0 => stored' = stored]_vars

=============================================================================
