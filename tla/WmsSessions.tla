----------------------------- MODULE WmsSessions -----------------------------
(***************************************************************************)
(* The stock requests of WmsInventory taken apart: every request runs in   *)
(* its own AsyncSession (get_db_session) on PostgreSQL's default READ      *)
(* COMMITTED level, and requests interleave at every await.  A line of a   *)
(* request loads the row it needs, checks and recomputes it in Python,     *)
(* and flushes an UPDATE of the columns that changed, with the values it   *)
(* computed, WHERE id = ...; the UPDATE takes the row lock until the end   *)
(* of the transaction.  Inventory.version is never compared nor bumped.    *)
(*                                                                         *)
(* No table constraint makes (tenant, warehouse, SKU) unique: two sessions *)
(* that find no row each insert one, and from then on every                *)
(* scalar_one_or_none on that place raises.                                *)
(***************************************************************************)
EXTENDS Integers, Sequences

CONSTANTS
    Sessions,       \* concurrent requests
    Places,         \* <<warehouse_id, sku_id>> pairs
    Requests,       \* the requests clients send: sequences of lines
    Start,          \* quantity on hand of the rows that exist initially
    MaxRequests,    \* bound: how many requests are sent in all
    None            \* no session

ASSUME StartAssumption == Start \in Nat /\ MaxRequests \in Nat
ASSUME NoneAssumption == None \notin Sessions

VARIABLES
    db,         \* committed rows of each place, in the order of their commit
    version,    \* history: committed changes of the place so far
    booked,     \* history: sum of the committed movements of the place
    stale,      \* history: places committed from an out-of-date load
    lock,       \* session that holds the row lock of the place
    sess,       \* state of each session
    sent        \* requests sent so far

vars == <<db, version, booked, stale, lock, sess, sent>>

-----------------------------------------------------------------------------
(* Data *)

Kinds == {"adjust", "reserve", "unreserve"}

Line == [kind : Kinds, place : Places, qty : Int]

\* A request has a line to work on.
ASSUME RequestsAssumption == Requests \subseteq Seq(Line) \ {<<>>}

Row == [qty_on_hand : Int, qty_reserved : Int, qty_available : Int]

Quantities(on_hand, reserved) ==
    [qty_on_hand |-> on_hand, qty_reserved |-> reserved,
     qty_available |-> on_hand - reserved]

\* A loaded row: its values in the session, the columns the session has
\* changed, the version it read, the sum of the session's movements on it, and
\* whether the session inserted the row itself.
Image == [row : Row, changed : SUBSET {"qty_on_hand", "qty_reserved", "qty_available"},
          version : Nat, moved : Int, mine : BOOLEAN]

\* Mutant of Idle: the session object is closed but never handed back.
IdleClosed == [step |-> "closed", todo |-> <<>>, loaded |-> [p \in {} |-> 0]]

Idle == [step |-> "idle", todo |-> <<>>, loaded |-> [p \in {} |-> 0]]

-----------------------------------------------------------------------------
(* Lines of a request, in Python *)

\* Mutant of After: reserve_stock leaves qty_available as it was.
AfterKeepsAvailable(row, line) ==
    CASE line.kind = "adjust" -> Quantities(row.qty_on_hand + line.qty, row.qty_reserved)
      [] line.kind = "reserve" -> [row EXCEPT !.qty_reserved = @ + line.qty]
      [] line.kind = "unreserve" -> Quantities(row.qty_on_hand, row.qty_reserved - line.qty)

\* The row after one line, from the values the session has in memory.
After(row, line) ==
    CASE line.kind = "adjust" -> Quantities(row.qty_on_hand + line.qty, row.qty_reserved)
      [] line.kind = "reserve" -> Quantities(row.qty_on_hand, row.qty_reserved + line.qty)
      [] line.kind = "unreserve" -> Quantities(row.qty_on_hand, row.qty_reserved - line.qty)

\* Mutant of Accepts: unreserve_stock does not look at what is reserved.
AcceptsAnyRelease(row, line) ==
    CASE line.kind = "adjust" ->
            /\ line.qty # 0
            /\ row.qty_on_hand + line.qty >= 0
            /\ row.qty_on_hand + line.qty - row.qty_reserved >= 0
      [] line.kind = "reserve" -> line.qty > 0 /\ row.qty_available >= line.qty
      [] line.kind = "unreserve" -> line.qty > 0

\* Does the service accept the line?  (Otherwise it raises.)
Accepts(row, line) ==
    CASE line.kind = "adjust" ->
            /\ line.qty # 0
            /\ row.qty_on_hand + line.qty >= 0
            /\ row.qty_on_hand + line.qty - row.qty_reserved >= 0
      [] line.kind = "reserve" -> line.qty > 0 /\ row.qty_available >= line.qty
      [] line.kind = "unreserve" -> line.qty > 0 /\ row.qty_reserved >= line.qty

\* The image after the line: SQLAlchemy remembers which columns changed.
Changed(image, line) ==
    LET row == After(image.row, line) IN
    [image EXCEPT
        !.row = row,
        !.changed = @ \cup {c \in DOMAIN row : row[c] # image.row[c]},
        !.moved = @ + IF line.kind = "adjust" THEN line.qty ELSE 0]

\* The UPDATE writes the changed columns only.
Written(image, current) ==
    [c \in DOMAIN current |-> IF c \in image.changed THEN image.row[c] ELSE current[c]]

-----------------------------------------------------------------------------
(* Steps of a session *)

Busy(s) == sess[s].step # "idle"

Rollback(s) ==
    /\ sess' = [sess EXCEPT ![s] = Idle]
    /\ lock' = [p \in Places |-> IF lock[p] = s THEN None ELSE lock[p]]
    /\ UNCHANGED <<db, version, booked, stale, sent>>

\* A client sends a request to a free session.
Send(s) ==
    /\ ~Busy(s)
    /\ sent < MaxRequests
    /\ \E request \in Requests :
          sess' = [sess EXCEPT ![s] = [Idle EXCEPT !.step = "load", !.todo = request]]
    /\ sent' = sent + 1
    /\ UNCHANGED <<db, version, booked, stale, lock>>

Current(s) == Head(sess[s].todo)

\* Mutant of Visible: the repository takes the first row it finds.
VisibleFirst(s, p) == 1

\* Rows of the place the session sees: the committed ones and its own.
Visible(s, p) ==
    Len(db[p]) + IF p \in DOMAIN sess[s].loaded /\ sess[s].loaded[p].mine THEN 1 ELSE 0

\* get_or_create: the row the session holds already, the committed one, or a
\* new one of this session.
Found(s, p) ==
    IF p \in DOMAIN sess[s].loaded
    THEN sess[s].loaded[p]
    ELSE [row |-> IF db[p] = <<>> THEN Quantities(0, 0) ELSE db[p][1], changed |-> {},
          version |-> version[p], moved |-> 0, mine |-> db[p] = <<>>]

\* The objects of the session (its identity map) with one more, or changed.
With(loaded, p, image) ==
    [q \in DOMAIN loaded \cup {p} |-> IF q = p THEN image ELSE loaded[q]]

\* SELECT and everything up to the next await: load, check, recompute.
Load(s) ==
    LET line == Current(s)
        p == line.place
    IN  /\ sess[s].step = "load"
        /\ Visible(s, p) <= 1
        /\ Accepts(Found(s, p).row, line)
        /\ sess' = [sess EXCEPT
             ![s].step = "flush",
             ![s].loaded = With(@, p, Changed(Found(s, p), line))]
        /\ UNCHANGED <<db, version, booked, stale, lock, sent>>

\* The load raises: the service refuses the line, or the place has two rows
\* (MultipleResultsFound); get_db_session rolls the request back.
LoadRaises(s) ==
    LET line == Current(s) IN
    /\ sess[s].step = "load"
    /\ Visible(s, line.place) > 1 \/ ~Accepts(Found(s, line.place).row, line)
    /\ Rollback(s)

\* The UPDATE (the INSERT, if the session made the row) and the INSERT of the
\* movement.  The UPDATE waits for the lock of a row another session updated.
Flush(s) ==
    LET p == Current(s).place
        mine == sess[s].loaded[p].mine
    IN  /\ sess[s].step = "flush"
        /\ ~mine => lock[p] \in {None, s}
        /\ lock' = IF mine THEN lock ELSE [lock EXCEPT ![p] = s]
        /\ sess' = [sess EXCEPT
             ![s].todo = Tail(@),
             ![s].step = IF Len(sess[s].todo) = 1 THEN "commit" ELSE "load"]
        /\ UNCHANGED <<db, version, booked, stale, sent>>

\* Mutant of Commit: the connection returns to the pool with its locks.
CommitKeepsLocks(s) ==
    /\ sess[s].step = "commit"
    /\ sess' = [sess EXCEPT ![s] = Idle]
    /\ UNCHANGED <<db, version, booked, stale, lock, sent>>

\* The commit at the end of get_db_session.
Commit(s) ==
    LET loaded == sess[s].loaded
        touched == DOMAIN loaded
    IN  /\ sess[s].step = "commit"
        /\ db' = [p \in Places |->
              IF p \notin touched THEN db[p]
              ELSE IF loaded[p].mine THEN Append(db[p], loaded[p].row)
              ELSE [db[p] EXCEPT ![1] = Written(loaded[p], @)]]
        /\ version' = [p \in Places |-> IF p \in touched THEN version[p] + 1 ELSE version[p]]
        /\ booked' = [p \in Places |->
              IF p \in touched THEN booked[p] + loaded[p].moved ELSE booked[p]]
        /\ stale' = stale \cup {p \in touched : loaded[p].version # version[p]}
        /\ lock' = [p \in Places |-> IF lock[p] = s THEN None ELSE lock[p]]
        /\ sess' = [sess EXCEPT ![s] = Idle]
        /\ UNCHANGED sent

\* PostgreSQL aborts one transaction of a cycle of waiting transactions.
WaitsFor(s, t) ==
    /\ sess[s].step = "flush" /\ s # t
    /\ ~sess[s].loaded[Current(s).place].mine
    /\ lock[Current(s).place] = t

Deadlocked(s) ==
    \E S \in SUBSET Sessions :
        s \in S /\ \A t \in S : \E u \in S : WaitsFor(t, u)

DeadlockVictim(s) ==
    /\ Deadlocked(s)
    /\ Rollback(s)

-----------------------------------------------------------------------------
(* Specification *)

Init ==
    /\ db \in [Places -> {<<>>, <<Quantities(Start, 0)>>}]
    /\ version = [p \in Places |-> 0]
    /\ booked = [p \in Places |-> IF db[p] = <<>> THEN 0 ELSE Start]
    /\ stale = {}
    /\ lock = [p \in Places |-> None]
    /\ sess = [s \in Sessions |-> Idle]
    /\ sent = 0

Step(s) == Load(s) \/ LoadRaises(s) \/ Flush(s) \/ Commit(s) \/ DeadlockVictim(s)

Next == \E s \in Sessions : Send(s) \/ Step(s)

Spec == Init /\ [][Next]_vars

\* The event loop resumes every coroutine whose await is done.
FairSpec == Spec /\ \A s \in Sessions : WF_vars(Step(s))

-----------------------------------------------------------------------------
(* Properties *)

\* Type invariant.
TypeOK ==
    /\ DOMAIN db = Places /\ \A p \in Places : \A k \in 1..Len(db[p]) : db[p][k] \in Row
    /\ version \in [Places -> Nat]
    /\ booked \in [Places -> Int]
    /\ stale \subseteq Places
    /\ lock \in [Places -> Sessions \cup {None}]
    /\ \A s \in Sessions :
          /\ sess[s].step \in {"idle", "load", "flush", "commit"}
          /\ Busy(s) => \A n \in 1..Len(sess[s].todo) : sess[s].todo[n] \in Line
          /\ \A p \in DOMAIN sess[s].loaded : sess[s].loaded[p] \in Image
    /\ sent \in 0..MaxRequests

\* Whatever interleaves, a committed row never has less than nothing on hand or
\* reserved: adjust_stock and unreserve_stock check the very column they write
\* (qty_available has no such luck, reserve_stock checks the stored value).
NeverBelowZero ==
    \A p \in Places : \A k \in 1..Len(db[p]) :
        db[p][k].qty_on_hand >= 0 /\ db[p][k].qty_reserved >= 0

\* A place goes wrong only through a commit based on an out-of-date load,
\* which is what Inventory.version is there to prevent: a place without one
\* has one row at most, balanced, never oversold and equal to its movements.
FreshCommitsBalance ==
    \A p \in Places \ stale :
        /\ Len(db[p]) <= 1
        /\ db[p] # <<>> =>
              /\ db[p][1] = Quantities(db[p][1].qty_on_hand, db[p][1].qty_reserved)
              /\ db[p][1].qty_reserved <= db[p][1].qty_on_hand
              /\ db[p][1].qty_on_hand = booked[p]

\* Once a place has two rows and the sessions that had loaded it are gone, it
\* is out of use: no request ever loads or changes it again.
DuplicatedPlaceIsDead ==
    [][\A p \in Places :
          (Len(db[p]) > 1 /\ \A s \in Sessions : p \notin DOMAIN sess[s].loaded) =>
             /\ db'[p] = db[p]
             /\ \A s \in Sessions : p \notin DOMAIN sess'[s].loaded]_vars

\* Every request ends, in a commit or a rollback: sessions that wait for each
\* other's row locks (two orders with the same SKUs in opposite order) are
\* broken up by the database.
RequestsEnd == \A s \in Sessions : Busy(s) ~> ~Busy(s)

\* What Inventory.version is documented to do: prevent concurrent overselling.
NoOversell ==
    \A p \in Places : \A k \in 1..Len(db[p]) :
        db[p][k].qty_reserved <= db[p][k].qty_on_hand
=============================================================================
