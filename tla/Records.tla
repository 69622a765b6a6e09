------------------------------ MODULE Records ------------------------------
(***************************************************************************)
(* Rows of the domains whose services all work alike: a request loads one  *)
(* or more rows, decides on their columns, assigns some and inserts new    *)
(* rows, and its session flushes all of it when it commits.  The domain    *)
(* modules (Fba, Crm, Som, ...) add the kinds of rows and their handlers.  *)
(***************************************************************************)
EXTENDS Integers, FiniteSets, Rows

CONSTANTS
    Ids,      \* ids of rows, unique over all tables
    Desks,    \* sessions that serve requests
    Scopes,   \* bound: how many rows of which kinds, and requests in flight
    NoWork    \* a desk without a request

ASSUME RecordsAssumption ==
    /\ IsFiniteSet(Ids) /\ Ids \subseteq Nat
    /\ \A c \in Scopes : c.requests \in Nat /\ \A k \in DOMAIN c.rows : c.rows[k] \in Nat

VARIABLES
    row,      \* the committed rows
    work,     \* what each request loaded, assigned and wants to insert
    gained,   \* history: what was added to each row's counter, less what was taken
    mixed,    \* history: rows of which a request committed an out-of-date load
    scope     \* the bounds of this behaviour: never changes

recordVars == <<row, work, gained, mixed, scope>>

-----------------------------------------------------------------------------

NoRow == [kind |-> "none"]

None == [x \in {} |-> x]

RowsOf(kind) == {i \in Ids : row[i].kind = kind}

\* There is room for one more row of the kind, and i is its id.
Free(i, kind) ==
    /\ kind \in DOMAIN scope.rows
    /\ Cardinality(RowsOf(kind)) < scope.rows[kind]
    /\ row[i] = NoRow
    /\ \A j \in Ids : j < i => row[j] # NoRow

\* A request that inserts a row and reads nothing.
Inserts(r) ==
    \E i \in Ids :
        /\ Free(i, r.kind)
        /\ row' = [row EXCEPT ![i] = r]
        /\ gained' = [gained EXCEPT ![i] = IF "count" \in DOMAIN r THEN r.count ELSE 0]
        /\ UNCHANGED <<work, mixed, scope>>

Idle(d) ==
    /\ work[d] = NoWork
    /\ Cardinality({e \in Desks : work[e] # NoWork}) < scope.requests

\* The desk is idle and row i is one its handler finds.
Opens(d, i, kind) == row[i].kind = kind /\ Idle(d)

\* The request of desk d has looked at columns read of each row, has assigned
\* set, is to insert new unless that is NoRow, and adds gain to the counters.
Takes(d, read, set, new, gain) ==
    /\ work' = [work EXCEPT ![d] =
          [read |-> [i \in DOMAIN read |-> [c \in read[i] |-> row[i][c]]],
           set |-> set, new |-> new, gain |-> gain]]
    /\ UNCHANGED <<row, gained, mixed, scope>>

Sets(d, i, looked, set) ==
    Takes(d, Only(i, looked \cup DOMAIN set), Only(i, set), NoRow, None)

Counts(d, i, looked, set, gain) ==
    Takes(d, Only(i, looked \cup DOMAIN set), Only(i, set), NoRow, Only(i, gain))

\* Adds a row after looking at columns of row i.
Adds(d, i, looked, new) ==
    /\ \E j \in Ids : Free(j, new.kind)
    /\ Takes(d, Only(i, looked), None, new, None)

Stale(w) ==
    {i \in DOMAIN w.read : \E c \in DOMAIN w.read[i] : w.read[i][c] # row[i][c]}

\* A row that was deleted from its table.
Gone(r) == "gone" \in DOMAIN r /\ r.gone

\* An UPDATE of a row that is gone finds none: the session raises StaleDataError.
CommitWork(d) ==
    /\ work[d] # NoWork
    /\ \A i \in DOMAIN work[d].set : ~Gone(row[i])
    /\ LET w == work[d]
           flushed == [i \in Ids |-> IF i \in DOMAIN w.set
                                        THEN Flushed(row[i], w.read[i], w.set[i]) ELSE row[i]]
       IN /\ \/ w.new = NoRow /\ row' = flushed
             \/ \E j \in Ids : Free(j, w.new.kind) /\ row' = [flushed EXCEPT ![j] = w.new]
          /\ mixed' = mixed \cup Stale(w)
          /\ gained' = [i \in Ids |->
                           IF i \in mixed' THEN 0        \* of no interest any more
                           ELSE IF i \in DOMAIN w.gain THEN gained[i] + w.gain[i]
                           ELSE gained[i]]
    /\ work' = [work EXCEPT ![d] = NoWork]
    /\ UNCHANGED scope

RollbackWork(d) ==
    /\ work[d] # NoWork
    /\ work' = [work EXCEPT ![d] = NoWork]
    /\ UNCHANGED <<row, gained, mixed, scope>>

RecordsInit ==
    /\ row = [i \in Ids |-> NoRow]
    /\ work = [d \in Desks |-> NoWork]
    /\ gained = [i \in Ids |-> 0]
    /\ mixed = {}
    /\ scope \in Scopes

\* Moves a status column along a table of transitions.
Follows(d, i, column, table, targets) ==
    \E t \in targets :
        /\ row[i][column] \in DOMAIN table
        /\ t \in table[row[i][column]]
        /\ Sets(d, i, {column}, Only(column, t))
=============================================================================
