---------------------------- MODULE Organizations ----------------------------
(***************************************************************************)
(* IAM: the tree of organisations of a tenant.  A row keeps its parent, a  *)
(* copy of the ids above it (path) and its level; only the row that moves  *)
(* is rewritten, not those below it.                                       *)
(***************************************************************************)
EXTENDS Integers, Sequences, FiniteSets, SequencesExt

CONSTANTS
    Orgs,          \* ids of organisations
    Admins,        \* sessions that serve requests
    NoOrg,         \* no parent
    NoChange,      \* an admin without a request
    MaxDepth,      \* bound: ids in a path
    MaxMoves       \* bound: moves and deletions

ASSUME OrgAssumption ==
    /\ NoOrg \notin Orgs
    /\ MaxDepth \in Nat /\ MaxMoves \in Nat

VARIABLES
    org,           \* the committed rows
    change,        \* what each request loaded and is to do
    orgRaced,      \* history: rows that a request wrote from what was no longer so
    displaced,     \* history: rows whose parent moved after they were placed
    orgMoves       \* bound: how many moves and deletions were committed

orgVars == <<org, change, orgRaced, displaced, orgMoves>>

Absent == [state |-> "none", parent |-> NoOrg, path |-> <<>>, level |-> 1]

-----------------------------------------------------------------------------

Live(o) == o \in Orgs /\ org[o].state = "live"

Children(o) == {c \in Orgs : Live(c) /\ org[c].parent = o}

\* The live rows whose path contains o's id, and o.
SubtreeIds(o) == {o} \cup {c \in Orgs : Live(c) /\ Contains(org[c].path, o)}

\* The columns of a row under parent p.
PathUnder(p) == IF p = NoOrg THEN <<>> ELSE Append(org[p].path, p)
LevelUnder(p) == IF p = NoOrg THEN 1 ELSE org[p].level + 1

\* What request e writes concerns request c, which has looked at the row it is
\* to change, at the path of the new parent, or at the children of a row.
Concerns(e, c) ==
    \/ e.org \in {c.org, c.parent}
    \/ c.kind = "delete" /\ c.org \in {e.parent, org[e.org].parent}

Waiting(a, kind, o, p) ==
    /\ change[a] = NoChange
    /\ change' = [change EXCEPT ![a] =
          [kind |-> kind, org |-> o, parent |-> p, path |-> PathUnder(p), level |-> LevelUnder(p),
           relevel |-> LevelUnder(p) # org[o].level, fresh |-> TRUE]]
    /\ UNCHANGED <<org, orgRaced, displaced, orgMoves>>

\* Ids that no row and no request has.
FreshIds ==
    {o \in Orgs : org[o] = Absent /\ \A b \in Admins : change[b] # NoChange => change[b].org # o}

\* A new row gets a new id, no matter which.
CreateOrg(a, p) ==
    /\ FreshIds # {}
    /\ p = NoOrg \/ Live(p)
    /\ Len(PathUnder(p)) <= MaxDepth
    /\ Waiting(a, "create", CHOOSE o \in FreshIds : TRUE, p)

\* Mutant of MayMoveUnder: the subtree is not looked at.
MayMoveUnderDescendant(o, p) == p # o /\ Live(p)

MayMoveUnder(o, p) == p # o /\ Live(p) /\ p \notin SubtreeIds(o)

\* A move to where the row is changes nothing.
MoveOrg(a, o, p) ==
    /\ Live(o)
    /\ p # org[o].parent
    /\ p = NoOrg \/ MayMoveUnder(o, p)
    /\ orgMoves < MaxMoves
    /\ Len(PathUnder(p)) <= MaxDepth
    /\ Waiting(a, "move", o, p)

\* Mutant of DeleteOrg: the children are not looked at.
DeleteOrgWithChildren(a, o) ==
    /\ Live(o)
    /\ orgMoves < MaxMoves
    /\ Waiting(a, "delete", o, NoOrg)

\* Members of the organisation, which refuse its deletion too, are not modelled.
DeleteOrg(a, o) ==
    /\ Live(o)
    /\ orgMoves < MaxMoves
    /\ Children(o) = {}
    /\ Waiting(a, "delete", o, NoOrg)

\* Mutant of Placed: the path is not rewritten when a row moves.
PlacedKeepsPath(c) ==
    CASE c.kind = "create" -> [state |-> "live", parent |-> c.parent, path |-> c.path, level |-> c.level]
      [] c.kind = "move"   -> [org[c.org] EXCEPT !.parent = c.parent, !.level = c.level]
      [] c.kind = "delete" -> [org[c.org] EXCEPT !.state = "deleted"]

\* Mutant of Placed: the level is not rewritten when a row moves.
PlacedKeepsLevel(c) ==
    CASE c.kind = "create" -> [state |-> "live", parent |-> c.parent, path |-> c.path, level |-> c.level]
      [] c.kind = "move"   -> [org[c.org] EXCEPT !.parent = c.parent, !.path = c.path]
      [] c.kind = "delete" -> [org[c.org] EXCEPT !.state = "deleted"]

\* The row after the request.  An update writes the columns that differ from
\* those loaded, which are the parent and the path of every move, but not
\* always the level.
Placed(c) ==
    CASE c.kind = "create" -> [state |-> "live", parent |-> c.parent, path |-> c.path, level |-> c.level]
      [] c.kind = "move"   -> [state |-> org[c.org].state, parent |-> c.parent, path |-> c.path,
                               level |-> IF c.relevel THEN c.level ELSE org[c.org].level]
      [] c.kind = "delete" -> [org[c.org] EXCEPT !.state = "deleted"]

CommitChange(a) ==
    /\ change[a] # NoChange
    /\ LET c == change[a] IN
       /\ org' = [org EXCEPT ![c.org] = Placed(c)]
       /\ orgRaced' = IF c.fresh THEN orgRaced ELSE orgRaced \cup {c.org}
       /\ displaced' = IF c.kind = "move" THEN (displaced \ {c.org}) \cup Children(c.org)
                                          ELSE displaced
       /\ orgMoves' = IF c.kind = "create" THEN orgMoves ELSE orgMoves + 1
    /\ change' = [b \in Admins |->
          IF b = a \/ change[b] = NoChange THEN NoChange
          ELSE [change[b] EXCEPT !.fresh = @ /\ ~Concerns(change[a], change[b])]]

AbandonChange(a) ==
    /\ change[a] # NoChange
    /\ change' = [change EXCEPT ![a] = NoChange]
    /\ UNCHANGED <<org, orgRaced, displaced, orgMoves>>

OrgInit ==
    /\ org = [o \in Orgs |-> Absent]
    /\ change = [a \in Admins |-> NoChange]
    /\ orgRaced = {} /\ displaced = {} /\ orgMoves = 0

OrgNext ==
    \E a \in Admins :
        \/ \E p \in Orgs \cup {NoOrg} : CreateOrg(a, p)
        \/ \E o \in Orgs, p \in Orgs \cup {NoOrg} : MoveOrg(a, o, p)
        \/ \E o \in Orgs : DeleteOrg(a, o)
        \/ CommitChange(a) \/ AbandonChange(a)

OrgSpec == OrgInit /\ [][OrgNext]_orgVars

-----------------------------------------------------------------------------
(* Properties *)

\* With its members, Q has their parents.
HoldsParents(Q) == \A q \in Q : org[q].parent \in Q \cup {NoOrg}

\* The rows reached from o by following parents.
Ancestors(o) ==
    {a \in Orgs : \A Q \in SUBSET Orgs :
        org[o].parent \in Q \cup {NoOrg} /\ HoldsParents(Q) => a \in Q}

\* An organisation is under its own subtree only over a row whose path an
\* earlier move has left behind (the guard of move reads the paths) or by a
\* request that another one has overtaken.
CyclesNeedStalePaths ==
    \A o \in Orgs : Live(o) /\ o \in Ancestors(o) => Ancestors(o) \cap (displaced \cup orgRaced) # {}

\* The path of a row ends in its parent, whatever requests overlap: the two
\* columns are always written together.
PathsEndInParent ==
    \A o \in Orgs :
        IF org[o].parent = NoOrg THEN org[o].path = <<>>
        ELSE org[o].path # <<>> /\ Last(org[o].path) = org[o].parent

\* The path and the level of a row are those below its parent, unless the
\* parent moved since or the request that placed the row was overtaken.
PathsFollowParents ==
    \A o \in Orgs \ (orgRaced \cup displaced) :
        Live(o) => /\ org[o].path = PathUnder(org[o].parent)
                   /\ org[o].level = LevelUnder(org[o].parent)

\* The parent of a live organisation is live: only a deletion that overlaps
\* with the creation or the move of a child gets between.
ParentsAreLive ==
    \A o \in Orgs \ orgRaced :
        Live(o) /\ org[o].parent # NoOrg =>
            Live(org[o].parent) \/ org[o].parent \in orgRaced

\* The tree of organisations: what rows agree on, and where cycles come from.
TreeIsSound == PathsEndInParent /\ PathsFollowParents /\ ParentsAreLive /\ CyclesNeedStalePaths
=============================================================================
