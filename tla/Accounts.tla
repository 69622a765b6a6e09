------------------------------- MODULE Accounts -------------------------------
(***************************************************************************)
(* IAM: users, roles, positions, permissions, tenants and data permission  *)
(* rules of one tenant, and the link tables between them.  An ORM request  *)
(* loads rows and writes at its commit; UPDATE and DELETE statements work  *)
(* on what is committed.  No link table has a unique key.  A behaviour has *)
(* one link table and the rows on its two sides; roles are custom ones     *)
(* (system roles are neither updated nor deleted).                         *)
(***************************************************************************)
EXTENDS Integers, FiniteSets

CONSTANTS
    Clerks,       \* sessions that serve requests
    Grantees,      \* the rows on the left of the link table
    Held,         \* the rows on its right
    MaxLinks,     \* bound: rows of the link table
    NoRequest

\* The rows of the two sides are distinct, and no row is a pair of rows.
ASSUME AccountsAssumption ==
    /\ Grantees \cap Held = {}
    /\ (Grantees \cup Held) \cap (Grantees \X Held) = {}
    /\ MaxLinks \in Nat

VARIABLES
    table,      \* the link table: never changes
    member,     \* status and deletion of the rows on both sides
    links,      \* the rows of the link table
    clerk,      \* Clerks -> what its request loaded and is to write
    overtaken   \* history: rows and pairs on which a request committed an out-of-date load

accountVars == <<table, member, links, clerk, overtaken>>

Rows == Grantees \cup Held

-----------------------------------------------------------------------------

LinkTables == {"user_position", "user_role", "role_permission", "object_permission", "data_permission_rule"}

HolderKind == [user_position |-> "user", user_role |-> "user", role_permission |-> "role",
               object_permission |-> "subject", data_permission_rule |-> "tenant"]

HeldKind == [user_position |-> "position", user_role |-> "role", role_permission |-> "permission",
             object_permission |-> "object", data_permission_rule |-> "rule"]

Kind(x) == IF x \in Grantees THEN HolderKind[table] ELSE HeldKind[table]

\* What update takes for a status; change_status and unlock take less.
StatusPattern ==
    [user |-> {"active", "disabled", "locked"}, role |-> {"active", "disabled"},
     position |-> {"active", "disabled"}, permission |-> {"active", "disabled"},
     tenant |-> {"active", "suspended"}, rule |-> {"active", "disabled"}, subject |-> {}, object |-> {}]

\* The status that a soft deletion writes.
EndStatus(x) == IF Kind(x) = "tenant" THEN "deleted" ELSE "disabled"

\* Mutant of Found: a rule is looked up whatever its status.
FoundAnyStatus(x) == ~member[x].deleted

\* A rule is looked up among the active ones.
Found(x) == ~member[x].deleted /\ (Kind(x) = "rule" => member[x].status = "active")

LinksOf(a, b) == {l \in links : l.holder = a /\ l.held = b}

-----------------------------------------------------------------------------
(* Rows *)

NoneAtDesk(c) == clerk[c] = NoRequest

Asks(c, request) ==
    /\ clerk' = [clerk EXCEPT ![c] = request]
    /\ UNCHANGED <<table, member, links, overtaken>>

LoadForStatus(c, x, status) ==
    /\ NoneAtDesk(c) /\ Found(x)
    /\ status \in StatusPattern[Kind(x)]
    /\ Asks(c, [op |-> "status", of |-> x, read |-> member[x].status, write |-> status])

\* The status is written if it differs from the loaded one; a rule that was
\* deleted leaves no row to write to, and the commit raises.
CommitStatus(c) ==
    /\ clerk[c] # NoRequest /\ clerk[c].op = "status"
    /\ LET x == clerk[c].of IN
       /\ Kind(x) = "rule" => ~member[x].deleted
       /\ IF clerk[c].write # clerk[c].read
          THEN /\ member' = [member EXCEPT ![x].status = clerk[c].write]
               /\ overtaken' = IF member[x].deleted THEN overtaken \cup {x} ELSE overtaken
          ELSE UNCHANGED <<member, overtaken>>
    /\ clerk' = [clerk EXCEPT ![c] = NoRequest]
    /\ UNCHANGED <<table, links>>

\* One UPDATE over the users that are not deleted, without loading them.
BatchStatus(users, status) ==
    /\ HolderKind[table] = "user" /\ users # {}
    /\ status \in {"active", "disabled"}
    /\ member' = [x \in Rows |-> IF x \in users /\ ~member[x].deleted
                                 THEN [member[x] EXCEPT !.status = status] ELSE member[x]]
    /\ UNCHANGED <<table, links, clerk, overtaken>>

\* The UPDATE or DELETE that deletes row x; a permission only becomes disabled.
Deletes(x) ==
    member' = [member EXCEPT ![x] = [status |-> EndStatus(x), deleted |-> Kind(x) # "permission"]]

\* Users, permissions and rules are deleted without being loaded.
DeleteDirectly(x) ==
    /\ Kind(x) \in {"user", "permission", "rule"}
    /\ Deletes(x)
    /\ overtaken' = overtaken \ {x}
    /\ UNCHANGED <<table, links, clerk>>

\* Mutant of LoadForDelete: a position is deleted whoever holds it.
LoadForDeleteHeld(c, x) ==
    /\ NoneAtDesk(c) /\ Found(x)
    /\ Kind(x) \in {"role", "position", "tenant"}
    /\ Asks(c, [op |-> "delete", of |-> x])

LoadForDelete(c, x) ==
    /\ NoneAtDesk(c) /\ Found(x)
    /\ Kind(x) \in {"role", "position", "tenant"}
    /\ Kind(x) = "position" => \A l \in links : l.held # x
    /\ Asks(c, [op |-> "delete", of |-> x])

\* The pairs of the links of a position.
PairsOf(x) ==
    IF Kind(x) = "position" THEN {<<l.holder, l.held>> : l \in {k \in links : k.held = x}} ELSE {}

CommitDelete(c) ==
    /\ clerk[c] # NoRequest /\ clerk[c].op = "delete"
    /\ LET x == clerk[c].of IN
       /\ Deletes(x)
       /\ overtaken' = (overtaken \ {x}) \cup PairsOf(x)
    /\ clerk' = [clerk EXCEPT ![c] = NoRequest]
    /\ UNCHANGED <<table, links>>

-----------------------------------------------------------------------------
(* Links *)

\* The row that is looked up before a link is made: a permission rule has none.
ParentFound(a, b) ==
    CASE table = "user_position"                 -> Found(b)
      [] table \in {"user_role", "role_permission"} -> Found(a)
      [] table = "object_permission"             -> TRUE
      [] OTHER                                   -> FALSE

\* Mutant of LoadForAssign: made a second time.
LoadForAssignAgain(c, a, b, primary) ==
    /\ NoneAtDesk(c) /\ ParentFound(a, b)
    /\ primary => table = "user_position"
    /\ Asks(c, [op |-> "assign", holder |-> a, held |-> b, primary |-> primary])

\* A link that exists is refused (positions, objects) or left out (roles,
\* permissions).
LoadForAssign(c, a, b, primary) ==
    /\ NoneAtDesk(c) /\ ParentFound(a, b)
    /\ primary => table = "user_position"
    /\ LinksOf(a, b) = {}
    /\ Asks(c, [op |-> "assign", holder |-> a, held |-> b, primary |-> primary])

\* The first id that no link has.
FreshLink == CHOOSE n \in 1..MaxLinks : \A l \in links : l.id # n

CommitAssign(c) ==
    /\ clerk[c] # NoRequest /\ clerk[c].op = "assign"
    /\ \E n \in 1..MaxLinks : \A l \in links : l.id # n
    /\ LET a == clerk[c].holder
           b == clerk[c].held IN
       /\ links' = links \cup {[id |-> FreshLink, holder |-> a, held |-> b, primary |-> clerk[c].primary]}
       /\ overtaken' = IF LinksOf(a, b) # {} \/ (Kind(b) = "position" /\ member[b].deleted)
                       THEN overtaken \cup {<<a, b>>} ELSE overtaken
    /\ clerk' = [clerk EXCEPT ![c] = NoRequest]
    /\ UNCHANGED <<table, member>>

\* DELETE ... WHERE: every link of the pair.
Revoke(a, b) ==
    /\ table # "object_permission"
    /\ LinksOf(a, b) # {}
    /\ links' = links \ LinksOf(a, b)
    /\ overtaken' = overtaken \ {<<a, b>>}
    /\ UNCHANGED <<table, member, clerk>>

\* An object permission is revoked by its id.
RevokeOne(l) ==
    /\ table = "object_permission"
    /\ links' = links \ {l}
    /\ overtaken' = IF \A j, k \in LinksOf(l.holder, l.held) \ {l} : j = k
                    THEN overtaken \ {<<l.holder, l.held>>} ELSE overtaken
    /\ UNCHANGED <<table, member, clerk>>

\* Two UPDATEs: no position of the user is the primary one, then this one is.
SetPrimary(a, b) ==
    /\ table = "user_position"
    /\ LinksOf(a, b) # {}
    /\ links' = {IF l.holder = a THEN [l EXCEPT !.primary = (l.held = b)] ELSE l : l \in links}
    /\ UNCHANGED <<table, member, clerk, overtaken>>

Withdraw(c) ==
    /\ clerk[c] # NoRequest
    /\ clerk' = [clerk EXCEPT ![c] = NoRequest]
    /\ UNCHANGED <<table, member, links, overtaken>>

-----------------------------------------------------------------------------

AccountInit ==
    /\ table \in LinkTables
    /\ member = [x \in Rows |-> [status |-> "active", deleted |-> FALSE]]
    /\ links = {}
    /\ clerk = [c \in Clerks |-> NoRequest]
    /\ overtaken = {}

StatusNext ==
    \/ \E c \in Clerks :
          \/ \E x \in Rows : LoadForDelete(c, x) \/ \E s \in StatusPattern[Kind(x)] : LoadForStatus(c, x, s)
          \/ CommitStatus(c) \/ CommitDelete(c) \/ Withdraw(c)
    \/ \E x \in Rows : DeleteDirectly(x)
    \/ \E users \in SUBSET Grantees, s \in {"active", "disabled"} : BatchStatus(users, s)

LinkNext ==
    \/ \E c \in Clerks : CommitAssign(c) \/ \E a \in Grantees, b \in Held, p \in BOOLEAN : LoadForAssign(c, a, b, p)
    \/ \E a \in Grantees, b \in Held : Revoke(a, b) \/ SetPrimary(a, b)
    \/ \E l \in links : RevokeOne(l)

AccountNext == StatusNext \/ LinkNext

AccountSpec == AccountInit /\ [][AccountNext]_accountVars

-----------------------------------------------------------------------------
(* Properties *)

Statuses == {"active", "disabled", "locked", "suspended", "deleted"}

Requests ==
    [op : {"status"}, of : Rows, read : Statuses, write : Statuses]
    \cup [op : {"delete"}, of : Rows]
    \cup [op : {"assign"}, holder : Grantees, held : Held, primary : BOOLEAN]

AccountTypeOK ==
    /\ table \in LinkTables
    /\ member \in [Rows -> [status : Statuses, deleted : BOOLEAN]]
    /\ links \subseteq [id : 1..MaxLinks, holder : Grantees, held : Held, primary : BOOLEAN]
    /\ clerk \in [Clerks -> Requests \cup {NoRequest}]
    /\ overtaken \subseteq Rows \cup (Grantees \X Held)

\* A user has a position once, a role a permission once, a subject one rule per
\* object (else every lookup of that rule fails), unless two requests that
\* looked for the link overlapped and nobody has revoked it since.
OneLinkPerPair ==
    \A k, l \in links :
        k # l /\ k.holder = l.holder /\ k.held = l.held => <<l.holder, l.held>> \in overtaken

\* Nobody holds a position that was deleted, although the deletion looks at the
\* links and the assignment at the position without locking either.
PositionsLive ==
    table = "user_position" =>
        \A l \in links : member[l.held].deleted => <<l.holder, l.held>> \in overtaken

\* What was deleted has the status of a deleted row, by which roles are
\* selected at login, unless a request that loaded it before wrote its own.
DeletedIsDisabled ==
    \A x \in Rows : member[x].deleted => x \in overtaken \/ member[x].status = EndStatus(x)

LinksAreSound == AccountTypeOK /\ OneLinkPerPair /\ PositionsLive /\ DeletedIsDisabled

\* A data permission rule that was disabled never applies again: it is no
\* longer found for an update, and an update that had found it before writes
\* only what it changed, also when it asked for the status 'active'.
DisabledRulesStay ==
    [][\A x \in Rows : Kind(x) = "rule" /\ member[x].status = "disabled"
                       => member'[x].status = "disabled"]_accountVars

AccountsAreSound == []LinksAreSound /\ DisabledRulesStay
=============================================================================
