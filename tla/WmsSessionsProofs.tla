--------------------------- MODULE WmsSessionsProofs ---------------------------
(***************************************************************************)
(* TLAPS proofs about WmsSessions, for every set of sessions, places and   *)
(* requests and for every initial stock: whatever interleaves, no          *)
(* committed row goes below zero, a place without a commit on an           *)
(* out-of-date load balances and equals its movements, and a place with    *)
(* two rows is out of use.                                                 *)
(*                                                                         *)
(* Neither invariant is inductive: what a commit writes was loaded and     *)
(* recomputed earlier.  ImagesAboveZero says what every session holds;     *)
(* FreshImages says how what a session holds of the current version of a   *)
(* place follows from the committed row.                                   *)
(***************************************************************************)
EXTENDS WmsSessions, SequenceTheorems, TLAPS

Columns == {"qty_on_hand", "qty_reserved", "qty_available"}

Loads == UNION {[D -> Image] : D \in SUBSET Places}

Session == [step : {"idle", "load", "flush", "commit"}, todo : Seq(Line), loaded : Loads]

Types ==
    /\ db \in [Places -> Seq(Row)]
    /\ version \in [Places -> Nat]
    /\ booked \in [Places -> Int]
    /\ stale \in SUBSET Places
    /\ lock \in [Places -> Sessions \cup {None}]
    /\ sess \in [Sessions -> Session]
    /\ sent \in 0..MaxRequests

\* A session that loads or flushes has a line, one that flushes has loaded the
\* place of its line, and an image that was not inserted has a committed row.
Held ==
    \A s \in Sessions :
        /\ sess[s].step \in {"load", "flush"} => sess[s].todo # <<>>
        /\ sess[s].step = "flush" => Current(s).place \in DOMAIN sess[s].loaded
        /\ \A p \in DOMAIN sess[s].loaded : ~sess[s].loaded[p].mine => db[p] # <<>>

TypeInv == Types /\ Held

\* What a session has in memory is never below zero either.
ImagesAboveZero ==
    \A s \in Sessions : \A p \in DOMAIN sess[s].loaded :
        /\ sess[s].loaded[p].row.qty_on_hand >= 0
        /\ sess[s].loaded[p].row.qty_reserved >= 0

ZeroInv == TypeInv /\ NeverBelowZero /\ ImagesAboveZero

\* Quantities that balance and are not oversold.
Balanced(row) ==
    /\ row = Quantities(row.qty_on_hand, row.qty_reserved)
    /\ row.qty_reserved <= row.qty_on_hand

\* The image follows from the committed row (or from none) by the session's
\* own lines.
Follows(image, p) ==
    /\ Balanced(image.row)
    /\ image.mine => db[p] = <<>> /\ image.row.qty_on_hand = image.moved
    /\ ~image.mine =>
          /\ db[p] # <<>>
          /\ image.row.qty_on_hand = db[p][1].qty_on_hand + image.moved
          /\ \A c \in Columns \ image.changed : image.row[c] = db[p][1][c]

\* An image has the version of its place or an earlier one; one that has the
\* version of a place that never went stale follows from the committed row.
FreshImages ==
    \A s \in Sessions : \A p \in DOMAIN sess[s].loaded :
        /\ sess[s].loaded[p].version <= version[p]
        /\ (p \notin stale /\ sess[s].loaded[p].version = version[p])
              => Follows(sess[s].loaded[p], p)

\* A place that never went stale and has no row has no movement.
EmptyIsUnbooked == \A p \in Places \ stale : db[p] = <<>> => booked[p] = 0

FreshInv == TypeInv /\ FreshCommitsBalance /\ EmptyIsUnbooked /\ FreshImages

-----------------------------------------------------------------------------
(* The lines *)

LEMMA RowType ==
    ASSUME NEW a \in Int, NEW b \in Int
    PROVE  /\ Quantities(a, b) \in Row
           /\ Quantities(a, b).qty_on_hand = a
           /\ Quantities(a, b).qty_reserved = b
           /\ Quantities(a, b).qty_available = a - b
  BY DEF Quantities, Row

\* A line leaves a row that balances, whatever it was given.
LEMMA AfterType ==
    ASSUME NEW row \in Row, NEW line \in Line
    PROVE  /\ After(row, line) \in Row
           /\ After(row, line) = Quantities(After(row, line).qty_on_hand, After(row, line).qty_reserved)
  <1>1. row.qty_on_hand \in Int /\ row.qty_reserved \in Int /\ line.qty \in Int
    BY DEF Row, Line
  <1>2. line.kind \in {"adjust", "reserve", "unreserve"}
    BY DEF Line, Kinds
  <1>3. CASE line.kind = "adjust"
    <2>1. After(row, line) = Quantities(row.qty_on_hand + line.qty, row.qty_reserved)
      BY <1>3 DEF After
    <2> QED
      BY <2>1, <1>1 DEF Quantities, Row
  <1>4. CASE line.kind = "reserve"
    <2>1. After(row, line) = Quantities(row.qty_on_hand, row.qty_reserved + line.qty)
      BY <1>4 DEF After
    <2> QED
      BY <2>1, <1>1 DEF Quantities, Row
  <1>5. CASE line.kind = "unreserve"
    <2>1. After(row, line) = Quantities(row.qty_on_hand, row.qty_reserved - line.qty)
      BY <1>5 DEF After
    <2> QED
      BY <2>1, <1>1 DEF Quantities, Row
  <1> QED
    BY <1>2, <1>3, <1>4, <1>5

\* What a line that is accepted does to the quantities: it keeps them from
\* going below zero, keeps a balanced row from being oversold, and moves what
\* is on hand by the quantity of an adjustment.
LEMMA AcceptedLine ==
    ASSUME NEW row \in Row, NEW line \in Line, Accepts(row, line)
    PROVE  /\ (row.qty_on_hand >= 0 /\ row.qty_reserved >= 0)
                 => After(row, line).qty_on_hand >= 0 /\ After(row, line).qty_reserved >= 0
           /\ Balanced(row) => Balanced(After(row, line))
           /\ After(row, line).qty_on_hand
                 = row.qty_on_hand + (IF line.kind = "adjust" THEN line.qty ELSE 0)
  <1>1. row.qty_on_hand \in Int /\ row.qty_reserved \in Int /\ line.qty \in Int
    BY DEF Row, Line
  <1>2. line.kind \in {"adjust", "reserve", "unreserve"}
    BY DEF Line, Kinds
  <1>3. Balanced(row) =>
           /\ row.qty_available = row.qty_on_hand - row.qty_reserved
           /\ row.qty_reserved <= row.qty_on_hand
    BY <1>1 DEF Balanced, Quantities
  <1>4. After(row, line) = Quantities(After(row, line).qty_on_hand, After(row, line).qty_reserved)
    BY AfterType
  <1>5. CASE line.kind = "adjust"
    <2>1. After(row, line) = Quantities(row.qty_on_hand + line.qty, row.qty_reserved)
      BY <1>5 DEF After
    <2>2. After(row, line).qty_on_hand = row.qty_on_hand + line.qty
          /\ After(row, line).qty_reserved = row.qty_reserved
      BY <2>1, <1>1 DEF Quantities, Row
    <2>3. row.qty_on_hand + line.qty >= 0 /\ row.qty_on_hand + line.qty - row.qty_reserved >= 0
      BY <1>5 DEF Accepts
    <2>4. After(row, line).qty_reserved <= After(row, line).qty_on_hand
      BY <2>2, <2>3, <1>1
    <2> QED
      BY <2>2, <2>3, <2>4, <1>1, <1>4, <1>5 DEF Balanced
  <1>6. CASE line.kind = "reserve"
    <2>1. After(row, line) = Quantities(row.qty_on_hand, row.qty_reserved + line.qty)
      BY <1>6 DEF After
    <2>2. After(row, line).qty_on_hand = row.qty_on_hand
          /\ After(row, line).qty_reserved = row.qty_reserved + line.qty
      BY <2>1, <1>1 DEF Quantities, Row
    <2>3. line.qty > 0 /\ row.qty_available >= line.qty
      BY <1>6 DEF Accepts
    <2>4. Balanced(row) => After(row, line).qty_reserved <= After(row, line).qty_on_hand
      BY <2>2, <2>3, <1>1, <1>3
    <2>5. line.kind # "adjust"
      BY <1>6
    <2>6. row.qty_reserved >= 0 => row.qty_reserved + line.qty >= 0
      BY <2>3, <1>1
    <2>7. Balanced(row) => Balanced(After(row, line))
      BY <2>4, <1>4 DEF Balanced
    <2> QED
      BY <2>2, <2>5, <2>6, <2>7, <1>1
  <1>7. CASE line.kind = "unreserve"
    <2>1. After(row, line) = Quantities(row.qty_on_hand, row.qty_reserved - line.qty)
      BY <1>7 DEF After
    <2>2. After(row, line).qty_on_hand = row.qty_on_hand
          /\ After(row, line).qty_reserved = row.qty_reserved - line.qty
      BY <2>1, <1>1 DEF Quantities, Row
    <2>3. line.qty > 0 /\ row.qty_reserved >= line.qty
      BY <1>7 DEF Accepts
    <2>4. Balanced(row) => After(row, line).qty_reserved <= After(row, line).qty_on_hand
      BY <2>2, <2>3, <1>1, <1>3
    <2>5. line.kind # "adjust"
      BY <1>7
    <2>6. row.qty_reserved - line.qty >= 0
      BY <2>3, <1>1
    <2>7. Balanced(row) => Balanced(After(row, line))
      BY <2>4, <1>4 DEF Balanced
    <2> QED
      BY <2>2, <2>5, <2>6, <2>7, <1>1
  <1> QED
    BY <1>2, <1>5, <1>6, <1>7

\* The image after a line, field by field.
LEMMA ChangedImage ==
    ASSUME NEW image \in Image, NEW line \in Line
    PROVE  /\ Changed(image, line) \in Image
           /\ Changed(image, line).row = After(image.row, line)
           /\ Changed(image, line).version = image.version
           /\ Changed(image, line).mine = image.mine
           /\ Changed(image, line).moved
                 = image.moved + (IF line.kind = "adjust" THEN line.qty ELSE 0)
           /\ \A c \in Columns \ Changed(image, line).changed :
                 c \notin image.changed /\ After(image.row, line)[c] = image.row[c]
  <1> DEFINE row == After(image.row, line)
             columns == image.changed \cup {c \in DOMAIN row : row[c] # image.row[c]}
             moved == image.moved + (IF line.kind = "adjust" THEN line.qty ELSE 0)
  <1>1. image.row \in Row /\ image.moved \in Int /\ image.changed \subseteq Columns /\ line.qty \in Int
    BY DEF Image, Line, Columns
  <1>2. row \in Row
    BY <1>1, AfterType
  <1>3. DOMAIN row = Columns
    BY <1>2 DEF Row, Columns
  <1>4. columns \in SUBSET Columns
    BY <1>1, <1>3
  <1>5. moved \in Int
    BY <1>1
  <1>6. Changed(image, line) = [image EXCEPT !.row = row, !.changed = columns, !.moved = moved]
    BY DEF Changed
  <1>7. \A c \in Columns \ columns : c \notin image.changed /\ row[c] = image.row[c]
    BY <1>3
  <1> HIDE DEF row, columns, moved
  <1>8. /\ Changed(image, line) \in Image
        /\ Changed(image, line).row = row
        /\ Changed(image, line).version = image.version
        /\ Changed(image, line).mine = image.mine
        /\ Changed(image, line).moved = moved
        /\ Changed(image, line).changed = columns
    BY <1>2, <1>4, <1>5, <1>6 DEF Image, Columns
  <1>9. /\ row = After(image.row, line)
        /\ moved = image.moved + (IF line.kind = "adjust" THEN line.qty ELSE 0)
    BY DEF row, moved
  <1> QED
    BY <1>7, <1>8, <1>9

-----------------------------------------------------------------------------
(* What a session holds *)

LEMMA IdleSession == Idle \in Session /\ DOMAIN Idle.loaded = {} /\ Idle.step = "idle"
  <1>1. [p \in {} |-> 0] \in [{} -> Image]
    OBVIOUS
  <1>2. [p \in {} |-> 0] \in Loads
    BY <1>1 DEF Loads
  <1>3. <<>> \in Seq(Line)
    OBVIOUS
  <1> QED
    BY <1>2, <1>3 DEF Idle, Session

LEMMA SessionType ==
    ASSUME Types, NEW s \in Sessions
    PROVE  /\ sess[s] \in Session
           /\ sess[s].todo \in Seq(Line)
           /\ sess[s].loaded \in Loads
           /\ DOMAIN sess[s].loaded \subseteq Places
           /\ \A p \in DOMAIN sess[s].loaded : sess[s].loaded[p] \in Image
  <1>1. sess[s] \in Session
    BY DEF Types
  <1>2. sess[s].todo \in Seq(Line) /\ sess[s].loaded \in Loads
    BY <1>1 DEF Session
  <1>3. PICK D \in SUBSET Places : sess[s].loaded \in [D -> Image]
    BY <1>2 DEF Loads
  <1> QED
    BY <1>1, <1>2, <1>3

\* get_or_create returns a typed image that has a committed row, or is new.
LEMMA FoundImage ==
    ASSUME TypeInv, NEW s \in Sessions, NEW p \in Places
    PROVE  /\ Found(s, p) \in Image
           /\ ~Found(s, p).mine => db[p] # <<>>
           /\ p \in DOMAIN sess[s].loaded => Found(s, p) = sess[s].loaded[p]
  <1>1. CASE p \in DOMAIN sess[s].loaded
    <2>1. Found(s, p) = sess[s].loaded[p]
      BY <1>1 DEF Found
    <2>2. sess[s].loaded[p] \in Image
      BY <1>1, SessionType DEF TypeInv
    <2>3. ~sess[s].loaded[p].mine => db[p] # <<>>
      BY <1>1 DEF TypeInv, Held
    <2> QED
      BY <2>1, <2>2, <2>3
  <1>2. CASE p \notin DOMAIN sess[s].loaded
    <2> DEFINE row == IF db[p] = <<>> THEN Quantities(0, 0) ELSE db[p][1]
    <2>1. db[p] \in Seq(Row) /\ version[p] \in Nat
      BY DEF TypeInv, Types
    <2>2. row \in Row
      <3>1. Quantities(0, 0) \in Row
        BY RowType
      <3>2. db[p] # <<>> => db[p][1] \in Row
        BY <2>1
      <3> QED
        BY <3>1, <3>2
    <2>3. Found(s, p) = [row |-> row, changed |-> {}, version |-> version[p], moved |-> 0,
                         mine |-> db[p] = <<>>]
      BY <1>2 DEF Found
    <2> HIDE DEF row
    <2>4. (db[p] = <<>>) \in BOOLEAN
      OBVIOUS
    <2>5. Found(s, p) \in Image
      BY <2>1, <2>2, <2>3, <2>4 DEF Image
    <2>6. Found(s, p).mine = (db[p] = <<>>)
      BY <2>3
    <2> QED
      BY <2>5, <2>6, <1>2
  <1> QED
    BY <1>1, <1>2

\* A load adds the place of the line to what its session holds, as the line
\* left it, and changes nothing else.
LEMMA LoadHolds ==
    ASSUME TypeInv, NEW s \in Sessions, Load(s)
    PROVE  LET line == Current(s)
               p == line.place
           IN  /\ line \in Line /\ p \in Places
               /\ Accepts(Found(s, p).row, line)
               /\ sess'[s] \in Session
               /\ sess'[s].step = "flush" /\ sess'[s].todo = sess[s].todo
               /\ sess'[s].todo # <<>>
               /\ DOMAIN sess'[s].loaded = DOMAIN sess[s].loaded \cup {p}
               /\ sess'[s].loaded[p] = Changed(Found(s, p), line)
               /\ \A q \in DOMAIN sess[s].loaded \ {p} : sess'[s].loaded[q] = sess[s].loaded[q]
               /\ \A t \in Sessions \ {s} : sess'[t] = sess[t]
               /\ sess' \in [Sessions -> Session]
  <1> DEFINE line == Current(s)
             p == line.place
             image == Changed(Found(s, p), line)
             loaded == With(sess[s].loaded, p, image)
             next == [sess[s] EXCEPT !.step = "flush", !.loaded = loaded]
  <1>1. sess[s] \in Session /\ sess[s].todo \in Seq(Line) /\ sess[s].todo # <<>>
        /\ DOMAIN sess[s].loaded \subseteq Places
        /\ \A q \in DOMAIN sess[s].loaded : sess[s].loaded[q] \in Image
    BY SessionType DEF TypeInv, Held, Load
  <1>2. line \in Line
    BY <1>1 DEF Current
  <1>3. p \in Places
    BY <1>2 DEF Line
  <1>4. image \in Image
    BY <1>2, <1>3, FoundImage, ChangedImage
  <1>5. sess' = [sess EXCEPT ![s] = next]
    BY DEF Load
  <1>6. Accepts(Found(s, p).row, line)
    BY DEF Load
  <1> HIDE DEF image, line, p
  <1>7. /\ DOMAIN loaded = DOMAIN sess[s].loaded \cup {p}
        /\ loaded[p] = image
        /\ \A q \in DOMAIN sess[s].loaded \ {p} : loaded[q] = sess[s].loaded[q]
    BY DEF With
  <1>8. loaded \in Loads
    <2>1. loaded = [q \in DOMAIN loaded |-> loaded[q]]
      BY DEF With
    <2>2. \A q \in DOMAIN loaded : loaded[q] \in Image
      BY <1>1, <1>4, <1>7
    <2>3. DOMAIN loaded \in SUBSET Places
      BY <1>1, <1>3, <1>7
    <2> HIDE DEF loaded
    <2>4. loaded \in [DOMAIN loaded -> Image]
      BY <2>1, <2>2
    <2> QED
      BY <2>3, <2>4 DEF Loads
  <1> HIDE DEF loaded
  <1>9. next \in Session /\ next.step = "flush" /\ next.todo = sess[s].todo /\ next.loaded = loaded
    BY <1>1, <1>8 DEF Session
  <1> HIDE DEF next
  <1>10. sess' \in [Sessions -> Session]
    BY <1>5, <1>9 DEF TypeInv, Types
  <1>11. sess'[s] = next /\ \A t \in Sessions \ {s} : sess'[t] = sess[t]
    BY <1>5 DEF TypeInv, Types
  <1> QED
    BY <1>1, <1>2, <1>3, <1>6, <1>7, <1>9, <1>10, <1>11 DEF image, line, p

\* A request starts with nothing in memory.
LEMMA SendHolds ==
    ASSUME TypeInv, NEW s \in Sessions, Send(s)
    PROVE  /\ sess' \in [Sessions -> Session]
           /\ sess'[s].step = "load" /\ sess'[s].todo # <<>>
           /\ DOMAIN sess'[s].loaded = {}
           /\ \A t \in Sessions \ {s} : sess'[t] = sess[t]
  <1>1. PICK request \in Requests :
            sess' = [sess EXCEPT ![s] = [Idle EXCEPT !.step = "load", !.todo = request]]
    BY DEF Send
  <1> DEFINE next == [Idle EXCEPT !.step = "load", !.todo = request]
  <1>2. request \in Seq(Line) /\ request # <<>>
    BY RequestsAssumption
  <1>3. next \in Session /\ next.step = "load" /\ next.todo = request /\ next.loaded = Idle.loaded
    BY <1>2, IdleSession DEF Session
  <1> HIDE DEF next
  <1>4. sess' = [sess EXCEPT ![s] = next]
    BY <1>1 DEF next
  <1> QED
    BY <1>2, <1>3, <1>4, IdleSession DEF TypeInv, Types

\* A flush moves on to the next line and keeps what is in memory.
LEMMA FlushHolds ==
    ASSUME TypeInv, NEW s \in Sessions, Flush(s)
    PROVE  /\ sess' \in [Sessions -> Session]
           /\ sess'[s].step \in {"load", "commit"}
           /\ sess'[s].step = "load" => sess'[s].todo # <<>>
           /\ sess'[s].loaded = sess[s].loaded
           /\ \A t \in Sessions \ {s} : sess'[t] = sess[t]
           /\ lock' \in [Places -> Sessions \cup {None}]
  <1> DEFINE step == IF Len(sess[s].todo) = 1 THEN "commit" ELSE "load"
             rest == Tail(sess[s].todo)
             next == [sess[s] EXCEPT !.todo = rest, !.step = step]
  <1>1. sess[s] \in Session /\ sess[s].todo \in Seq(Line) /\ sess[s].todo # <<>>
    BY SessionType DEF TypeInv, Held, Flush
  <1>2. rest \in Seq(Line) /\ Len(rest) = Len(sess[s].todo) - 1
    BY <1>1, HeadTailProperties
  <1>3. step = "load" => rest # <<>>
    <2> SUFFICES ASSUME Len(sess[s].todo) # 1 PROVE rest # <<>>
      OBVIOUS
    <2>1. Len(sess[s].todo) \in Nat \ {0}
      BY <1>1, EmptySeq
    <2> HIDE DEF rest
    <2>2. \A n \in Nat \ {0} : n # 1 => n - 1 # 0
      OBVIOUS
    <2>3. Len(rest) # 0
      BY <1>2, <2>1, <2>2
    <2> QED
      BY <2>3
  <1>4. step \in {"load", "commit"}
    OBVIOUS
  <1>5. sess' = [sess EXCEPT ![s] = next]
    BY DEF Flush
  <1> HIDE DEF step, rest
  <1>6. next \in Session /\ next.step = step /\ next.todo = rest /\ next.loaded = sess[s].loaded
    BY <1>1, <1>2, <1>4 DEF Session
  <1> HIDE DEF next
  <1>7. sess' \in [Sessions -> Session] /\ sess'[s] = next
        /\ \A t \in Sessions \ {s} : sess'[t] = sess[t]
    BY <1>5, <1>6 DEF TypeInv, Types
  <1>8. lock' \in [Places -> Sessions \cup {None}]
    <2>1. lock' = lock \/ lock' = [lock EXCEPT ![Current(s).place] = s]
      BY DEF Flush
    <2> QED
      BY <2>1 DEF TypeInv, Types
  <1> QED
    BY <1>3, <1>4, <1>6, <1>7, <1>8

\* A session that ends, by a commit or a rollback, holds nothing any more.
LEMMA EndHolds ==
    ASSUME TypeInv, NEW s \in Sessions, sess' = [sess EXCEPT ![s] = Idle],
           lock' = [p \in Places |-> IF lock[p] = s THEN None ELSE lock[p]]
    PROVE  /\ sess' \in [Sessions -> Session]
           /\ sess'[s].step = "idle"
           /\ DOMAIN sess'[s].loaded = {}
           /\ \A t \in Sessions \ {s} : sess'[t] = sess[t]
           /\ lock' \in [Places -> Sessions \cup {None}]
  BY IdleSession DEF TypeInv, Types

LEMMA WrittenRow ==
    ASSUME NEW image \in Image, NEW current \in Row
    PROVE  /\ Written(image, current) \in Row
           /\ \A c \in Columns : Written(image, current)[c] =
                 IF c \in image.changed THEN image.row[c] ELSE current[c]
  <1>1. current = [c \in Columns |-> current[c]]
    BY DEF Row, Columns
  <1>2. DOMAIN current = Columns
    BY <1>1
  <1>3. \A c \in Columns : current[c] \in Int /\ image.row[c] \in Int
    BY DEF Image, Row, Columns
  <1>4. Written(image, current) =
            [c \in Columns |-> IF c \in image.changed THEN image.row[c] ELSE current[c]]
    BY <1>2 DEF Written
  <1>5. Written(image, current) \in [Columns -> Int]
    BY <1>3, <1>4
  <1> QED
    BY <1>4, <1>5 DEF Row, Columns

\* What a commit does to the rows of a place: nothing where its session
\* holds nothing, one more row where it inserted one, and the changed columns
\* of the first row elsewhere.
LEMMA CommitRows ==
    ASSUME TypeInv, NEW s \in Sessions, Commit(s), NEW p \in Places
    PROVE  /\ db'[p] \in Seq(Row)
           /\ p \notin DOMAIN sess[s].loaded =>
                 db'[p] = db[p] /\ version'[p] = version[p] /\ booked'[p] = booked[p]
           /\ p \in DOMAIN sess[s].loaded =>
                 /\ version'[p] = version[p] + 1
                 /\ booked'[p] = booked[p] + sess[s].loaded[p].moved
                 /\ db'[p] # <<>>
                 /\ sess[s].loaded[p].mine => db'[p] = Append(db[p], sess[s].loaded[p].row)
                 /\ ~sess[s].loaded[p].mine =>
                       /\ Len(db'[p]) = Len(db[p])
                       /\ db'[p][1] = Written(sess[s].loaded[p], db[p][1])
                       /\ \A k \in 2..Len(db[p]) : db'[p][k] = db[p][k]
  <1> DEFINE loaded == sess[s].loaded
  <1>1. db[p] \in Seq(Row)
    BY DEF TypeInv, Types
  <1>2. db'[p] = IF p \notin DOMAIN loaded THEN db[p]
                 ELSE IF loaded[p].mine THEN Append(db[p], loaded[p].row)
                 ELSE [db[p] EXCEPT ![1] = Written(loaded[p], @)]
    BY DEF Commit
  <1>3. /\ version'[p] = IF p \in DOMAIN loaded THEN version[p] + 1 ELSE version[p]
        /\ booked'[p] = IF p \in DOMAIN loaded THEN booked[p] + loaded[p].moved ELSE booked[p]
    BY DEF Commit
  <1>4. CASE p \notin DOMAIN loaded
    BY <1>1, <1>2, <1>3, <1>4
  <1>5. CASE p \in DOMAIN loaded /\ loaded[p].mine
    <2>1. db'[p] = Append(db[p], loaded[p].row)
      BY <1>2, <1>5
    <2>2. loaded[p].row \in Row
      BY <1>5, SessionType DEF TypeInv, Image
    <2>3. db'[p] \in Seq(Row) /\ Len(db'[p]) = Len(db[p]) + 1
      BY <1>1, <2>1, <2>2, AppendProperties
    <2>4. db'[p] # <<>>
      BY <1>1, <2>3
    <2> QED
      BY <1>3, <1>5, <2>1, <2>3, <2>4
  <1>6. CASE p \in DOMAIN loaded /\ ~loaded[p].mine
    <2> DEFINE row == Written(loaded[p], db[p][1])
    <2>1. db[p] # <<>>
      BY <1>6 DEF TypeInv, Held
    <2>2. 1 \in 1..Len(db[p])
      BY <1>1, <2>1
    <2>3. db[p][1] \in Row
      BY <1>1, <2>2
    <2>4. row \in Row
      BY <1>6, <2>3, SessionType, WrittenRow DEF TypeInv
    <2>5. db'[p] = [db[p] EXCEPT ![1] = row]
      BY <1>2, <1>6
    <2> HIDE DEF row
    <2>6. db'[p] \in Seq(Row) /\ Len(db'[p]) = Len(db[p]) /\ db'[p][1] = row
          /\ \A k \in 2..Len(db[p]) : db'[p][k] = db[p][k]
      BY <1>1, <2>2, <2>4, <2>5, ExceptSeq
    <2>7. db'[p] # <<>>
      BY <1>1, <2>2, <2>6
    <2>8. db'[p][1] = Written(loaded[p], db[p][1])
      BY <2>6 DEF row
    <2> QED
      BY <1>3, <1>6, <2>6, <2>7, <2>8
  <1> QED
    BY <1>4, <1>5, <1>6

-----------------------------------------------------------------------------
(* Types *)

\* A step is one of a session; those that raise roll it back.
LEMMA Steps ==
    ASSUME Next
    PROVE  \E s \in Sessions :
              Send(s) \/ Load(s) \/ Flush(s) \/ Commit(s) \/ Rollback(s)
  BY DEF Next, Step, LoadRaises, DeadlockVictim

LEMMA InitTypes == Init => TypeInv
  <1> SUFFICES ASSUME Init PROVE TypeInv
    OBVIOUS
  <1>1. Quantities(Start, 0) \in Row
    BY StartAssumption, RowType
  <1>2. db \in [Places -> Seq(Row)]
    <2>1. {<<>>, <<Quantities(Start, 0)>>} \subseteq Seq(Row)
      BY <1>1
    <2> QED
      BY <2>1 DEF Init
  <1>3. \A s \in Sessions : sess[s] = Idle
    BY DEF Init
  <1>4. sess \in [Sessions -> Session]
    BY IdleSession DEF Init
  <1>5. Held
    BY <1>3, IdleSession DEF Held
  <1> QED
    BY <1>2, <1>4, <1>5, StartAssumption DEF Init, TypeInv, Types

LEMMA TypesPreserved == TypeInv /\ [Next]_vars => TypeInv'
  <1> SUFFICES ASSUME TypeInv, [Next]_vars PROVE TypeInv'
    OBVIOUS
  <1>1. CASE UNCHANGED vars
    BY <1>1 DEF TypeInv, Types, Held, Current, vars
  <1>2. CASE Next
    <2>1. PICK s \in Sessions : Send(s) \/ Load(s) \/ Flush(s) \/ Commit(s) \/ Rollback(s)
      BY <1>2, Steps
    <2>2. CASE Send(s)
      <3>1. sent' \in 0..MaxRequests
        BY <2>2, StartAssumption DEF Send, TypeInv, Types
      <3>2. Types'
        BY <2>2, <3>1, SendHolds DEF Send, TypeInv, Types
      <3>3. Held'
        BY <2>2, SendHolds DEF Send, TypeInv, Held, Current
      <3> QED
        BY <3>2, <3>3 DEF TypeInv
    <2>3. CASE Load(s)
      <3>1. Types'
        BY <2>3, LoadHolds DEF Load, TypeInv, Types
      <3>2. ~Found(s, Current(s).place).mine => db[Current(s).place] # <<>>
        BY <2>3, LoadHolds, FoundImage
      <3>3. Changed(Found(s, Current(s).place), Current(s)).mine = Found(s, Current(s).place).mine
        BY <2>3, LoadHolds, FoundImage, ChangedImage
      <3>4. Current(s)' = Current(s)
        BY <2>3, LoadHolds DEF Current
      <3>5. db' = db
        BY <2>3 DEF Load
      <3>6. ASSUME NEW t \in Sessions
            PROVE  /\ sess'[t].step \in {"load", "flush"} => sess'[t].todo # <<>>
                   /\ sess'[t].step = "flush" => Current(t)'.place \in DOMAIN sess'[t].loaded
                   /\ \A p \in DOMAIN sess'[t].loaded : ~sess'[t].loaded[p].mine => db'[p] # <<>>
        <4>1. CASE t = s
          BY <2>3, <3>2, <3>3, <3>4, <3>5, <4>1, LoadHolds DEF TypeInv, Held
        <4>2. CASE t # s
          <5>1. sess'[t] = sess[t]
            BY <2>3, <4>2, LoadHolds
          <5> QED
            BY <5>1, <3>5 DEF TypeInv, Held, Current
        <4> QED
          BY <4>1, <4>2
      <3> QED
        BY <3>1, <3>6 DEF TypeInv, Held
    <2>4. CASE Flush(s)
      <3>1. Types'
        BY <2>4, FlushHolds DEF Flush, TypeInv, Types
      <3>2. Held'
        BY <2>4, FlushHolds DEF Flush, TypeInv, Held, Current
      <3> QED
        BY <3>1, <3>2 DEF TypeInv
    <2>5. CASE Commit(s)
      <3>1. /\ sess' \in [Sessions -> Session]
            /\ sess'[s].step = "idle"
            /\ DOMAIN sess'[s].loaded = {}
            /\ \A t \in Sessions \ {s} : sess'[t] = sess[t]
            /\ lock' \in [Places -> Sessions \cup {None}]
        BY <2>5, EndHolds DEF Commit
      <3>2. db' \in [Places -> Seq(Row)]
        BY <2>5, CommitRows DEF Commit
      <3>3. version' \in [Places -> Nat]
        BY <2>5 DEF Commit, TypeInv, Types
      <3>4. booked' \in [Places -> Int]
        <4>1. \A p \in DOMAIN sess[s].loaded : sess[s].loaded[p].moved \in Int
          BY SessionType DEF TypeInv, Image
        <4> QED
          BY <2>5, <4>1 DEF Commit, TypeInv, Types
      <3>5. stale' \in SUBSET Places
        BY <2>5, SessionType DEF Commit, TypeInv, Types
      <3>6. Types'
        BY <2>5, <3>1, <3>2, <3>3, <3>4, <3>5 DEF Commit, TypeInv, Types
      <3>7. \A p \in Places : db[p] # <<>> => db'[p] # <<>>
        BY <2>5, CommitRows
      <3>8. \A t \in Sessions : DOMAIN sess[t].loaded \subseteq Places
        BY SessionType DEF TypeInv
      <3>9. Held'
        BY <3>1, <3>7, <3>8 DEF TypeInv, Held, Current
      <3> QED
        BY <3>6, <3>9 DEF TypeInv
    <2>6. CASE Rollback(s)
      <3>1. Types'
        BY <2>6, EndHolds DEF Rollback, TypeInv, Types
      <3>2. Held'
        BY <2>6, EndHolds DEF Rollback, TypeInv, Held, Current
      <3> QED
        BY <3>1, <3>2 DEF TypeInv
    <2> QED
      BY <2>1, <2>2, <2>3, <2>4, <2>5, <2>6
  <1> QED
    BY <1>1, <1>2

LEMMA TypesHold == Spec => []TypeInv
  <1>1. Init => TypeInv
    BY InitTypes
  <1>2. TypeInv /\ [Next]_vars => TypeInv'
    BY TypesPreserved
  <1> QED
    BY <1>1, <1>2, PTL DEF Spec

\* Every state is well typed, for every number of sessions, places and
\* requests.
THEOREM TypeCorrect == Spec => []TypeOK
  <1>1. TypeInv => TypeOK
    <2> SUFFICES ASSUME TypeInv PROVE TypeOK
      OBVIOUS
    <2>1. \A p \in Places : \A k \in 1..Len(db[p]) : db[p][k] \in Row
      BY DEF TypeInv, Types
    <2>2. ASSUME NEW s \in Sessions
          PROVE  /\ sess[s].step \in {"idle", "load", "flush", "commit"}
                 /\ \A n \in 1..Len(sess[s].todo) : sess[s].todo[n] \in Line
                 /\ \A p \in DOMAIN sess[s].loaded : sess[s].loaded[p] \in Image
      BY SessionType DEF TypeInv, Session
    <2> QED
      BY <2>1, <2>2 DEF TypeInv, Types, TypeOK
  <1> QED
    BY <1>1, TypesHold, PTL

-----------------------------------------------------------------------------
(* Nothing below zero *)

AboveZero(row) == row.qty_on_hand >= 0 /\ row.qty_reserved >= 0

LEMMA ZeroPreserved == ZeroInv /\ [Next]_vars => (NeverBelowZero /\ ImagesAboveZero)'
  <1> SUFFICES ASSUME ZeroInv, [Next]_vars PROVE (NeverBelowZero /\ ImagesAboveZero)'
    OBVIOUS
  <1>1. TypeInv
    BY DEF ZeroInv
  <1>2. \A p \in Places : \A k \in 1..Len(db[p]) : AboveZero(db[p][k])
    BY DEF ZeroInv, NeverBelowZero, AboveZero
  <1>3. \A s \in Sessions : \A p \in DOMAIN sess[s].loaded : AboveZero(sess[s].loaded[p].row)
    BY DEF ZeroInv, ImagesAboveZero, AboveZero
  <1>4. SUFFICES /\ \A p \in Places : \A k \in 1..Len(db'[p]) : AboveZero(db'[p][k])
                 /\ \A s \in Sessions : \A p \in DOMAIN sess'[s].loaded :
                       AboveZero(sess'[s].loaded[p].row)
    BY DEF NeverBelowZero, ImagesAboveZero, AboveZero
  <1>5. CASE UNCHANGED vars
    BY <1>2, <1>3, <1>5 DEF vars
  <1>6. CASE Next
    <2>1. PICK s \in Sessions : Send(s) \/ Load(s) \/ Flush(s) \/ Commit(s) \/ Rollback(s)
      BY <1>6, Steps
    <2>2. CASE Send(s)
      BY <1>1, <1>2, <1>3, <2>2, SendHolds DEF Send
    <2>3. CASE Load(s)
      <3> DEFINE line == Current(s)
                 p == line.place
                 old == Found(s, p)
      <3>1. line \in Line /\ p \in Places /\ Accepts(old.row, line)
        BY <1>1, <2>3, LoadHolds
      <3>2. old \in Image /\ (p \in DOMAIN sess[s].loaded => old = sess[s].loaded[p])
        BY <1>1, <3>1, FoundImage
      <3>3. AboveZero(old.row)
        <4>1. CASE p \in DOMAIN sess[s].loaded
          BY <1>3, <3>2, <4>1
        <4>2. CASE p \notin DOMAIN sess[s].loaded /\ db[p] = <<>>
          <5>1. old.row = Quantities(0, 0)
            BY <4>2 DEF Found
          <5> QED
            BY <5>1, RowType DEF AboveZero
        <4>3. CASE p \notin DOMAIN sess[s].loaded /\ db[p] # <<>>
          <5>1. old.row = db[p][1]
            BY <4>3 DEF Found
          <5>2. db[p] \in Seq(Row)
            BY <1>1, <3>1 DEF TypeInv, Types
          <5>3. 1 \in 1..Len(db[p])
            BY <4>3, <5>2
          <5> QED
            BY <1>2, <3>1, <5>1, <5>3
        <4> QED
          BY <4>1, <4>2, <4>3
      <3>4. AboveZero(After(old.row, line))
        <4>1. old.row \in Row
          BY <3>2 DEF Image
        <4> QED
          BY <3>1, <3>3, <4>1, AcceptedLine DEF AboveZero
      <3>5. sess'[s].loaded[p].row = After(old.row, line)
        BY <1>1, <2>3, <3>1, <3>2, LoadHolds, ChangedImage
      <3>6. ASSUME NEW t \in Sessions, NEW q \in DOMAIN sess'[t].loaded
            PROVE  AboveZero(sess'[t].loaded[q].row)
        <4>1. CASE t # s
          BY <1>1, <1>3, <2>3, <4>1, LoadHolds
        <4>2. CASE t = s /\ q = p
          BY <3>4, <3>5, <4>2
        <4>3. CASE t = s /\ q # p
          <5>1. q \in DOMAIN sess[s].loaded /\ sess'[s].loaded[q] = sess[s].loaded[q]
            BY <1>1, <2>3, <3>6, <4>3, LoadHolds
          <5> QED
            BY <1>3, <4>3, <5>1
        <4> QED
          BY <4>1, <4>2, <4>3
      <3> QED
        BY <1>2, <2>3, <3>6 DEF Load
    <2>4. CASE Flush(s)
      BY <1>1, <1>2, <1>3, <2>4, FlushHolds DEF Flush
    <2>5. CASE Commit(s)
      <3>1. \A t \in Sessions : \A q \in DOMAIN sess'[t].loaded : AboveZero(sess'[t].loaded[q].row)
        BY <1>1, <1>3, <2>5, EndHolds DEF Commit
      <3>2. ASSUME NEW p \in Places, NEW k \in 1..Len(db'[p])
            PROVE  AboveZero(db'[p][k])
        <4> DEFINE image == sess[s].loaded[p]
        <4>1. db[p] \in Seq(Row)
          BY <1>1 DEF TypeInv, Types
        <4>2. CASE p \notin DOMAIN sess[s].loaded
          BY <1>1, <1>2, <2>5, <3>2, <4>2, CommitRows
        <4>3. CASE p \in DOMAIN sess[s].loaded /\ image.mine
          <5>1. db'[p] = Append(db[p], image.row)
            BY <1>1, <2>5, <4>3, CommitRows
          <5>2. image.row \in Row
            BY <1>1, <4>3, SessionType DEF Image, TypeInv
          <5>3. /\ Len(db'[p]) = Len(db[p]) + 1
                /\ \A i \in 1..Len(db[p]) : db'[p][i] = db[p][i]
                /\ db'[p][Len(db[p]) + 1] = image.row
            BY <4>1, <5>1, <5>2, AppendProperties
          <5>4. k \in 1..Len(db[p]) \/ k = Len(db[p]) + 1
            BY <4>1, <5>3, <3>2
          <5> QED
            BY <1>2, <1>3, <4>3, <5>3, <5>4
        <4>4. CASE p \in DOMAIN sess[s].loaded /\ ~image.mine
          <5>1. /\ Len(db'[p]) = Len(db[p])
                /\ db'[p][1] = Written(image, db[p][1])
                /\ \A i \in 2..Len(db[p]) : db'[p][i] = db[p][i]
            BY <1>1, <2>5, <4>4, CommitRows
          <5>2. 1 \in 1..Len(db[p]) /\ (k = 1 \/ k \in 2..Len(db[p])) /\ k \in 1..Len(db[p])
            BY <4>1, <5>1, <3>2
          <5>3. AboveZero(db[p][1]) /\ AboveZero(image.row) /\ AboveZero(db[p][k])
            BY <1>2, <1>3, <4>4, <5>2
          <5>4. db[p][1] \in Row /\ image \in Image
            BY <1>1, <4>1, <4>4, <5>2, SessionType DEF TypeInv
          <5>5. AboveZero(Written(image, db[p][1]))
            BY <5>3, <5>4, WrittenRow DEF AboveZero, Columns
          <5> QED
            BY <5>1, <5>2, <5>3, <5>5
        <4> QED
          BY <4>2, <4>3, <4>4
      <3> QED
        BY <3>1, <3>2
    <2>6. CASE Rollback(s)
      BY <1>1, <1>2, <1>3, <2>6, EndHolds DEF Rollback
    <2> QED
      BY <2>1, <2>2, <2>3, <2>4, <2>5, <2>6
  <1> QED
    BY <1>5, <1>6

\* NeverBelowZero: however the requests of any number of sessions interleave,
\* and with no version check at all, no committed row of a place ever has less
\* than nothing on hand or reserved.
THEOREM ZeroHolds == Spec => []NeverBelowZero
  <1>1. Init => ZeroInv
    <2> SUFFICES ASSUME Init PROVE ZeroInv
      OBVIOUS
    <2>1. Quantities(Start, 0).qty_on_hand >= 0 /\ Quantities(Start, 0).qty_reserved >= 0
      BY StartAssumption DEF Quantities
    <2>2. ASSUME NEW p \in Places, NEW k \in 1..Len(db[p])
          PROVE  db[p][k] = Quantities(Start, 0)
      <3>1. db[p] = <<>> \/ db[p] = <<Quantities(Start, 0)>>
        BY DEF Init
      <3>2. CASE db[p] = <<>>
        BY <2>2, <3>2
      <3>3. CASE db[p] = <<Quantities(Start, 0)>>
        BY <2>2, <3>3
      <3> QED
        BY <3>1, <3>2, <3>3
    <2>3. NeverBelowZero
      BY <2>1, <2>2 DEF NeverBelowZero
    <2>4. ImagesAboveZero
      BY IdleSession DEF Init, ImagesAboveZero
    <2> QED
      BY <2>3, <2>4, InitTypes DEF ZeroInv
  <1>2. ZeroInv /\ [Next]_vars => ZeroInv'
    BY ZeroPreserved, TypesPreserved DEF ZeroInv
  <1>3. ZeroInv => NeverBelowZero
    BY DEF ZeroInv
  <1> QED
    BY <1>1, <1>2, <1>3, PTL DEF Spec

-----------------------------------------------------------------------------
(* A place with two rows *)

\* DuplicatedPlaceIsDead: once two sessions have each inserted a row for a
\* place, the query that expects one row raises in every request that comes
\* later, so that the place's rows never change again.
THEOREM DuplicatesAreDead == Spec => DuplicatedPlaceIsDead
  <1>1. TypeInv /\ [Next]_vars =>
          [\A p \in Places :
             (Len(db[p]) > 1 /\ \A s \in Sessions : p \notin DOMAIN sess[s].loaded) =>
                /\ db'[p] = db[p]
                /\ \A s \in Sessions : p \notin DOMAIN sess'[s].loaded]_vars
    <2> SUFFICES ASSUME TypeInv, Next, NEW p \in Places, Len(db[p]) > 1,
                        \A t \in Sessions : p \notin DOMAIN sess[t].loaded
                 PROVE  db'[p] = db[p] /\ \A t \in Sessions : p \notin DOMAIN sess'[t].loaded
      OBVIOUS
    <2>1. PICK s \in Sessions : Send(s) \/ Load(s) \/ Flush(s) \/ Commit(s) \/ Rollback(s)
      BY Steps
    <2>2. CASE Send(s)
      BY <2>2, SendHolds DEF Send
    <2>3. CASE Load(s)
      <3>1. Visible(s, Current(s).place) <= 1
        BY <2>3 DEF Load
      <3>2. Visible(s, p) = Len(db[p])
        BY DEF Visible, TypeInv, Types
      <3>3. p # Current(s).place
        BY <3>1, <3>2 DEF TypeInv, Types
      <3>4. DOMAIN sess'[s].loaded = DOMAIN sess[s].loaded \cup {Current(s).place}
        BY <2>3, LoadHolds
      <3>5. \A t \in Sessions \ {s} : sess'[t] = sess[t]
        BY <2>3, LoadHolds
      <3> QED
        BY <2>3, <3>3, <3>4, <3>5 DEF Load
    <2>4. CASE Flush(s)
      BY <2>4, FlushHolds DEF Flush
    <2>5. CASE Commit(s)
      BY <2>5, EndHolds, CommitRows DEF Commit
    <2>6. CASE Rollback(s)
      BY <2>6, EndHolds DEF Rollback
    <2> QED
      BY <2>1, <2>2, <2>3, <2>4, <2>5, <2>6
  <1>2. Spec => []TypeInv
    BY TypesHold
  <1> QED
    BY <1>1, <1>2, PTL DEF Spec, DuplicatedPlaceIsDead

-----------------------------------------------------------------------------
(* Places without a stale commit *)

\* The rows of a place balance and are what was booked.
PlaceBalances(p) ==
    /\ Len(db[p]) <= 1
    /\ db[p] # <<>> => Balanced(db[p][1]) /\ db[p][1].qty_on_hand = booked[p]
    /\ db[p] = <<>> => booked[p] = 0

\* What session s holds of p has its version or an earlier one, and follows
\* from the committed row if it is fresh.
ImageFollows(s, p) ==
    /\ sess[s].loaded[p].version <= version[p]
    /\ (p \notin stale /\ sess[s].loaded[p].version = version[p])
          => Follows(sess[s].loaded[p], p)

LEMMA FreshParts ==
    ASSUME TypeInv
    PROVE  FreshInv <=> /\ \A p \in Places \ stale : PlaceBalances(p)
                        /\ \A s \in Sessions : \A p \in DOMAIN sess[s].loaded : ImageFollows(s, p)
  BY DEF FreshInv, FreshCommitsBalance, EmptyIsUnbooked, FreshImages, PlaceBalances,
         ImageFollows, Balanced

\* What get_or_create returns follows from the committed row if it is fresh.
LEMMA FoundFollows ==
    ASSUME FreshInv, NEW s \in Sessions, NEW p \in Places
    PROVE  /\ Found(s, p).version <= version[p]
           /\ (p \notin stale /\ Found(s, p).version = version[p]) => Follows(Found(s, p), p)
  <1>1. TypeInv
    BY DEF FreshInv
  <1>2. CASE p \in DOMAIN sess[s].loaded
    <2>1. Found(s, p) = sess[s].loaded[p]
      BY <1>2 DEF Found
    <2> QED
      BY <1>2, <2>1 DEF FreshInv, FreshImages
  <1>3. CASE p \notin DOMAIN sess[s].loaded
    <2>1. /\ Found(s, p).row = IF db[p] = <<>> THEN Quantities(0, 0) ELSE db[p][1]
          /\ Found(s, p).changed = {} /\ Found(s, p).version = version[p]
          /\ Found(s, p).moved = 0 /\ Found(s, p).mine = (db[p] = <<>>)
      BY <1>3 DEF Found
    <2>2. version[p] \in Nat /\ db[p] \in Seq(Row)
      BY <1>1 DEF TypeInv, Types
    <2>3. ASSUME p \notin stale PROVE Follows(Found(s, p), p)
      <3>1. PlaceBalances(p)
        BY <1>1, <2>3, FreshParts
      <3>2. CASE db[p] = <<>>
        <4>1. Balanced(Quantities(0, 0)) /\ Quantities(0, 0).qty_on_hand = 0
          BY DEF Balanced, Quantities
        <4> QED
          BY <2>1, <3>2, <4>1 DEF Follows
      <3>3. CASE db[p] # <<>>
        <4>1. Balanced(db[p][1])
          BY <3>1, <3>3 DEF PlaceBalances
        <4>2. db[p][1].qty_on_hand \in Int
          <5>1. 1 \in 1..Len(db[p])
            BY <2>2, <3>3
          <5>2. db[p][1] \in Row
            BY <2>2, <5>1
          <5> QED
            BY <5>2 DEF Row
        <4>3. db[p][1].qty_on_hand = db[p][1].qty_on_hand + 0
          BY <4>2
        <4> QED
          BY <2>1, <3>3, <4>1, <4>3 DEF Follows
      <3> QED
        BY <3>2, <3>3
    <2> QED
      BY <2>1, <2>2, <2>3
  <1> QED
    BY <1>2, <1>3

\* A line that is accepted keeps an image following from the committed row.
LEMMA LineFollows ==
    ASSUME TypeInv, NEW p \in Places, NEW image \in Image, NEW line \in Line,
           Accepts(image.row, line), Follows(image, p)
    PROVE  Follows(Changed(image, line), p)
  <1> DEFINE next == Changed(image, line)
             by == IF line.kind = "adjust" THEN line.qty ELSE 0
  <1>1. image.row \in Row /\ image.moved \in Int /\ image.row.qty_on_hand \in Int
    BY DEF Image, Row
  <1>2. by \in Int
    BY DEF Line
  <1>3. /\ next.row = After(image.row, line) /\ next.mine = image.mine
        /\ next.moved = image.moved + by
        /\ \A c \in Columns \ next.changed : c \notin image.changed /\ next.row[c] = image.row[c]
    BY ChangedImage
  <1>4. Balanced(next.row) /\ next.row.qty_on_hand = image.row.qty_on_hand + by
    BY <1>1, <1>3, AcceptedLine DEF Follows
  <1> SUFFICES Follows(next, p)
    OBVIOUS
  <1> HIDE DEF next, by
  <1>5. CASE image.mine
    <2>1. db[p] = <<>> /\ image.row.qty_on_hand = image.moved
      BY <1>5 DEF Follows
    <2>2. next.row.qty_on_hand = next.moved
      BY <1>1, <1>2, <1>3, <1>4, <2>1
    <2> QED
      BY <1>3, <1>4, <1>5, <2>1, <2>2, Zenon DEF Follows
  <1>6. CASE ~image.mine
    <2>1. /\ db[p] # <<>>
          /\ image.row.qty_on_hand = db[p][1].qty_on_hand + image.moved
          /\ \A c \in Columns \ image.changed : image.row[c] = db[p][1][c]
      BY <1>6 DEF Follows
    <2>2. db[p] \in Seq(Row)
      BY DEF TypeInv, Types
    <2>3. 1 \in 1..Len(db[p])
      BY <2>1, <2>2
    <2>4. db[p][1].qty_on_hand \in Int
      <3>1. db[p][1] \in Row
        BY <2>2, <2>3
      <3> QED
        BY <3>1 DEF Row
    <2>5. next.row.qty_on_hand = db[p][1].qty_on_hand + next.moved
      BY <1>1, <1>2, <1>3, <1>4, <2>1, <2>4
    <2>6. \A c \in Columns \ next.changed : next.row[c] = db[p][1][c]
      BY <1>3, <2>1
    <2> QED
      BY <1>3, <1>4, <1>6, <2>1, <2>5, <2>6, Zenon DEF Follows
  <1> QED
    BY <1>5, <1>6

\* A fresh commit leaves a place that balances.
LEMMA CommitBalances ==
    ASSUME FreshInv, NEW s \in Sessions, Commit(s), NEW p \in Places \ stale'
    PROVE  PlaceBalances(p)'
  <1> DEFINE image == sess[s].loaded[p]
  <1>1. TypeInv
    BY DEF FreshInv
  <1>2. p \notin stale /\ (p \in DOMAIN sess[s].loaded => image.version = version[p])
    BY DEF Commit
  <1>3. PlaceBalances(p)
    BY <1>1, <1>2, FreshParts
  <1>4. db[p] \in Seq(Row)
    BY <1>1 DEF TypeInv, Types
  <1>5. CASE p \notin DOMAIN sess[s].loaded
    <2>1. db'[p] = db[p] /\ booked'[p] = booked[p]
      BY <1>1, <1>5, CommitRows
    <2> QED
      BY <1>3, <2>1 DEF PlaceBalances
  <1>6. CASE p \in DOMAIN sess[s].loaded
    <2>1. image \in Image /\ image.row \in Row /\ image.moved \in Int
      BY <1>1, <1>6, SessionType DEF TypeInv, Image
    <2>2. Follows(image, p)
      BY <1>2, <1>6 DEF FreshInv, FreshImages
    <2>3. booked'[p] = booked[p] + image.moved /\ db'[p] # <<>>
      BY <1>1, <1>6, CommitRows
    <2>4. db'[p][1] = image.row /\ Len(db'[p]) = 1 /\ booked'[p] = image.row.qty_on_hand
      <3>1. CASE image.mine
        <4>1. db[p] = <<>> /\ booked[p] = 0 /\ image.row.qty_on_hand = image.moved
          BY <1>3, <2>2, <3>1 DEF Follows, PlaceBalances
        <4>2. db'[p] = Append(db[p], image.row)
          BY <1>1, <1>6, <3>1, CommitRows
        <4>3. Len(db'[p]) = 1 /\ db'[p][1] = image.row
          BY <2>1, <4>1, <4>2
        <4> QED
          BY <2>1, <2>3, <4>1, <4>3
      <3>2. CASE ~image.mine
        <4>1. /\ db[p] # <<>>
              /\ image.row.qty_on_hand = db[p][1].qty_on_hand + image.moved
              /\ \A c \in Columns \ image.changed : image.row[c] = db[p][1][c]
          BY <2>2, <3>2 DEF Follows
        <4>2. Len(db[p]) = 1 /\ db[p][1].qty_on_hand = booked[p]
          <5>1. Len(db[p]) # 0 /\ Len(db[p]) \in Nat
            BY <1>4, <4>1
          <5>2. Len(db[p]) <= 1 /\ db[p][1].qty_on_hand = booked[p]
            BY <1>3, <4>1 DEF PlaceBalances
          <5>3. \A n \in Nat : (n # 0 /\ n <= 1) => n = 1
            OBVIOUS
          <5> QED
            BY <5>1, <5>2, <5>3
        <4>3. db[p][1] \in Row
          BY <1>4, <4>2
        <4>4. db'[p][1] = Written(image, db[p][1]) /\ Len(db'[p]) = 1
          BY <1>1, <1>6, <3>2, <4>2, CommitRows
        <4>5. Written(image, db[p][1]) \in Row
              /\ \A c \in Columns : Written(image, db[p][1])[c] = image.row[c]
          BY <2>1, <4>1, <4>3, WrittenRow
        <4>6. Written(image, db[p][1]) = image.row
          BY <2>1, <4>5 DEF Row, Columns
        <4> QED
          BY <2>1, <2>3, <4>1, <4>2, <4>4, <4>6
      <3> QED
        BY <3>1, <3>2
    <2>5. Balanced(image.row)
      BY <2>2 DEF Follows
    <2> QED
      BY <2>3, <2>4, <2>5 DEF PlaceBalances
  <1> QED
    BY <1>5, <1>6

LEMMA FreshPreserved == FreshInv /\ [Next]_vars => FreshInv'
  <1> SUFFICES ASSUME FreshInv, [Next]_vars PROVE FreshInv'
    OBVIOUS
  <1>1. TypeInv /\ TypeInv'
    BY TypesPreserved DEF FreshInv
  <1>2. /\ \A p \in Places \ stale : PlaceBalances(p)
        /\ \A s \in Sessions : \A p \in DOMAIN sess[s].loaded : ImageFollows(s, p)
    BY <1>1, FreshParts
  <1>3. SUFFICES /\ \A p \in Places \ stale' : PlaceBalances(p)'
                 /\ \A s \in Sessions : \A p \in DOMAIN sess'[s].loaded : ImageFollows(s, p)'
    BY <1>1 DEF FreshInv, FreshCommitsBalance, EmptyIsUnbooked, FreshImages, PlaceBalances,
                ImageFollows, Balanced
  <1>4. ASSUME UNCHANGED <<db, version, booked, stale>>
        PROVE  \A p \in Places \ stale' : PlaceBalances(p)'
    BY <1>2, <1>4 DEF PlaceBalances
  <1>5. ASSUME UNCHANGED <<db, version, stale>>, NEW s \in Sessions, NEW t \in Sessions,
               NEW p \in DOMAIN sess[t].loaded, sess'[s].loaded[p] = sess[t].loaded[p]
        PROVE  ImageFollows(s, p)'
    BY <1>2, <1>5 DEF ImageFollows, Follows
  <1>6. CASE UNCHANGED vars
    BY <1>4, <1>5, <1>6 DEF vars
  <1>7. CASE Next
    <2>1. PICK s \in Sessions : Send(s) \/ Load(s) \/ Flush(s) \/ Commit(s) \/ Rollback(s)
      BY <1>7, Steps
    <2>2. CASE Send(s)
      BY <1>1, <1>4, <1>5, <2>2, SendHolds DEF Send
    <2>3. CASE Load(s)
      <3> DEFINE line == Current(s)
      <3>0. PICK p \in Places : p = line.place
        BY <1>1, <2>3, LoadHolds
      <3> DEFINE image == Found(s, p)
      <3>1. line \in Line /\ p \in Places /\ Accepts(image.row, line)
            /\ DOMAIN sess'[s].loaded = DOMAIN sess[s].loaded \cup {p}
            /\ sess'[s].loaded[p] = Changed(image, line)
        BY <1>1, <2>3, <3>0, LoadHolds
      <3>2. \A q \in DOMAIN sess[s].loaded \ {p} : sess'[s].loaded[q] = sess[s].loaded[q]
        BY <1>1, <2>3, <3>0, LoadHolds
      <3>3. \A t \in Sessions \ {s} : sess'[t] = sess[t]
        BY <1>1, <2>3, LoadHolds
      <3>4. UNCHANGED <<db, version, booked, stale>>
        BY <2>3 DEF Load
      <3>5. ImageFollows(s, p)'
        <4>1. image \in Image
          BY <1>1, <3>1, FoundImage
        <4>2. Changed(image, line).version = image.version
          BY <3>1, <4>1, ChangedImage
        <4>3. image.version <= version[p]
          BY <3>1, FoundFollows
        <4>4. (p \notin stale /\ image.version = version[p]) => Follows(Changed(image, line), p)
          BY <1>1, <3>1, <4>1, FoundFollows, LineFollows
        <4> HIDE DEF image, line
        <4> QED
          BY <3>1, <3>4, <4>2, <4>3, <4>4 DEF ImageFollows, Follows
      <3> HIDE DEF image, line
      <3>6. ASSUME NEW t \in Sessions, NEW q \in DOMAIN sess'[t].loaded
            PROVE  ImageFollows(t, q)'
        <4>1. CASE t # s
          BY <1>5, <3>3, <3>4, <4>1
        <4>2. CASE t = s /\ q = p
          BY <3>5, <4>2
        <4>3. CASE t = s /\ q # p
          BY <1>5, <3>1, <3>2, <3>4, <4>3
        <4> QED
          BY <4>1, <4>2, <4>3
      <3> QED
        BY <1>4, <3>4, <3>6
    <2>4. CASE Flush(s)
      <3>1. \A t \in Sessions : sess'[t].loaded = sess[t].loaded
        BY <1>1, <2>4, FlushHolds
      <3> QED
        BY <1>4, <1>5, <2>4, <3>1 DEF Flush
    <2>5. CASE Commit(s)
      <3>1. \A p \in Places \ stale' : PlaceBalances(p)'
        BY <2>5, CommitBalances
      <3>2. ASSUME NEW t \in Sessions, NEW p \in DOMAIN sess'[t].loaded
            PROVE  ImageFollows(t, p)'
        <4>1. t # s /\ sess'[t] = sess[t]
          BY <1>1, <2>5, <3>2, EndHolds DEF Commit
        <4>2. p \in DOMAIN sess[t].loaded /\ p \in Places
          BY <1>1, <3>2, <4>1, SessionType DEF TypeInv
        <4>3. ImageFollows(t, p)
          BY <1>2, <4>2
        <4>4. sess[t].loaded[p].version \in Nat /\ version[p] \in Nat
          BY <1>1, <4>2, SessionType DEF TypeInv, Types, Image
        <4>5. CASE p \in DOMAIN sess[s].loaded
          <5>1. version'[p] = version[p] + 1
            BY <1>1, <2>5, <4>2, <4>5, CommitRows
          <5>2. sess'[t].loaded[p].version <= version[p]
            BY <4>1, <4>3 DEF ImageFollows
          <5> QED
            BY <4>1, <4>4, <5>1, <5>2 DEF ImageFollows
        <4>6. CASE p \notin DOMAIN sess[s].loaded
          <5>1. db'[p] = db[p] /\ version'[p] = version[p]
            BY <1>1, <2>5, <4>2, <4>6, CommitRows
          <5>2. stale \subseteq stale'
            BY <2>5 DEF Commit
          <5> QED
            BY <4>1, <4>3, <5>1, <5>2 DEF ImageFollows, Follows
        <4> QED
          BY <4>5, <4>6
      <3> QED
        BY <3>1, <3>2
    <2>6. CASE Rollback(s)
      <3>1. DOMAIN sess'[s].loaded = {} /\ \A t \in Sessions \ {s} : sess'[t] = sess[t]
        BY <1>1, <2>6, EndHolds DEF Rollback
      <3> QED
        BY <1>4, <1>5, <2>6, <3>1 DEF Rollback
    <2> QED
      BY <2>1, <2>2, <2>3, <2>4, <2>5, <2>6
  <1> QED
    BY <1>6, <1>7

\* FreshCommitsBalance: a place goes wrong only through a commit based on an
\* out-of-date load (the one Inventory.version is there to refuse): a place
\* without one has at most one row, which balances, is not oversold and is the
\* sum of its movements.
THEOREM FreshHolds == Spec => []FreshCommitsBalance
  <1>1. Init => FreshInv
    <2> SUFFICES ASSUME Init PROVE FreshInv
      OBVIOUS
    <2>1. TypeInv
      BY InitTypes
    <2>2. ASSUME NEW p \in Places PROVE PlaceBalances(p)
      <3>1. db[p] = <<>> \/ db[p] = <<Quantities(Start, 0)>>
        BY DEF Init
      <3>2. booked[p] = IF db[p] = <<>> THEN 0 ELSE Start
        BY DEF Init
      <3>3. CASE db[p] = <<>>
        BY <3>2, <3>3 DEF PlaceBalances
      <3>4. CASE db[p] = <<Quantities(Start, 0)>>
        <4>1. Balanced(Quantities(Start, 0)) /\ Quantities(Start, 0).qty_on_hand = Start
          BY StartAssumption DEF Balanced, Quantities
        <4>2. Len(db[p]) = 1 /\ db[p][1] = Quantities(Start, 0)
          BY <3>4
        <4>3. db[p] # <<>>
          BY <3>4
        <4> QED
          BY <3>2, <4>1, <4>2, <4>3 DEF PlaceBalances
      <3> QED
        BY <3>1, <3>3, <3>4
    <2>3. \A s \in Sessions : DOMAIN sess[s].loaded = {}
      BY IdleSession DEF Init
    <2> QED
      BY <2>1, <2>2, <2>3, FreshParts
  <1>2. FreshInv => FreshCommitsBalance
    BY DEF FreshInv
  <1> QED
    BY <1>1, <1>2, FreshPreserved, PTL DEF Spec

================================================================================
