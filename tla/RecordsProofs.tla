---------------------------- MODULE RecordsProofs ----------------------------
(***************************************************************************)
(* TLAPS proofs about the back office.  First what holds of the rows of    *)
(* the small domains, for any number of rows, requests and any bounds.  A  *)
(* request is described by what it may do to any row that agrees with what *)
(* it loaded (Fits): so the requests of each domain are looked at one by   *)
(* one, when they take place, and what they wait for, and in which order   *)
(* they commit, is looked at once.                                         *)
(*                                                                         *)
(* Then the codes and document numbers those rows are known by, for any    *)
(* number of them; and the engine that approves what they ask for, for     *)
(* every set of flows, codes, chains, instances and targets: the types,    *)
(* the single open task, the agreement of tasks, instance and announced    *)
(* decision, the signature of every node of an unedited chain, and the     *)
(* recommendations that move over that engine.  The invariants of the      *)
(* engine speak of one instance at a time, and an action changes one       *)
(* instance: each is proved for the instance an action is about and        *)
(* carried over for the others (Frame).                                    *)
(***************************************************************************)
EXTENDS Backoffice, NaturalKeys, PmsRecommendation, FiniteSetTheorems, SequenceTheorems, TLAPS

-----------------------------------------------------------------------------
(* Rows *)

Kinds == DOMAIN TableOfKind

InTable(r) == r.kind \in Kinds /\ "kind" \in DOMAIN r /\ r \in TableOfKind[r.kind]

\* What is offered may be offered: OfferedIsSound of one row.
Offered(r) ==
    /\ r.kind = "store" /\ r.deleted => r.auth_status # "authorized"
    /\ r.kind = "listing" /\ r.status \in {"publishing", "active", "inactive", "out_of_stock"}
       => r.price # "none" /\ r.titled /\ ~r.deleted

\* What the dates presuppose, and the average that a customer's figures give.
Settled(r) ==
    CASE r.kind = "fba_shipment"  -> r.received_at => r.status \in {"received", "closed"}
      [] r.kind = "fba_exception" -> r.resolved_at => r.status \in {"resolved", "closed"}
      [] r.kind = "return"        ->
            r.status \in {"requested", "approved", "return_shipping", "rejected", "cancelled"}
            => ~r.received_at /\ ~r.refunded_at
      [] r.kind = "voucher"       -> r.status = "draft" => ~r.posted_at /\ ~r.pushed_at
      [] r.kind = "fba_plan"      -> r.suggested > 0
      [] r.kind = "customer"      -> r.average = <<r.amount, r.count>>
      [] OTHER                    -> TRUE

Dated(r) ==
    FbaDated(r) /\ CrmDated(r) /\ PdmDated(r) /\ TransfersDated(r) /\ PaperworkDated(r)
    /\ IntegrationDated(r)

Good(r) == Dated(r) /\ Settled(r) /\ Offered(r)

\* A product in status t has what the status asks for.
SpuComplete(r, t) ==
    /\ t \in {"approved", "listed", "delisted", "discontinued"} => r.categorised
    /\ t \in {"listed", "delisted", "discontinued"} => r.pictured

\* What holds of a row whatever requests overlap.
Lasting(r) ==
    /\ r.kind = "spu" => SpuComplete(r, r.status)
    /\ r.kind = "upc" => ((r.status = "allocated") = (r.sku # "none"))
    /\ r.kind = "cdc_event" => (r.status = "pending" => r.retries = 0)

-----------------------------------------------------------------------------
(* Requests *)

\* Row r with the columns C as in set.
Merged(r, set, C) == [c \in DOMAIN r |-> IF c \in C THEN set[c] ELSE r[c]]

Match(r, read) == \A c \in DOMAIN read : r[c] = read[c]

\* A request that found r may leave s, having added gain to its counter.
Keeps(r, s, gain) ==
    /\ Final(r) => s.status = r.status
    /\ Good(r) => Good(s)
    /\ "count" \in DOMAIN r => s.count = r.count + gain

\* No request assigns them.
FixedColumns == {"kind", "of", "listing"}

\* The columns of set may be written, any of them, to every row of a table.
Typed(table, set) ==
    \A r \in table : /\ DOMAIN set \subseteq DOMAIN r \ FixedColumns
                     /\ \A C \in SUBSET DOMAIN set : Merged(r, set, C) \in table

\* A request that loaded read of a row of kind k may write any of the columns
\* of set to any row of the kind, and does no harm to one it loaded.
Fits(k, read, set, gain) ==
    /\ DOMAIN set \subseteq DOMAIN read
    /\ Typed(TableOfKind[k], set)
    /\ \A r \in TableOfKind[k] : Match(r, read) => Keeps(r, Merged(r, set, DOMAIN set), gain)

\* What it writes to row r lasts, however old its load of r is.
Lasts(r, read, set) ==
    /\ r.kind = "spu" => /\ DOMAIN set \subseteq {"status"}
                         /\ "status" \in DOMAIN set => SpuComplete(r, set["status"])
    /\ r.kind = "upc" => /\ DOMAIN set = {"sku", "status", "allocated_at"}
                         /\ set["status"] # read["status"] /\ set["sku"] # read["sku"]
                         /\ (set["status"] = "allocated") = (set["sku"] # "none")
    /\ r.kind = "cdc_event" =>
          "status" \in DOMAIN set /\ set["status"] # "pending" /\ read["status"] = "pending"

Gain(w, i) == IF i \in DOMAIN w.gain THEN w.gain[i] ELSE 0

\* A delivery refers to a subscription, an optimisation to a listing.
Refers(r) ==
    /\ r.kind = "delivery" => r.of \in Ids /\ row[r.of].kind = "subscription"
    /\ r.kind = "optimization" => r.listing \in Ids /\ row[r.listing].kind = "listing"

\* Every row of kind k with read is one that details may be added to.
Living(k, read) == \A r : r.kind = k /\ Match(r, read) => ~ClosedToDetails(r)

\* A new row is one of its table, and what it is a detail of was found alive.
NewSound(w) ==
    /\ InTable(w.new) /\ Good(w.new) /\ Lasting(w.new) /\ Refers(w.new)
    /\ "count" \in DOMAIN w.new => w.new.count = 0
    /\ w.new.kind \in {"box_label", "sku", "ad_group", "voucher"} =>
          w.new.of \in DOMAIN w.read /\ Living(row[w.new.of].kind, w.read[w.new.of])

WorkSound(w) ==
    /\ DOMAIN w.gain \subseteq DOMAIN w.set /\ DOMAIN w.set \subseteq DOMAIN w.read
    /\ DOMAIN w.read \subseteq Ids
    /\ \A i \in DOMAIN w.read : row[i] # NoRow
    /\ \A i \in DOMAIN w.gain : w.gain[i] \in Int
    /\ \A i \in DOMAIN w.set : /\ Fits(row[i].kind, w.read[i], w.set[i], Gain(w, i))
                               /\ Lasts(row[i], w.read[i], w.set[i])
    /\ w.new # NoRow => NewSound(w)

-----------------------------------------------------------------------------
(* The invariant *)

ShapesOK ==
    /\ row = [i \in Ids |-> row[i]]
    /\ work = [d \in Desks |-> work[d]]
    /\ gained \in [Ids -> Int]
    /\ mixed \subseteq Ids

\* An id without a row has no history.
RowSound(i) ==
    IF row[i] = NoRow THEN gained[i] = 0 /\ i \notin mixed
                      ELSE InTable(row[i]) /\ Lasting(row[i]) /\ Refers(row[i])

RowGood(i) ==
    row[i] # NoRow => /\ Good(row[i])
                      /\ "count" \in DOMAIN row[i] => row[i].count = gained[i]

RInv ==
    /\ ShapesOK
    /\ \A i \in Ids : RowSound(i)
    /\ \A i \in Ids \ mixed : RowGood(i)
    /\ \A d \in Desks : work[d] # NoWork => WorkSound(work[d])

\* What a step may do to rows that are final, and to add details.
FinalKept == \A i \in Ids \ mixed' : Final(row[i]) => row'[i].status = row[i].status

LivingOnly ==
    \A j \in Ids :
       row[j] = NoRow /\ row'[j].kind \in {"box_label", "sku", "ad_group", "voucher"}
       => row'[j].of \in mixed' \/ ~ClosedToDetails(row[row'[j].of])

SoundStep == RInv' /\ FinalKept /\ LivingOnly

-----------------------------------------------------------------------------
(* What a commit does *)

\* What is not there is not final.
LEMMA NotFinal == ~Final(NoRow)
  BY DEF Final, NoRow, FbaFinal, CrmFinal, SomFinal, PdmFinal, AdsFinal, TransfersFinal,
         PaperworkFinal, IntegrationFinal

\* What is not there has no columns.
LEMMA NoRowKind == NoRow.kind = "none" /\ DOMAIN NoRow = {"kind"}
  BY DEF NoRow

\* It is in no table.
LEMMA NoRowInNoTable == ~InTable(NoRow)
  BY NoRowKind DEF InTable, Kinds, TableOfKind

\* s is the row that r was, whatever else was written to it.
Alike(r, s) ==
    /\ DOMAIN s = DOMAIN r
    /\ \A c \in DOMAIN r \cap FixedColumns : s[c] = r[c]
    /\ r.kind = "spu" => s.categorised = r.categorised /\ s.pictured = r.pictured

\* The tables of the rows with a condition of their own.
LEMMA SomeTables ==
    /\ TableOfKind["spu"] = Spus /\ TableOfKind["upc"] = Upcs
    /\ TableOfKind["cdc_event"] = CdcRecords /\ TableOfKind["delivery"] = Deliveries
    /\ TableOfKind["optimization"] = Optimizations
  BY DEF TableOfKind

\* The UPDATE writes some of the columns assigned, and all of them to a row that
\* is as it was loaded.
LEMMA FlushedIsMerged ==
    ASSUME NEW r, NEW read, NEW set, DOMAIN set \subseteq DOMAIN r,
           DOMAIN set \subseteq DOMAIN read
    PROVE  /\ Flushed(r, read, set) = Merged(r, set, {c \in DOMAIN set : set[c] # read[c]})
           /\ Match(r, read) => Flushed(r, read, set) = Merged(r, set, DOMAIN set)
  BY DEF Flushed, Merged, Match

\* What lasts of a row is not lost by an UPDATE from an old load.
LEMMA FlushLasts ==
    ASSUME NEW r, InTable(r), Lasting(r), NEW read, NEW set, Lasts(r, read, set),
           NEW s, s = Flushed(r, read, set), s.kind = r.kind, Alike(r, s)
    PROVE  Lasting(s)
  <1>1. CASE r.kind = "spu"
    <2>1. r \in Spus
      BY <1>1, SomeTables DEF InTable
    <2>2. s.status = r.status \/ ("status" \in DOMAIN set /\ s.status = set["status"])
      BY <2>1 DEF Flushed, Spus
    <2>3. \A t : SpuComplete(s, t) = SpuComplete(r, t)
      BY <1>1 DEF Alike, SpuComplete
    <2>4. SpuComplete(s, s.status)
      BY <1>1, <2>2, <2>3 DEF Lasting, Lasts
    <2> QED
      BY <1>1, <2>4 DEF Lasting
  <1>2. CASE r.kind = "upc"
    <2>1. r \in Upcs
      BY <1>2, SomeTables DEF InTable
    <2>2. DOMAIN r = {"kind", "status", "sku", "allocated_at"}
      BY <2>1 DEF Upcs
    <2>3. s.status = set["status"] /\ s.sku = set["sku"]
      BY <1>2, <2>2 DEF Flushed, Lasts
    <2> QED
      BY <1>2, <2>3 DEF Lasting, Lasts
  <1>3. CASE r.kind = "cdc_event"
    <2>1. r \in CdcRecords
      BY <1>3, SomeTables DEF InTable
    <2>2. "status" \in DOMAIN r
      BY <2>1 DEF CdcRecords
    <2>3. s.status = set["status"]
      BY <1>3, <2>2 DEF Flushed, Lasts
    <2> QED
      BY <1>3, <2>3 DEF Lasting, Lasts
  <1> QED
    BY <1>1, <1>2, <1>3 DEF Lasting

\* What a commit makes of a row that it writes.
LEMMA FlushStep ==
    ASSUME NEW r, InTable(r), Lasting(r), NEW read, NEW set, NEW gain,
           Fits(r.kind, read, set, gain), Lasts(r, read, set), NEW s, s = Flushed(r, read, set)
    PROVE  /\ s.kind = r.kind /\ Alike(r, s) /\ InTable(s) /\ Lasting(s)
           /\ Match(r, read) => Keeps(r, s, gain)
  <1>1. /\ DOMAIN set \subseteq DOMAIN r \ FixedColumns /\ DOMAIN set \subseteq DOMAIN read
        /\ "kind" \in DOMAIN r
    BY DEF InTable, Fits, Typed
  <1> DEFINE C == {c \in DOMAIN set : set[c] # read[c]}
  <1>2. s = Merged(r, set, C) /\ (Match(r, read) => s = Merged(r, set, DOMAIN set))
    BY <1>1, FlushedIsMerged
  <1>3. DOMAIN s = DOMAIN r /\ \A c \in DOMAIN r \ DOMAIN set : s[c] = r[c]
    BY <1>2 DEF Merged
  <1>4. s.kind = r.kind /\ \A c \in DOMAIN r \cap FixedColumns : s[c] = r[c]
    BY <1>1, <1>3 DEF FixedColumns
  <1>5. s \in TableOfKind[r.kind]
    BY <1>2 DEF Fits, Typed, InTable
  <1>6. r.kind = "spu" => s.categorised = r.categorised /\ s.pictured = r.pictured
    <2> SUFFICES ASSUME r.kind = "spu" PROVE s.categorised = r.categorised /\ s.pictured = r.pictured
      OBVIOUS
    <2>1. r \in Spus
      BY SomeTables DEF InTable
    <2>2. "categorised" \in DOMAIN r /\ "pictured" \in DOMAIN r
      BY <2>1 DEF Spus
    <2>3. "categorised" \notin DOMAIN set /\ "pictured" \notin DOMAIN set
      BY DEF Lasts
    <2> QED
      BY <1>3, <2>2, <2>3
  <1>7. Alike(r, s) /\ InTable(s)
    BY <1>1, <1>3, <1>4, <1>5, <1>6 DEF Alike, InTable
  <1>8. Lasting(s)
    BY <1>4, <1>7, FlushLasts
  <1>9. Match(r, read) => Keeps(r, s, gain)
    BY <1>2 DEF Fits, InTable
  <1> QED
    BY <1>4, <1>7, <1>8, <1>9
\* Rows stay what they are.
RowsKept == \A i \in Ids : row[i] # NoRow => row'[i] # NoRow /\ Alike(row[i], row'[i])
                                             /\ row'[i].kind = row[i].kind

\* Rows that are referred to keep their kind.
LEMMA RefersKept ==
    ASSUME RowsKept, NEW r, Refers(r)
    PROVE  Refers(r)'
  BY NoRowKind DEF RowsKept, Refers

\* What a request is to write is still sound when others have committed.
LEMMA WorkKept ==
    ASSUME RowsKept, NEW w, WorkSound(w)
    PROVE  WorkSound(w)'
  <1>1. \A i \in DOMAIN w.read : i \in Ids /\ row[i] # NoRow
    BY DEF WorkSound
  <1>2. ASSUME NEW i \in DOMAIN w.set
        PROVE  Fits(row'[i].kind, w.read[i], w.set[i], Gain(w, i)) /\ Lasts(row'[i], w.read[i], w.set[i])
    <2>1. i \in Ids /\ row[i] # NoRow
      BY <1>1 DEF WorkSound
    <2>2. row'[i].kind = row[i].kind /\ Alike(row[i], row'[i])
      BY <2>1 DEF RowsKept
    <2>3. Fits(row[i].kind, w.read[i], w.set[i], Gain(w, i)) /\ Lasts(row[i], w.read[i], w.set[i])
      BY DEF WorkSound
    <2>4. Lasts(row'[i], w.read[i], w.set[i])
      BY <2>2, <2>3 DEF Lasts, Alike, SpuComplete
    <2> QED
      BY <2>2, <2>3, <2>4
  <1>3. ASSUME w.new # NoRow PROVE NewSound(w)'
    <2>1. NewSound(w)
      BY <1>3 DEF WorkSound
    <2>2. Refers(w.new)'
      BY <2>1, RefersKept DEF NewSound
    <2>3. w.new.of \in DOMAIN w.read => row'[w.new.of].kind = row[w.new.of].kind
      BY <1>1 DEF RowsKept
    <2> QED
      BY <2>1, <2>2, <2>3 DEF NewSound
  <1> QED
    BY <1>1, <1>2, <1>3 DEF WorkSound, RowsKept

\* A request commits what it decided when it loaded.
LEMMA CommitStep ==
    ASSUME RInv, NEW d \in Desks, CommitWork(d)
    PROVE  SoundStep
  <1>1. PICK w : w = work[d]
    OBVIOUS
  <1>2. WorkSound(w) /\ w # NoWork
    BY <1>1 DEF RInv, CommitWork
  <1>3. PICK flushed : flushed = [i \in Ids |-> IF i \in DOMAIN w.set
                                    THEN Flushed(row[i], w.read[i], w.set[i]) ELSE row[i]]
    OBVIOUS
  <1>4. PICK fresh \in SUBSET Ids :
           /\ \A j \in fresh : row[j] = NoRow /\ row'[j] = w.new /\ w.new # NoRow
           /\ \A i \in Ids \ fresh : row'[i] = flushed[i]
           /\ row' = [i \in Ids |-> row'[i]]
    <2>1. \/ w.new = NoRow /\ row' = flushed
          \/ \E j \in Ids : Free(j, w.new.kind) /\ row' = [flushed EXCEPT ![j] = w.new]
      BY <1>1, <1>3 DEF CommitWork
    <2>2. CASE w.new = NoRow /\ row' = flushed
      <3> WITNESS {} \in SUBSET Ids
      <3> QED
        BY <1>3, <2>2
    <2>3. CASE w.new # NoRow
      <3>1. PICK j \in Ids : Free(j, w.new.kind) /\ row' = [flushed EXCEPT ![j] = w.new]
        BY <2>1, <2>3
      <3>2. row[j] = NoRow
        BY <3>1 DEF Free
      <3> WITNESS {j} \in SUBSET Ids
      <3> QED
        BY <1>3, <2>3, <3>1, <3>2
    <2>4. CASE w.new = NoRow /\ \E j \in Ids : Free(j, w.new.kind) /\ row' = [flushed EXCEPT ![j] = w.new]
      <3>1. PICK j \in Ids : Free(j, w.new.kind) /\ row' = [flushed EXCEPT ![j] = NoRow]
        BY <2>4
      <3>2. row[j] = NoRow /\ j \notin DOMAIN w.set
        BY <1>2, <3>1 DEF Free, WorkSound
      <3>3. flushed[j] = NoRow
        BY <1>3, <3>2
      <3> WITNESS {} \in SUBSET Ids
      <3> QED
        BY <1>3, <3>1, <3>3
    <2> QED
      BY <2>1, <2>2, <2>3, <2>4
  <1>5. /\ \A i \in DOMAIN w.read : i \in Ids /\ row[i] # NoRow
        /\ DOMAIN w.set \subseteq DOMAIN w.read /\ DOMAIN w.gain \subseteq DOMAIN w.set
    BY <1>2 DEF WorkSound
  <1>6. /\ mixed' = mixed \cup Stale(w) /\ mixed \subseteq Ids /\ mixed' \subseteq Ids
        /\ gained' = [i \in Ids |-> IF i \in mixed' THEN 0
                                    ELSE IF i \in DOMAIN w.gain THEN gained[i] + w.gain[i]
                                    ELSE gained[i]]
    BY <1>1, <1>5 DEF CommitWork, Stale, RInv, ShapesOK
  <1>7. \A i \in DOMAIN w.read : i \notin mixed' => Match(row[i], w.read[i])
    BY <1>6 DEF Stale, Match
  <1>8. ASSUME NEW i \in DOMAIN w.set
        PROVE  /\ i \in Ids /\ row[i] # NoRow /\ row'[i].kind = row[i].kind
               /\ Alike(row[i], row'[i]) /\ InTable(row'[i]) /\ Lasting(row'[i])
               /\ i \notin mixed' => Keeps(row[i], row'[i], Gain(w, i))
    <2>1. i \in Ids /\ row[i] # NoRow /\ i \notin fresh
      BY <1>4, <1>5
    <2>2. InTable(row[i]) /\ Lasting(row[i])
      BY <2>1 DEF RInv, RowSound
    <2>3. row'[i] = Flushed(row[i], w.read[i], w.set[i])
      BY <1>3, <1>4, <2>1
    <2>4. Fits(row[i].kind, w.read[i], w.set[i], Gain(w, i)) /\ Lasts(row[i], w.read[i], w.set[i])
      BY <1>2 DEF WorkSound
    <2>5. /\ row'[i].kind = row[i].kind /\ Alike(row[i], row'[i]) /\ InTable(row'[i]) /\ Lasting(row'[i])
          /\ Match(row[i], w.read[i]) => Keeps(row[i], row'[i], Gain(w, i))
      BY <2>2, <2>3, <2>4, FlushStep
    <2> QED
      BY <1>5, <1>7, <2>1, <2>5
  <1>9. \A i \in Ids \ (fresh \cup DOMAIN w.set) : row'[i] = row[i]
    BY <1>3, <1>4
  <1>10. \A j \in fresh : /\ j \in Ids /\ j \notin DOMAIN w.set /\ j \notin mixed'
                          /\ gained[j] = 0 /\ gained'[j] = 0 /\ NewSound(w)
    <2> SUFFICES ASSUME NEW j \in fresh
                 PROVE  /\ j \in Ids /\ j \notin DOMAIN w.set /\ j \notin mixed'
                        /\ gained[j] = 0 /\ gained'[j] = 0 /\ NewSound(w)
      OBVIOUS
    <2>1. row[j] = NoRow /\ w.new # NoRow /\ j \in Ids
      BY <1>4
    <2>2. gained[j] = 0 /\ j \notin mixed /\ j \notin DOMAIN w.read
      BY <1>5, <2>1 DEF RInv, RowSound
    <2>3. j \notin mixed'
      BY <1>6, <2>2 DEF Stale
    <2> QED
      BY <1>2, <1>5, <1>6, <2>1, <2>2, <2>3 DEF WorkSound
  <1>11. RowsKept
    <2> SUFFICES ASSUME NEW i \in Ids, row[i] # NoRow
                 PROVE  row'[i] # NoRow /\ Alike(row[i], row'[i]) /\ row'[i].kind = row[i].kind
      BY DEF RowsKept
    <2>1. CASE i \in DOMAIN w.set
      BY <1>8, <2>1, NoRowInNoTable
    <2>2. CASE i \notin DOMAIN w.set
      BY <1>4, <1>9, <2>2 DEF Alike
    <2> QED
      BY <2>1, <2>2
  <1>12. ShapesOK'
    <2>1. work' = [e \in Desks |-> work'[e]]
      BY DEF CommitWork, RInv, ShapesOK
    <2>2. gained' \in [Ids -> Int]
      <3>1. \A i \in DOMAIN w.gain : w.gain[i] \in Int
        BY <1>2 DEF WorkSound
      <3> QED
        BY <1>6, <3>1 DEF RInv, ShapesOK
    <2> QED
      BY <1>4, <1>6, <2>1, <2>2 DEF ShapesOK
  <1>13. ASSUME NEW i \in Ids PROVE RowSound(i)'
    <2>1. CASE i \in fresh
      <3>1. Refers(w.new)'
        BY <1>10, <1>11, <2>1, RefersKept DEF NewSound
      <3> QED
        BY <1>4, <1>10, <2>1, <3>1 DEF RowSound, NewSound, Refers
    <2>2. CASE i \in DOMAIN w.set
      <3>1. PICK r, s : r = row[i] /\ s = row'[i]
        OBVIOUS
      <3>2. InTable(r) /\ Refers(r) /\ Alike(r, s) /\ s.kind = r.kind
        BY <1>8, <2>2, <3>1 DEF RInv, RowSound
      <3>3. Refers(s)
        <4>1. ASSUME r.kind = "delivery" PROVE "of" \in DOMAIN r
          BY <3>2, <4>1, SomeTables DEF InTable, Deliveries
        <4>2. ASSUME r.kind = "optimization" PROVE "listing" \in DOMAIN r
          BY <3>2, <4>2, SomeTables DEF InTable, Optimizations
        <4> QED
          BY <3>2, <4>1, <4>2 DEF Refers, Alike, FixedColumns
      <3>4. Refers(s)'
        BY <1>11, <3>3, RefersKept
      <3> QED
        BY <1>8, <2>2, <3>1, <3>4, <1>11 DEF RowSound, Refers, RowsKept
    <2>3. CASE i \notin fresh \cup DOMAIN w.set
      <3>1. row'[i] = row[i] /\ (row[i] # NoRow => Refers(row[i]))
        BY <1>9, <2>3 DEF RInv, RowSound
      <3>2. PICK r : r = row[i]
        OBVIOUS
      <3>3. r # NoRow => Refers(r)'
        BY <1>11, <3>1, <3>2, RefersKept
      <3>4. row[i] = NoRow => gained'[i] = 0 /\ i \notin mixed'
        BY <1>5, <1>6 DEF RInv, RowSound, Stale
      <3> QED
        BY <3>1, <3>2, <3>3, <3>4 DEF RInv, RowSound, Refers
    <2> QED
      BY <2>1, <2>2, <2>3
  <1>14. ASSUME NEW i \in Ids \ mixed' PROVE RowGood(i)' /\ (Final(row[i]) => row'[i].status = row[i].status)
    <2>1. CASE i \in fresh
      BY <1>4, <1>10, <2>1, NotFinal DEF RowGood, NewSound
    <2>2. CASE i \in DOMAIN w.set
      <3>1. RowGood(i) /\ Keeps(row[i], row'[i], Gain(w, i)) /\ row[i] # NoRow
        BY <1>6, <1>8, <2>2 DEF RInv
      <3>2. DOMAIN row'[i] = DOMAIN row[i]
        BY <1>8, <2>2 DEF Alike
      <3>3. gained'[i] = gained[i] + Gain(w, i)
        BY <1>6 DEF Gain, RInv, ShapesOK
      <3> QED
        BY <3>1, <3>2, <3>3 DEF RowGood, Keeps
    <2>3. CASE i \notin fresh \cup DOMAIN w.set
      <3>1. row'[i] = row[i] /\ gained'[i] = gained[i] /\ RowGood(i)
        BY <1>5, <1>6, <1>9, <2>3 DEF RInv
      <3> QED
        BY <3>1 DEF RowGood
    <2> QED
      BY <2>1, <2>2, <2>3
  <1>15. ASSUME NEW e \in Desks, work'[e] # NoWork PROVE WorkSound(work[e])'
    <2>1. work'[e] = work[e] /\ WorkSound(work[e])
      BY <1>15 DEF CommitWork, RInv, ShapesOK
    <2>2. PICK v : v = work[e]
      OBVIOUS
    <2>3. WorkSound(v)'
      BY <1>11, <2>1, <2>2, WorkKept
    <2> QED
      BY <2>1, <2>2, <2>3 DEF WorkSound, NewSound, Refers, Gain
  <1>16. LivingOnly
    <2> SUFFICES ASSUME NEW j \in Ids, row[j] = NoRow,
                        row'[j].kind \in {"box_label", "sku", "ad_group", "voucher"},
                        row'[j].of \notin mixed'
                 PROVE  ~ClosedToDetails(row[row'[j].of])
      BY DEF LivingOnly
    <2>1. j \in fresh
      BY <1>8, <1>9, NoRowKind
    <2>2. row'[j] = w.new /\ NewSound(w)
      BY <1>4, <1>10, <2>1
    <2>3. w.new.of \in DOMAIN w.read /\ Match(row[w.new.of], w.read[w.new.of])
      BY <1>7, <2>2 DEF NewSound
    <2> QED
      BY <2>2, <2>3 DEF NewSound, Living
  <1> QED
    BY <1>12, <1>13, <1>14, <1>15, <1>16 DEF SoundStep, RInv, FinalKept

\* A request that inserts a row at once.
LEMMA InsertStep ==
    ASSUME RInv, NEW r, Inserts(r), InTable(r), Good(r), Lasting(r),
           "count" \in DOMAIN r => r.count \in Int,
           r.kind \notin {"delivery", "optimization", "box_label", "sku", "ad_group", "voucher"}
    PROVE  SoundStep
  <1>1. PICK j \in Ids :
           /\ row[j] = NoRow /\ row' = [row EXCEPT ![j] = r]
           /\ gained' = [gained EXCEPT ![j] = IF "count" \in DOMAIN r THEN r.count ELSE 0]
           /\ UNCHANGED <<work, mixed>>
    BY DEF Inserts, Free
  <1>2. row = [i \in Ids |-> row[i]] /\ gained \in [Ids -> Int]
    BY DEF RInv, ShapesOK
  <1>3. \A i \in Ids : /\ row'[i] = IF i = j THEN r ELSE row[i]
                       /\ i # j => gained'[i] = gained[i]
    BY <1>1, <1>2
  <1>4. gained'[j] = IF "count" \in DOMAIN r THEN r.count ELSE 0
    BY <1>1, <1>2
  <1>5. ShapesOK'
    <2>1. row' = [i \in Ids |-> row'[i]] /\ gained' \in [Ids -> Int]
      BY <1>1, <1>2
    <2> QED
      BY <1>1, <2>1 DEF RInv, ShapesOK
  <1>6. RowsKept
    BY <1>1, <1>3 DEF RowsKept, Alike
  <1>7. r # NoRow
    BY NoRowInNoTable
  <1>8. ASSUME NEW i \in Ids PROVE RowSound(i)'
    <2>1. CASE i = j
      BY <1>1, <1>3, <1>7, <2>1 DEF RowSound, Refers
    <2>2. CASE i # j
      <3>1. PICK s : s = row[i]
        OBVIOUS
      <3>2. s # NoRow => Refers(s)'
        BY <1>6, <3>1, RefersKept DEF RInv, RowSound
      <3> QED
        BY <1>1, <1>3, <2>2, <3>1, <3>2 DEF RInv, RowSound, Refers
    <2> QED
      BY <2>1, <2>2
  <1>9. ASSUME NEW i \in Ids \ mixed' PROVE RowGood(i)'
    BY <1>1, <1>3, <1>4 DEF RInv, RowGood
  <1>10. ASSUME NEW e \in Desks, work'[e] # NoWork PROVE WorkSound(work[e])'
    <2>1. PICK v : v = work[e]
      OBVIOUS
    <2>2. work' = work /\ WorkSound(v)
      BY <1>1, <1>10, <2>1 DEF RInv
    <2>3. WorkSound(v)'
      BY <1>6, <2>2, WorkKept
    <2> QED
      BY <2>1, <2>2, <2>3 DEF WorkSound, NewSound, Refers, Gain
  <1>11. FinalKept
    BY <1>1, <1>3, NotFinal DEF FinalKept
  <1>12. LivingOnly
    BY <1>3, NoRowKind DEF LivingOnly
  <1> QED
    BY <1>5, <1>8, <1>9, <1>10, <1>11, <1>12 DEF SoundStep, RInv

\* A request that has decided what it will write.
LEMMA TakeStep ==
    ASSUME RInv, NEW d \in Desks, NEW w, WorkSound(w), work' = [work EXCEPT ![d] = w],
           UNCHANGED <<row, gained, mixed>>
    PROVE  SoundStep
  <1>1. ShapesOK'
    BY DEF RInv, ShapesOK
  <1>2. \A i \in Ids : RowSound(i)'
    BY DEF RInv, RowSound, Refers
  <1>3. \A i \in Ids \ mixed' : RowGood(i)'
    BY DEF RInv, RowGood
  <1>4. ASSUME NEW e \in Desks, work'[e] # NoWork PROVE WorkSound(work[e])'
    <2>1. PICK v : v = work'[e]
      OBVIOUS
    <2>2. WorkSound(v)
      BY <1>4, <2>1 DEF RInv, ShapesOK
    <2>3. WorkSound(v)'
      BY <2>2 DEF WorkSound, NewSound, Refers
    <2> QED
      BY <2>1, <2>3 DEF WorkSound, NewSound, Refers, Gain
  <1>5. FinalKept /\ LivingOnly
    BY NoRowKind DEF FinalKept, LivingOnly
  <1> QED
    BY <1>1, <1>2, <1>3, <1>4, <1>5 DEF SoundStep, RInv

\* What a request has loaded of row r.
Loaded(r, columns) == [c \in columns |-> r[c]]

\* A request that writes one row, and counts.
LEMMA WritesStep ==
    ASSUME RInv, NEW d \in Desks, NEW i \in Ids, row[i] # NoRow, NEW looked, NEW set,
           NEW gain \in Int, NEW gains, gains = Only(i, gain) \/ (gains = None /\ gain = 0),
           Takes(d, Only(i, looked \cup DOMAIN set), Only(i, set), NoRow, gains),
           NEW l, l = Loaded(row[i], looked \cup DOMAIN set),
           Fits(row[i].kind, l, set, gain), Lasts(row[i], l, set)
    PROVE  SoundStep
  <1>1. PICK w : /\ w = [read |-> [j \in {i} |-> Loaded(row[j], looked \cup DOMAIN set)],
                         set |-> Only(i, set), new |-> NoRow, gain |-> gains]
                 /\ work' = [work EXCEPT ![d] = w] /\ UNCHANGED <<row, gained, mixed>>
    BY DEF Takes, Only, Loaded
  <1>2. /\ DOMAIN w.read = {i} /\ w.read[i] = l
        /\ DOMAIN w.set = {i} /\ w.set[i] = set /\ w.new = NoRow
        /\ DOMAIN w.gain \subseteq {i} /\ Gain(w, i) = gain
        /\ \A j \in DOMAIN w.gain : w.gain[j] = gain
    BY <1>1 DEF Only, None, Gain
  <1>3. WorkSound(w)
    BY <1>2 DEF WorkSound
  <1> QED
    BY <1>1, <1>3, TakeStep

\* The same for one row.
LEMMA SetsStep ==
    ASSUME RInv, NEW d \in Desks, NEW i \in Ids, row[i] # NoRow, NEW looked, NEW set,
           Sets(d, i, looked, set),
           NEW l, l = Loaded(row[i], looked \cup DOMAIN set),
           Fits(row[i].kind, l, set, 0), Lasts(row[i], l, set)
    PROVE  SoundStep
  <1>1. PICK gain, gains : gain = 0 /\ gain \in Int /\ gains = None
    OBVIOUS
  <1> QED
    BY <1>1, WritesStep DEF Sets

\* The same for one row and its counter.
LEMMA CountsStep ==
    ASSUME RInv, NEW d \in Desks, NEW i \in Ids, row[i] # NoRow, NEW looked, NEW set,
           NEW gain \in Int, Counts(d, i, looked, set, gain),
           NEW l, l = Loaded(row[i], looked \cup DOMAIN set),
           Fits(row[i].kind, l, set, gain), Lasts(row[i], l, set)
    PROVE  SoundStep
  BY WritesStep DEF Counts

\* A request that finds a row by its id and assigns some columns.
LEMMA PlainStep ==
    ASSUME RInv, NEW d \in Desks, NEW i \in Ids, row[i] # NoRow,
           row[i].kind \notin {"spu", "upc", "cdc_event"},
           NEW T, TableOfKind[row[i].kind] = T, NEW looked, NEW set, Sets(d, i, looked, set),
           Typed(T, set),
           \A r \in T, s \in T :
              s = Merged(r, set, DOMAIN set) /\ Match(r, Loaded(row[i], looked \cup DOMAIN set))
              => Keeps(r, s, 0)
    PROVE  SoundStep
  <1>1. PICK l : l = Loaded(row[i], looked \cup DOMAIN set)
    OBVIOUS
  <1>2. Fits(row[i].kind, l, set, 0)
    BY <1>1 DEF Fits, Typed, Loaded
  <1>3. Lasts(row[i], l, set)
    BY DEF Lasts
  <1> QED
    BY <1>1, <1>2, <1>3, SetsStep

\* The same of one that adds gain to the row's counter.
LEMMA PlainCountsStep ==
    ASSUME RInv, NEW d \in Desks, NEW i \in Ids, row[i] # NoRow,
           row[i].kind \notin {"spu", "upc", "cdc_event"},
           NEW T, TableOfKind[row[i].kind] = T, NEW looked, NEW set, NEW gain, gain \in Int,
           Counts(d, i, looked, set, gain), Typed(T, set),
           \A r \in T, s \in T :
              s = Merged(r, set, DOMAIN set) /\ Match(r, Loaded(row[i], looked \cup DOMAIN set))
              => Keeps(r, s, gain)
    PROVE  SoundStep
  <1>1. PICK l : l = Loaded(row[i], looked \cup DOMAIN set)
    OBVIOUS
  <1>2. Fits(row[i].kind, l, set, gain)
    BY <1>1 DEF Fits, Typed, Loaded
  <1>3. Lasts(row[i], l, set)
    BY DEF Lasts
  <1> QED
    BY <1>1, <1>2, <1>3, CountsStep

\* A request that adds a row after it looked at another.
LEMMA AddsStep ==
    ASSUME RInv, NEW d \in Desks, NEW i \in Ids, row[i] # NoRow, NEW looked, NEW new,
           Adds(d, i, looked, new), InTable(new), Good(new), Lasting(new),
           "count" \notin DOMAIN new, new.kind # "delivery",
           new.kind = "optimization" => new.listing = i /\ row[i].kind = "listing",
           NEW l, l = Loaded(row[i], looked),
           new.kind \in {"box_label", "sku", "ad_group", "voucher"} =>
              new.of = i /\ Living(row[i].kind, l)
    PROVE  SoundStep
  <1>1. PICK w : /\ w = [read |-> [j \in {i} |-> Loaded(row[j], looked)],
                         set |-> None, new |-> new, gain |-> None]
                 /\ work' = [work EXCEPT ![d] = w] /\ UNCHANGED <<row, gained, mixed>>
    BY DEF Adds, Takes, Only, Loaded
  <1>2. /\ DOMAIN w.read = {i} /\ w.read[i] = l /\ w.new = new
        /\ DOMAIN w.set = {} /\ DOMAIN w.gain = {}
    BY <1>1 DEF None
  <1>3. NewSound(w)
    BY <1>2 DEF NewSound, Refers
  <1>4. WorkSound(w)
    BY <1>2, <1>3 DEF WorkSound
  <1> QED
    BY <1>1, <1>4, TakeStep

\* A request that loaded the columns looked of row i may assign set to it.
May(i, looked, set, gain) ==
    /\ Fits(row[i].kind, Loaded(row[i], looked), set, gain)
    /\ Lasts(row[i], Loaded(row[i], looked), set)

\* Rows without a condition of their own need no more than Keeps.
LEMMA PlainMay ==
    ASSUME NEW i, row[i].kind \notin {"spu", "upc", "cdc_event"},
           NEW T, TableOfKind[row[i].kind] = T, NEW looked, NEW set, DOMAIN set \subseteq looked,
           NEW gain, Typed(T, set),
           \A r \in T, s \in T :
              s = Merged(r, set, DOMAIN set) /\ Match(r, Loaded(row[i], looked))
              => Keeps(r, s, gain)
    PROVE  May(i, looked, set, gain)
  <1>1. PICK l : l = Loaded(row[i], looked)
    OBVIOUS
  <1>2. Fits(row[i].kind, l, set, gain)
    BY <1>1 DEF Fits, Typed, Loaded
  <1>3. Lasts(row[i], l, set)
    BY DEF Lasts
  <1> QED
    BY <1>1, <1>2, <1>3 DEF May

\* A request that writes several rows.
LEMMA SeveralStep ==
    ASSUME RInv, NEW d \in Desks, NEW read, NEW set, NEW gain, Takes(d, read, set, NoRow, gain),
           DOMAIN read \subseteq Ids, DOMAIN set \subseteq DOMAIN read,
           DOMAIN gain \subseteq DOMAIN set, \A i \in DOMAIN read : row[i] # NoRow,
           \A i \in DOMAIN gain : gain[i] \in Int,
           \A i \in DOMAIN set :
              May(i, read[i], set[i], IF i \in DOMAIN gain THEN gain[i] ELSE 0)
    PROVE  SoundStep
  <1>1. PICK w : /\ w = [read |-> [i \in DOMAIN read |-> Loaded(row[i], read[i])],
                         set |-> set, new |-> NoRow, gain |-> gain]
                 /\ work' = [work EXCEPT ![d] = w] /\ UNCHANGED <<row, gained, mixed>>
    BY DEF Takes, Loaded
  <1>2. /\ DOMAIN w.read = DOMAIN read /\ w.set = set /\ w.new = NoRow /\ w.gain = gain
        /\ \A i \in DOMAIN read : w.read[i] = Loaded(row[i], read[i])
    BY <1>1
  <1>3. ASSUME NEW i \in DOMAIN set
        PROVE  Fits(row[i].kind, w.read[i], w.set[i], Gain(w, i)) /\ Lasts(row[i], w.read[i], w.set[i])
    <2>1. May(i, read[i], set[i], IF i \in DOMAIN gain THEN gain[i] ELSE 0)
      OBVIOUS
    <2>2. Gain(w, i) = IF i \in DOMAIN gain THEN gain[i] ELSE 0
      BY <1>2 DEF Gain
    <2> QED
      BY <1>2, <2>1, <2>2 DEF May
  <1>4. WorkSound(w)
    BY <1>2, <1>3 DEF WorkSound
  <1> QED
    BY <1>1, <1>4, TakeStep

\* A request that writes one row and adds another.
LEMMA WritesAndAddsStep ==
    ASSUME RInv, NEW d \in Desks, NEW i \in Ids, row[i] # NoRow, NEW looked, NEW set, NEW new,
           NEW gain, gain \in Int, NEW gains, gains = Only(i, gain) \/ (gains = None /\ gain = 0),
           Takes(d, Only(i, looked), Only(i, set), new, gains), May(i, looked, set, gain),
           InTable(new), Good(new), Lasting(new), Refers(new),
           "count" \in DOMAIN new => new.count = 0,
           new.kind \notin {"box_label", "sku", "ad_group", "voucher"}
    PROVE  SoundStep
  <1>1. PICK w : /\ w = [read |-> [j \in {i} |-> Loaded(row[j], looked)],
                         set |-> Only(i, set), new |-> new, gain |-> gains]
                 /\ work' = [work EXCEPT ![d] = w] /\ UNCHANGED <<row, gained, mixed>>
    BY DEF Takes, Only, Loaded
  <1>2. /\ DOMAIN w.read = {i} /\ w.read[i] = Loaded(row[i], looked)
        /\ DOMAIN w.set = {i} /\ w.set[i] = set /\ w.new = new
        /\ DOMAIN w.gain \subseteq {i} /\ Gain(w, i) = gain
        /\ \A j \in DOMAIN w.gain : w.gain[j] = gain
    BY <1>1 DEF Only, None, Gain
  <1>3. NewSound(w)
    BY <1>2 DEF NewSound
  <1>4. WorkSound(w)
    BY <1>2, <1>3 DEF WorkSound, May
  <1> QED
    BY <1>1, <1>4, TakeStep

-----------------------------------------------------------------------------
(* FBA *)

\* Its tables, and what being final and being dated come to for their rows.
LEMMA FbaTables ==
    /\ TableOfKind["fba_shipment"] = FbaShipments /\ TableOfKind["box_label"] = BoxLabels
    /\ TableOfKind["fba_inventory"] = FbaInventories /\ TableOfKind["replenishment"] = Replenishments
    /\ TableOfKind["inbound_plan"] = InboundPlans /\ TableOfKind["fba_exception"] = FbaExceptions
  BY DEF TableOfKind

LEMMA FbaRows ==
    ASSUME NEW r,
           r.kind \in {"fba_shipment", "box_label", "fba_inventory", "replenishment",
                           "inbound_plan", "fba_exception"}
    PROVE  /\ Final(r) <=> FbaFinal(r)
           /\ Good(r) <=> FbaDated(r) /\ Settled(r)
           /\ r.kind \in Kinds
  BY DEF Final, CrmFinal, SomFinal, PdmFinal, AdsFinal, TransfersFinal, PaperworkFinal,
         IntegrationFinal, Good, Dated, CrmDated, PdmDated, TransfersDated, PaperworkDated,
         IntegrationDated, Offered, Kinds, TableOfKind

LEMMA FbaKeeps ==
    ASSUME NEW r, NEW s, NEW gain, s.kind = r.kind,
           r.kind \in {"fba_shipment", "box_label", "fba_inventory", "replenishment",
                           "inbound_plan", "fba_exception"},
           FbaFinal(r) => s.status = r.status,
           FbaDated(r) /\ Settled(r) => FbaDated(s) /\ Settled(s),
           "count" \in DOMAIN r => s.count = r.count + gain
    PROVE  Keeps(r, s, gain)
  BY FbaRows DEF Keeps

\* The requests that insert a row and read none.
LEMMA FbaInserts ==
    ASSUME RInv,
           FbaShipmentCreate \/ FbaInventoryCreate \/ ReplenishmentCreate \/
           InboundPlanCreate \/ ExceptionCreate
    PROVE  SoundStep
  <1>1. CASE FbaShipmentCreate
    <2>1. PICK r : /\ Inserts(r)
                   /\ r = [kind |-> "fba_shipment", status |-> "draft", shipped_at |-> FALSE,
                           received_at |-> FALSE, tracked |-> FALSE, plan |-> 0,
                           deleted |-> FALSE]
      BY <1>1 DEF FbaShipmentCreate, FbaShipmentTable, FbaShipmentRow
    <2>2. r \in FbaShipments /\ FbaDated(r) /\ Settled(r)
      BY <2>1 DEF FbaShipments, FbaDated, Settled, FbaShipmentTable, FbaShipmentRow
    <2>3. InTable(r) /\ Good(r) /\ Lasting(r)
      BY <2>1, <2>2, FbaTables, FbaRows DEF InTable, Lasting, FbaShipmentRow
    <2> QED
      BY <2>1, <2>3, InsertStep DEF FbaShipmentRow
  <1>2. CASE FbaInventoryCreate
    <2>1. PICK q, r :
             /\ Inserts(r)
             /\ r = [kind |-> "fba_inventory", count |-> q]
             /\ q \in Nat
      BY <1>2, FbaAssumption DEF FbaInventoryCreate
    <2>2. r \in FbaInventories /\ FbaDated(r) /\ Settled(r)
      BY <2>1, FbaAssumption DEF FbaInventories, FbaDated, Settled
    <2>3. InTable(r) /\ Good(r) /\ Lasting(r)
      BY <2>1, <2>2, FbaTables, FbaRows DEF InTable, Lasting
    <2> QED
      BY <2>1, <2>3, InsertStep, FbaAssumption
  <1>3. CASE ReplenishmentCreate
    <2>1. PICK r : /\ Inserts(r)
                   /\ r = [kind |-> "replenishment", status |-> "pending", approved_at |-> FALSE,
                           linked |-> FALSE]
      BY <1>3 DEF ReplenishmentCreate, ReplenishmentTable
    <2>2. r \in Replenishments /\ FbaDated(r) /\ Settled(r)
      BY <2>1 DEF Replenishments, FbaDated, Settled, ReplenishmentTable
    <2>3. InTable(r) /\ Good(r) /\ Lasting(r)
      BY <2>1, <2>2, FbaTables, FbaRows DEF InTable, Lasting
    <2> QED
      BY <2>1, <2>3, InsertStep
  <1>4. CASE InboundPlanCreate
    <2>1. PICK q, r :
             /\ Inserts(r)
             /\ r = [kind |-> "inbound_plan", status |-> "draft", submitted_at |-> FALSE,
                     completed_at |-> FALSE, total_units |-> q]
             /\ q \in Nat
      BY <1>4, FbaAssumption DEF InboundPlanCreate, InboundPlanTable
    <2>2. r \in InboundPlans /\ FbaDated(r) /\ Settled(r)
      BY <2>1, FbaAssumption DEF InboundPlans, FbaDated, Settled, InboundPlanTable
    <2>3. InTable(r) /\ Good(r) /\ Lasting(r)
      BY <2>1, <2>2, FbaTables, FbaRows DEF InTable, Lasting
    <2> QED
      BY <2>1, <2>3, InsertStep, FbaAssumption
  <1>5. CASE ExceptionCreate
    <2>1. PICK r : /\ Inserts(r)
                   /\ r = [kind |-> "fba_exception", status |-> "open", resolved_at |-> FALSE,
                           assigned |-> FALSE]
      BY <1>5 DEF ExceptionCreate, ExceptionTable
    <2>2. r \in FbaExceptions /\ FbaDated(r) /\ Settled(r)
      BY <2>1 DEF FbaExceptions, FbaDated, Settled, ExceptionTable
    <2>3. InTable(r) /\ Good(r) /\ Lasting(r)
      BY <2>1, <2>2, FbaTables, FbaRows DEF InTable, Lasting
    <2> QED
      BY <2>1, <2>3, InsertStep
  <1> QED
    BY <1>1, <1>2, <1>3, <1>4, <1>5

\* The requests on a row of kind fba_shipment.
LEMMA FbaShipmentSteps ==
    ASSUME RInv, NEW d \in Desks, NEW i \in Ids,
           FbaShipmentUpdateStatus(d, i) \/ FbaUpdateTracking(d, i) \/
           FbaReceivePartial(d, i) \/ FbaShipmentUpdate(d, i) \/ FbaShipmentDelete(d, i) \/
           BoxLabelCreate(d, i)
    PROVE  SoundStep
  <1>1. row[i].kind = "fba_shipment" /\ row[i] # NoRow /\ row[i] \in FbaShipments
    BY NoRowKind, FbaTables DEF FbaShipmentUpdateStatus, FbaUpdateTracking, FbaReceivePartial,
                                FbaShipmentUpdate, FbaShipmentDelete, BoxLabelCreate, Opens,
                                OpensShipment, RInv, RowSound, InTable
  <1>2. CASE FbaShipmentUpdateStatus(d, i)
    <2>1. PICK t, looked, set :
             /\ t \in FbaShipmentTable[row[i].status]
             /\ Sets(d, i, looked, set) /\ looked = {"status", "deleted"}
             /\ \/ t = "shipped" /\ set = [status |-> t, shipped_at |-> TRUE]
                \/ t = "received" /\ set = [status |-> t, received_at |-> TRUE]
                \/ t \notin {"shipped", "received"} /\ set = [status |-> t]
      BY <1>2 DEF FbaShipmentUpdateStatus
    <2>2. /\ DOMAIN set \subseteq {"status", "shipped_at", "received_at"}
          /\ set.status = t /\ t \in DOMAIN FbaShipmentTable
          /\ \A c \in DOMAIN set \ {"status"} : set[c] = TRUE
      BY <1>1, <2>1 DEF FbaShipments, FbaShipmentTable
    <2>3. Typed(FbaShipments, set)
      <3>1. SUFFICES ASSUME NEW r \in FbaShipments, NEW C \in SUBSET DOMAIN set,
                            NEW m, m = Merged(r, set, C)
                     PROVE  DOMAIN set \subseteq DOMAIN r \ FixedColumns /\ m \in FbaShipments
        BY DEF Typed
      <3>2. /\ m = [c \in DOMAIN r |-> m[c]]
            /\ m.status \in DOMAIN FbaShipmentTable
            /\ m.shipped_at \in BOOLEAN
            /\ m.received_at \in BOOLEAN
            /\ m.kind = r.kind
            /\ m.tracked = r.tracked
            /\ m.plan = r.plan
            /\ m.deleted = r.deleted
        BY <2>2, <3>1 DEF Merged, FbaShipments
      <3>3. m \in FbaShipments
        BY <3>2 DEF FbaShipments
      <3> QED
        BY <2>2, <3>3 DEF FbaShipments, FixedColumns
    <2>4. ASSUME NEW r \in FbaShipments, NEW s \in FbaShipments, s = Merged(r, set, DOMAIN set),
                 Match(r, Loaded(row[i], looked \cup DOMAIN set))
          PROVE  Keeps(r, s, 0)
      <3>1. t \in FbaShipmentTable[r.status] /\ r.status \in DOMAIN FbaShipmentTable
        BY <2>1, <2>4 DEF Match, Loaded, FbaShipments
      <3>2. /\ s.status = t /\ s.kind = r.kind /\ "count" \notin DOMAIN r /\ r.kind = "fba_shipment"
            /\ s.shipped_at = (r.shipped_at \/ t = "shipped")
            /\ s.received_at = (r.received_at \/ t = "received")
        BY <2>1, <2>4 DEF Merged, FbaShipments
      <3>3. ~FbaFinal(r)
        BY <3>1, <3>2 DEF FbaFinal, FbaShipmentTable
      <3>4. /\ t \in {"partial_received", "received"} => r.status \in {"shipped", "partial_received"}
            /\ t = "closed" => r.status = "received"
            /\ t \notin {"received", "closed"} => r.status \notin {"received", "closed"}
        BY <3>1 DEF FbaShipmentTable
      <3>5. FbaDated(r) /\ Settled(r) => FbaDated(s) /\ Settled(s)
        BY <3>2, <3>4 DEF FbaDated, Settled
      <3> QED
        BY <3>2, <3>3, <3>5, FbaKeeps
    <2> QED
      BY <1>1, <2>1, <2>3, <2>4, FbaTables, PlainStep
  <1>3. CASE FbaUpdateTracking(d, i)
    <2>1. PICK looked, set :
             /\ Sets(d, i, looked, set)
             /\ set = [tracked |-> TRUE] /\ looked = {"status", "deleted"}
      BY <1>3 DEF FbaUpdateTracking
    <2>2. Typed(FbaShipments, set)
      BY <2>1 DEF Typed, Merged, FbaShipments, FixedColumns
    <2>3. ASSUME NEW r \in FbaShipments, NEW s \in FbaShipments, s = Merged(r, set, DOMAIN set),
                 Match(r, Loaded(row[i], looked \cup DOMAIN set))
          PROVE  Keeps(r, s, 0)
      BY <2>1, <2>3, FbaKeeps DEF Match, Loaded, Merged, FbaShipments, FbaDated, FbaFinal,
                                  Settled
    <2> QED
      BY <1>1, <2>1, <2>2, <2>3, FbaTables, PlainStep
  <1>4. CASE FbaReceivePartial(d, i)
    <2>1. PICK looked, set :
             /\ Sets(d, i, looked, set)
             /\ row[i].status \in {"shipped", "partial_received"}
             /\ set = [status |-> "partial_received"] /\ looked = {"deleted"}
             /\ set.status \in DOMAIN FbaShipmentTable
      BY <1>4 DEF FbaReceivePartial, FbaShipmentTable
    <2>2. Typed(FbaShipments, set)
      BY <2>1 DEF Typed, Merged, FbaShipments, FixedColumns
    <2>3. ASSUME NEW r \in FbaShipments, NEW s \in FbaShipments, s = Merged(r, set, DOMAIN set),
                 Match(r, Loaded(row[i], looked \cup DOMAIN set))
          PROVE  Keeps(r, s, 0)
      BY <2>1, <2>3, FbaKeeps DEF Match, Loaded, Merged, FbaShipments, FbaDated, FbaFinal,
                                  Settled
    <2> QED
      BY <1>1, <2>1, <2>2, <2>3, FbaTables, PlainStep
  <1>5. CASE FbaShipmentUpdate(d, i)
    <2>1. PICK looked, set :
             /\ Sets(d, i, looked, set)
             /\ set = None /\ looked = {"status", "deleted"}
      BY <1>5 DEF FbaShipmentUpdate
    <2>2. Typed(FbaShipments, set)
      BY <2>1 DEF Typed, Merged, FbaShipments, FixedColumns, None
    <2>3. ASSUME NEW r \in FbaShipments, NEW s \in FbaShipments, s = Merged(r, set, DOMAIN set),
                 Match(r, Loaded(row[i], looked \cup DOMAIN set))
          PROVE  Keeps(r, s, 0)
      BY <2>1, <2>3, FbaKeeps DEF Match, Loaded, Merged, FbaShipments, FbaDated, FbaFinal,
                                  Settled, None
    <2> QED
      BY <1>1, <2>1, <2>2, <2>3, FbaTables, PlainStep
  <1>6. CASE FbaShipmentDelete(d, i)
    <2>1. PICK looked, set :
             /\ Sets(d, i, looked, set)
             /\ set = [deleted |-> TRUE] /\ looked = {"status"}
      BY <1>6 DEF FbaShipmentDelete
    <2>2. Typed(FbaShipments, set)
      BY <2>1 DEF Typed, Merged, FbaShipments, FixedColumns
    <2>3. ASSUME NEW r \in FbaShipments, NEW s \in FbaShipments, s = Merged(r, set, DOMAIN set),
                 Match(r, Loaded(row[i], looked \cup DOMAIN set))
          PROVE  Keeps(r, s, 0)
      BY <2>1, <2>3, FbaKeeps DEF Match, Loaded, Merged, FbaShipments, FbaDated, FbaFinal,
                                  Settled
    <2> QED
      BY <1>1, <2>1, <2>2, <2>3, FbaTables, PlainStep
  <1>7. CASE BoxLabelCreate(d, i)
    <2>1. PICK looked, new :
             /\ Adds(d, i, looked, new)
             /\ row[i].status \notin {"cancelled", "closed"}
             /\ new = [kind |-> "box_label", status |-> "created", printed_at |-> FALSE, of |-> i]
             /\ looked = {"status", "deleted"}
      BY <1>7 DEF BoxLabelCreate
    <2>2. new \in BoxLabels /\ FbaDated(new) /\ Settled(new)
      BY <1>1, <2>1 DEF BoxLabels, FbaDated, Settled, BoxLabelTable
    <2>3. InTable(new) /\ Good(new) /\ Lasting(new)
      BY <2>1, <2>2, FbaTables, FbaRows DEF InTable, Lasting
    <2>4. PICK l : l = Loaded(row[i], looked)
      OBVIOUS
    <2>5. Living(row[i].kind, l)
      BY <1>1, <2>1, <2>4 DEF Living, Match, Loaded, ClosedToDetails
    <2> QED
      BY <1>1, <2>1, <2>3, <2>4, <2>5, AddsStep
  <1> QED
    BY <1>2, <1>3, <1>4, <1>5, <1>6, <1>7

\* The requests on a row of kind box_label.
LEMMA BoxLabelSteps ==
    ASSUME RInv, NEW d \in Desks, NEW i \in Ids,
           BoxLabelUpdateStatus(d, i)
    PROVE  SoundStep
  <1>1. row[i].kind = "box_label" /\ row[i] # NoRow /\ row[i] \in BoxLabels
    BY NoRowKind, FbaTables DEF BoxLabelUpdateStatus, Opens, RInv, RowSound, InTable
  <1>2. CASE BoxLabelUpdateStatus(d, i)
    <2>1. PICK t, looked, set :
             /\ t \in BoxLabelTable[row[i].status]
             /\ Sets(d, i, looked, set) /\ looked = {"status"}
             /\ \/ t = "printed" /\ set = [status |-> t, printed_at |-> TRUE]
                \/ t \notin {"printed"} /\ set = [status |-> t]
      BY <1>2 DEF BoxLabelUpdateStatus
    <2>2. /\ DOMAIN set \subseteq {"status", "printed_at"}
          /\ set.status = t /\ t \in DOMAIN BoxLabelTable
          /\ \A c \in DOMAIN set \ {"status"} : set[c] = TRUE
      BY <1>1, <2>1 DEF BoxLabels, BoxLabelTable
    <2>3. Typed(BoxLabels, set)
      BY <2>2 DEF Typed, Merged, BoxLabels, FixedColumns
    <2>4. ASSUME NEW r \in BoxLabels, NEW s \in BoxLabels, s = Merged(r, set, DOMAIN set),
                 Match(r, Loaded(row[i], looked \cup DOMAIN set))
          PROVE  Keeps(r, s, 0)
      <3>1. t \in BoxLabelTable[r.status] /\ r.status \in DOMAIN BoxLabelTable
        BY <2>1, <2>4 DEF Match, Loaded, BoxLabels
      <3>2. /\ s.status = t /\ s.kind = r.kind /\ "count" \notin DOMAIN r /\ r.kind = "box_label"
            /\ s.printed_at = (r.printed_at \/ t = "printed")
        BY <2>1, <2>4 DEF Merged, BoxLabels
      <3>3. ~FbaFinal(r)
        BY <3>1, <3>2 DEF FbaFinal, BoxLabelTable
      <3>4. /\ t = "attached" => r.status = "printed"
        BY <3>1 DEF BoxLabelTable
      <3>5. FbaDated(r) /\ Settled(r) => FbaDated(s) /\ Settled(s)
        BY <3>2, <3>4 DEF FbaDated, Settled
      <3> QED
        BY <3>2, <3>3, <3>5, FbaKeeps
    <2> QED
      BY <1>1, <2>1, <2>3, <2>4, FbaTables, PlainStep
  <1> QED
    BY <1>2

\* The requests on a row of kind fba_inventory.
LEMMA FbaInventorySteps ==
    ASSUME RInv, NEW d \in Desks, NEW i \in Ids,
           UpdateQuantities(d, i) \/ AdjustQuantity(d, i)
    PROVE  SoundStep
  <1>1. row[i].kind = "fba_inventory" /\ row[i] # NoRow /\ row[i] \in FbaInventories
    BY NoRowKind, FbaTables DEF UpdateQuantities, AdjustQuantity, Opens, RInv, RowSound, InTable
  <1>2. CASE UpdateQuantities(d, i)
    <2>1. PICK q, looked, set, gain :
             /\ Counts(d, i, looked, set, gain) /\ gain = q - row[i].count /\ gain \in Int
             /\ q \in Nat
             /\ set = [count |-> q] /\ looked = {}
      BY <1>1, <1>2, FbaAssumption DEF UpdateQuantities, FbaInventories
    <2>2. Typed(FbaInventories, set)
      BY <1>1, <2>1 DEF Typed, Merged, FbaInventories, FixedColumns
    <2>3. ASSUME NEW r \in FbaInventories, NEW s \in FbaInventories, s = Merged(r, set, DOMAIN set),
                 Match(r, Loaded(row[i], looked \cup DOMAIN set))
          PROVE  Keeps(r, s, gain)
      BY <1>1, <2>1, <2>3, FbaKeeps DEF Match, Loaded, Merged, FbaInventories, FbaDated,
                                        FbaFinal, Settled
    <2>4. Counts(d, i, looked, set, gain) /\ gain \in Int
      BY <2>1
    <2> QED
      BY <1>1, <2>2, <2>3, <2>4, FbaTables, PlainCountsStep, ZenonT(60)
  <1>3. CASE AdjustQuantity(d, i)
    <2>1. PICK delta, looked, set, gain :
             /\ Counts(d, i, looked, set, gain) /\ gain = delta /\ gain \in Int
             /\ row[i].count + delta \in Nat
             /\ set = [count |-> row[i].count + delta] /\ looked = {}
      BY <1>1, <1>3, FbaAssumption DEF AdjustQuantity, FbaInventories
    <2>2. Typed(FbaInventories, set)
      BY <1>1, <2>1 DEF Typed, Merged, FbaInventories, FixedColumns
    <2>3. ASSUME NEW r \in FbaInventories, NEW s \in FbaInventories, s = Merged(r, set, DOMAIN set),
                 Match(r, Loaded(row[i], looked \cup DOMAIN set))
          PROVE  Keeps(r, s, gain)
      BY <1>1, <2>1, <2>3, FbaKeeps DEF Match, Loaded, Merged, FbaInventories, FbaDated,
                                        FbaFinal, Settled
    <2>4. Counts(d, i, looked, set, gain) /\ gain \in Int
      BY <2>1
    <2> QED
      BY <1>1, <2>2, <2>3, <2>4, FbaTables, PlainCountsStep, ZenonT(60)
  <1> QED
    BY <1>2, <1>3

\* The requests on a row of kind replenishment.
LEMMA ReplenishmentSteps ==
    ASSUME RInv, NEW d \in Desks, NEW i \in Ids,
           ReplenishmentApprove(d, i) \/ ReplenishmentReject(d, i) \/ LinkShipment(d, i)
    PROVE  SoundStep
  <1>1. row[i].kind = "replenishment" /\ row[i] # NoRow /\ row[i] \in Replenishments
    BY NoRowKind, FbaTables DEF ReplenishmentApprove, ReplenishmentReject, LinkShipment, Opens,
                                RInv, RowSound, InTable
  <1>2. CASE ReplenishmentApprove(d, i)
    <2>1. PICK looked, set :
             /\ Sets(d, i, looked, set)
             /\ row[i].status = "pending"
             /\ set = [status |-> "approved", approved_at |-> TRUE] /\ looked = {}
             /\ set.status \in DOMAIN ReplenishmentTable
      BY <1>1, <1>2 DEF ReplenishmentApprove, ReplenishmentTable, Replenishments
    <2>2. Typed(Replenishments, set)
      BY <2>1 DEF Typed, Merged, Replenishments, FixedColumns
    <2>3. ASSUME NEW r \in Replenishments, NEW s \in Replenishments, s = Merged(r, set, DOMAIN set),
                 Match(r, Loaded(row[i], looked \cup DOMAIN set))
          PROVE  Keeps(r, s, 0)
      BY <2>1, <2>3, FbaKeeps DEF Match, Loaded, Merged, Replenishments, FbaDated, FbaFinal,
                                  Settled
    <2> QED
      BY <1>1, <2>1, <2>2, <2>3, FbaTables, PlainStep
  <1>3. CASE ReplenishmentReject(d, i)
    <2>1. PICK looked, set :
             /\ Sets(d, i, looked, set)
             /\ row[i].status = "pending"
             /\ set = [status |-> "rejected"] /\ looked = {}
             /\ set.status \in DOMAIN ReplenishmentTable
      BY <1>1, <1>3 DEF ReplenishmentReject, ReplenishmentTable, Replenishments
    <2>2. Typed(Replenishments, set)
      BY <2>1 DEF Typed, Merged, Replenishments, FixedColumns
    <2>3. ASSUME NEW r \in Replenishments, NEW s \in Replenishments, s = Merged(r, set, DOMAIN set),
                 Match(r, Loaded(row[i], looked \cup DOMAIN set))
          PROVE  Keeps(r, s, 0)
      BY <2>1, <2>3, FbaKeeps DEF Match, Loaded, Merged, Replenishments, FbaDated, FbaFinal,
                                  Settled
    <2> QED
      BY <1>1, <2>1, <2>2, <2>3, FbaTables, PlainStep
  <1>4. CASE LinkShipment(d, i)
    <2>1. PICK looked, set :
             /\ Sets(d, i, looked, set)
             /\ row[i].status \in {"approved", "in_progress"}
             /\ set = [status |-> "in_progress", linked |-> TRUE] /\ looked = {}
             /\ set.status \in DOMAIN ReplenishmentTable
      BY <1>4 DEF LinkShipment, ReplenishmentTable
    <2>2. Typed(Replenishments, set)
      BY <2>1 DEF Typed, Merged, Replenishments, FixedColumns
    <2>3. ASSUME NEW r \in Replenishments, NEW s \in Replenishments, s = Merged(r, set, DOMAIN set),
                 Match(r, Loaded(row[i], looked \cup DOMAIN set))
          PROVE  Keeps(r, s, 0)
      BY <2>1, <2>3, FbaKeeps DEF Match, Loaded, Merged, Replenishments, FbaDated, FbaFinal,
                                  Settled
    <2> QED
      BY <1>1, <2>1, <2>2, <2>3, FbaTables, PlainStep
  <1> QED
    BY <1>2, <1>3, <1>4

\* The requests on a row of kind inbound_plan.
LEMMA InboundPlanSteps ==
    ASSUME RInv, NEW d \in Desks, NEW i \in Ids,
           InboundPlanUpdateStatus(d, i) \/ SplitPlan(d, i)
    PROVE  SoundStep
  <1>1. row[i].kind = "inbound_plan" /\ row[i] # NoRow /\ row[i] \in InboundPlans
    BY NoRowKind, FbaTables DEF InboundPlanUpdateStatus, SplitPlan, Opens, RInv, RowSound,
                                InTable
  <1>2. CASE InboundPlanUpdateStatus(d, i)
    <2>1. PICK t, looked, set :
             /\ t \in InboundPlanTable[row[i].status]
             /\ Sets(d, i, looked, set) /\ looked = {"status"}
             /\ \/ t = "submitted" /\ set = [status |-> t, submitted_at |-> TRUE]
                \/ t = "completed" /\ set = [status |-> t, completed_at |-> TRUE]
                \/ t \notin {"submitted", "completed"} /\ set = [status |-> t]
      BY <1>2 DEF InboundPlanUpdateStatus
    <2>2. /\ DOMAIN set \subseteq {"status", "submitted_at", "completed_at"}
          /\ set.status = t /\ t \in DOMAIN InboundPlanTable
          /\ \A c \in DOMAIN set \ {"status"} : set[c] = TRUE
      BY <1>1, <2>1 DEF InboundPlans, InboundPlanTable
    <2>3. Typed(InboundPlans, set)
      BY <2>2 DEF Typed, Merged, InboundPlans, FixedColumns
    <2>4. ASSUME NEW r \in InboundPlans, NEW s \in InboundPlans, s = Merged(r, set, DOMAIN set),
                 Match(r, Loaded(row[i], looked \cup DOMAIN set))
          PROVE  Keeps(r, s, 0)
      <3>1. t \in InboundPlanTable[r.status] /\ r.status \in DOMAIN InboundPlanTable
        BY <2>1, <2>4 DEF Match, Loaded, InboundPlans
      <3>2. /\ s.status = t /\ s.kind = r.kind /\ "count" \notin DOMAIN r /\ r.kind = "inbound_plan"
            /\ s.submitted_at = (r.submitted_at \/ t = "submitted")
            /\ s.completed_at = (r.completed_at \/ t = "completed")
        BY <2>1, <2>4 DEF Merged, InboundPlans
      <3>3. ~FbaFinal(r)
        BY <3>1, <3>2 DEF FbaFinal, InboundPlanTable
      <3>4. /\ t # "draft"
            /\ t \notin {"submitted", "cancelled"} => r.status \notin {"draft", "cancelled"}
        BY <3>1 DEF InboundPlanTable
      <3>5. FbaDated(r) /\ Settled(r) => FbaDated(s) /\ Settled(s)
        BY <3>2, <3>4 DEF FbaDated, Settled
      <3> QED
        BY <3>2, <3>3, <3>5, FbaKeeps
    <2> QED
      BY <1>1, <2>1, <2>3, <2>4, FbaTables, PlainStep
  <1>3. CASE SplitPlan(d, i)
    <2>1. PICK looked, new :
             /\ Adds(d, i, looked, new)
             /\ new = [kind |-> "fba_shipment", status |-> "draft", shipped_at |-> FALSE,
                       received_at |-> FALSE, tracked |-> FALSE, plan |-> i, deleted |-> FALSE]
             /\ looked = {"total_units"}
      BY <1>3 DEF SplitPlan, FbaShipmentRow
    <2>2. new \in FbaShipments /\ FbaDated(new) /\ Settled(new)
      BY <1>1, <2>1 DEF FbaShipments, FbaDated, Settled, FbaShipmentTable
    <2>3. InTable(new) /\ Good(new) /\ Lasting(new)
      BY <2>1, <2>2, FbaTables, FbaRows DEF InTable, Lasting
    <2>4. PICK l : l = Loaded(row[i], looked)
      OBVIOUS
    <2> QED
      BY <1>1, <2>1, <2>3, <2>4, AddsStep
  <1> QED
    BY <1>2, <1>3

\* The requests on a row of kind fba_exception.
LEMMA FbaExceptionSteps ==
    ASSUME RInv, NEW d \in Desks, NEW i \in Ids,
           ExceptionUpdateStatus(d, i) \/ ExceptionAssign(d, i) \/ ExceptionResolve(d, i) \/
           ExceptionEscalate(d, i)
    PROVE  SoundStep
  <1>1. row[i].kind = "fba_exception" /\ row[i] # NoRow /\ row[i] \in FbaExceptions
    BY NoRowKind, FbaTables DEF ExceptionUpdateStatus, ExceptionAssign, ExceptionResolve,
                                ExceptionEscalate, Opens, RInv, RowSound, InTable
  <1>2. CASE ExceptionUpdateStatus(d, i)
    <2>1. PICK t, looked, set :
             /\ t \in ExceptionTable[row[i].status]
             /\ Sets(d, i, looked, set) /\ looked = {"status"}
             /\ \/ t = "resolved" /\ set = [status |-> t, resolved_at |-> TRUE]
                \/ t \notin {"resolved"} /\ set = [status |-> t]
      BY <1>2 DEF ExceptionUpdateStatus
    <2>2. /\ DOMAIN set \subseteq {"status", "resolved_at"}
          /\ set.status = t /\ t \in DOMAIN ExceptionTable
          /\ \A c \in DOMAIN set \ {"status"} : set[c] = TRUE
      BY <1>1, <2>1 DEF FbaExceptions, ExceptionTable
    <2>3. Typed(FbaExceptions, set)
      BY <2>2 DEF Typed, Merged, FbaExceptions, FixedColumns
    <2>4. ASSUME NEW r \in FbaExceptions, NEW s \in FbaExceptions, s = Merged(r, set, DOMAIN set),
                 Match(r, Loaded(row[i], looked \cup DOMAIN set))
          PROVE  Keeps(r, s, 0)
      <3>1. t \in ExceptionTable[r.status] /\ r.status \in DOMAIN ExceptionTable
        BY <2>1, <2>4 DEF Match, Loaded, FbaExceptions
      <3>2. /\ s.status = t /\ s.kind = r.kind /\ "count" \notin DOMAIN r /\ r.kind = "fba_exception"
            /\ s.resolved_at = (r.resolved_at \/ t = "resolved")
        BY <2>1, <2>4 DEF Merged, FbaExceptions
      <3>3. ~FbaFinal(r)
        BY <3>1, <3>2 DEF FbaFinal, ExceptionTable
      <3>4. /\ r.status \in {"resolved", "closed"} => t = "closed"
        BY <3>1 DEF ExceptionTable
      <3>5. FbaDated(r) /\ Settled(r) => FbaDated(s) /\ Settled(s)
        BY <3>2, <3>4 DEF FbaDated, Settled
      <3> QED
        BY <3>2, <3>3, <3>5, FbaKeeps
    <2> QED
      BY <1>1, <2>1, <2>3, <2>4, FbaTables, PlainStep
  <1>3. CASE ExceptionAssign(d, i) /\ row[i].status = "open"
    <2>1. PICK looked, set :
             /\ Sets(d, i, looked, set)
             /\ row[i].status = "open"
             /\ set = [assigned |-> TRUE, status |-> "investigating"] /\ looked = {"status"}
             /\ set.status \in DOMAIN ExceptionTable
      BY <1>3 DEF ExceptionAssign, ExceptionTable
    <2>2. Typed(FbaExceptions, set)
      BY <2>1 DEF Typed, Merged, FbaExceptions, FixedColumns
    <2>3. ASSUME NEW r \in FbaExceptions, NEW s \in FbaExceptions, s = Merged(r, set, DOMAIN set),
                 Match(r, Loaded(row[i], looked \cup DOMAIN set))
          PROVE  Keeps(r, s, 0)
      BY <2>1, <2>3, FbaKeeps DEF Match, Loaded, Merged, FbaExceptions, FbaDated, FbaFinal,
                                  Settled
    <2> QED
      BY <1>1, <2>1, <2>2, <2>3, FbaTables, PlainStep
  <1>4. CASE ExceptionAssign(d, i) /\ row[i].status # "open"
    <2>1. PICK looked, set :
             /\ Sets(d, i, looked, set)
             /\ set = [assigned |-> TRUE] /\ looked = {"status"}
      BY <1>4 DEF ExceptionAssign
    <2>2. Typed(FbaExceptions, set)
      BY <2>1 DEF Typed, Merged, FbaExceptions, FixedColumns
    <2>3. ASSUME NEW r \in FbaExceptions, NEW s \in FbaExceptions, s = Merged(r, set, DOMAIN set),
                 Match(r, Loaded(row[i], looked \cup DOMAIN set))
          PROVE  Keeps(r, s, 0)
      BY <2>1, <2>3, FbaKeeps DEF Match, Loaded, Merged, FbaExceptions, FbaDated, FbaFinal,
                                  Settled
    <2> QED
      BY <1>1, <2>1, <2>2, <2>3, FbaTables, PlainStep
  <1>5. CASE ExceptionResolve(d, i)
    <2>1. PICK looked, set :
             /\ Sets(d, i, looked, set)
             /\ row[i].status \in {"investigating", "escalated"}
             /\ set = [status |-> "resolved", resolved_at |-> TRUE] /\ looked = {}
             /\ set.status \in DOMAIN ExceptionTable
      BY <1>5 DEF ExceptionResolve, ExceptionTable
    <2>2. Typed(FbaExceptions, set)
      BY <2>1 DEF Typed, Merged, FbaExceptions, FixedColumns
    <2>3. ASSUME NEW r \in FbaExceptions, NEW s \in FbaExceptions, s = Merged(r, set, DOMAIN set),
                 Match(r, Loaded(row[i], looked \cup DOMAIN set))
          PROVE  Keeps(r, s, 0)
      BY <2>1, <2>3, FbaKeeps DEF Match, Loaded, Merged, FbaExceptions, FbaDated, FbaFinal,
                                  Settled
    <2> QED
      BY <1>1, <2>1, <2>2, <2>3, FbaTables, PlainStep
  <1>6. CASE ExceptionEscalate(d, i)
    <2>1. PICK looked, set :
             /\ Sets(d, i, looked, set)
             /\ row[i].status \in {"open", "investigating"}
             /\ set = [status |-> "escalated"] /\ looked = {}
             /\ set.status \in DOMAIN ExceptionTable
      BY <1>6 DEF ExceptionEscalate, ExceptionTable
    <2>2. Typed(FbaExceptions, set)
      BY <2>1 DEF Typed, Merged, FbaExceptions, FixedColumns
    <2>3. ASSUME NEW r \in FbaExceptions, NEW s \in FbaExceptions, s = Merged(r, set, DOMAIN set),
                 Match(r, Loaded(row[i], looked \cup DOMAIN set))
          PROVE  Keeps(r, s, 0)
      BY <2>1, <2>3, FbaKeeps DEF Match, Loaded, Merged, FbaExceptions, FbaDated, FbaFinal,
                                  Settled
    <2> QED
      BY <1>1, <2>1, <2>2, <2>3, FbaTables, PlainStep
  <1> QED
    BY <1>2, <1>3, <1>4, <1>5, <1>6

-----------------------------------------------------------------------------
(* CRM *)

\* Its tables, and what being final and being dated come to for their rows.
LEMMA CrmTables ==
    /\ TableOfKind["customer"] = Customers /\ TableOfKind["review"] = Reviews
    /\ TableOfKind["ticket"] = Tickets /\ TableOfKind["return"] = Returns
    /\ TableOfKind["complaint"] = Complaints /\ TableOfKind["reply_template"] = ReplyTemplates
  BY DEF TableOfKind

LEMMA CrmRows ==
    ASSUME NEW r,
           r.kind \in {"customer", "review", "ticket", "return", "complaint", "reply_template"}
    PROVE  /\ Final(r) <=> CrmFinal(r)
           /\ Good(r) <=> CrmDated(r) /\ Settled(r)
           /\ r.kind \in Kinds
  BY DEF Final, FbaFinal, SomFinal, PdmFinal, AdsFinal, TransfersFinal, PaperworkFinal,
         IntegrationFinal, Good, Dated, FbaDated, PdmDated, TransfersDated, PaperworkDated,
         IntegrationDated, Offered, Kinds, TableOfKind

LEMMA CrmKeeps ==
    ASSUME NEW r, NEW s, NEW gain, s.kind = r.kind,
           r.kind \in {"customer", "review", "ticket", "return", "complaint", "reply_template"},
           CrmFinal(r) => s.status = r.status,
           CrmDated(r) /\ Settled(r) => CrmDated(s) /\ Settled(s),
           "count" \in DOMAIN r => s.count = r.count + gain
    PROVE  Keeps(r, s, gain)
  BY CrmRows DEF Keeps

\* The requests that insert a row and read none.
LEMMA CrmInserts ==
    ASSUME RInv,
           CustomerCreate \/ ReviewCreate \/ TicketCreate \/ ReturnCreate \/ ComplaintCreate \/
           TemplateCreate
    PROVE  SoundStep
  <1>1. CASE CustomerCreate
    <2>1. PICK r : /\ Inserts(r)
                   /\ r = [kind |-> "customer", count |-> 0, amount |-> 0, average |-> <<0, 0>>,
                           segment |-> "normal", deleted |-> FALSE]
      BY <1>1 DEF CustomerCreate
    <2>2. r \in Customers /\ CrmDated(r) /\ Settled(r)
      BY <2>1 DEF Customers, CrmDated, Settled
    <2>3. InTable(r) /\ Good(r) /\ Lasting(r)
      BY <2>1, <2>2, CrmTables, CrmRows DEF InTable, Lasting
    <2> QED
      BY <2>1, <2>3, InsertStep
  <1>2. CASE ReviewCreate
    <2>1. PICK r :
             /\ Inserts(r)
             /\ r = [kind |-> "review", status |-> "pending", replied_at |-> FALSE]
      BY <1>2 DEF ReviewCreate, ReviewTable
    <2>2. r \in Reviews /\ CrmDated(r) /\ Settled(r)
      BY <2>1 DEF Reviews, CrmDated, Settled, ReviewTable
    <2>3. InTable(r) /\ Good(r) /\ Lasting(r)
      BY <2>1, <2>2, CrmTables, CrmRows DEF InTable, Lasting
    <2> QED
      BY <2>1, <2>3, InsertStep
  <1>3. CASE TicketCreate
    <2>1. PICK r : /\ Inserts(r)
                   /\ r = [kind |-> "ticket", status |-> "open", first_response_at |-> FALSE,
                           resolved_at |-> FALSE, closed_at |-> FALSE]
      BY <1>3 DEF TicketCreate, TicketTable
    <2>2. r \in Tickets /\ CrmDated(r) /\ Settled(r)
      BY <2>1 DEF Tickets, CrmDated, Settled, TicketTable
    <2>3. InTable(r) /\ Good(r) /\ Lasting(r)
      BY <2>1, <2>2, CrmTables, CrmRows DEF InTable, Lasting
    <2> QED
      BY <2>1, <2>3, InsertStep
  <1>4. CASE ReturnCreate
    <2>1. PICK r : /\ Inserts(r)
                   /\ r = [kind |-> "return", status |-> "requested", received_at |-> FALSE,
                           refunded_at |-> FALSE]
      BY <1>4 DEF ReturnCreate, ReturnTable
    <2>2. r \in Returns /\ CrmDated(r) /\ Settled(r)
      BY <2>1 DEF Returns, CrmDated, Settled, ReturnTable
    <2>3. InTable(r) /\ Good(r) /\ Lasting(r)
      BY <2>1, <2>2, CrmTables, CrmRows DEF InTable, Lasting
    <2> QED
      BY <2>1, <2>3, InsertStep
  <1>5. CASE ComplaintCreate
    <2>1. PICK t, r :
             /\ Inserts(r)
             /\ r = [kind |-> "complaint", status |-> t, resolved_at |-> FALSE, closed_at |-> FALSE]
             /\ t \in {"escalated", "submitted"}
      BY <1>5 DEF ComplaintCreate, ComplaintTable
    <2>2. r \in Complaints /\ CrmDated(r) /\ Settled(r)
      BY <2>1 DEF Complaints, CrmDated, Settled, ComplaintTable
    <2>3. InTable(r) /\ Good(r) /\ Lasting(r)
      BY <2>1, <2>2, CrmTables, CrmRows DEF InTable, Lasting
    <2> QED
      BY <2>1, <2>3, InsertStep
  <1>6. CASE TemplateCreate
    <2>1. PICK r :
             /\ Inserts(r)
             /\ r = [kind |-> "reply_template", count |-> 0]
      BY <1>6 DEF TemplateCreate
    <2>2. r \in ReplyTemplates /\ CrmDated(r) /\ Settled(r)
      BY <2>1 DEF ReplyTemplates, CrmDated, Settled
    <2>3. InTable(r) /\ Good(r) /\ Lasting(r)
      BY <2>1, <2>2, CrmTables, CrmRows DEF InTable, Lasting
    <2> QED
      BY <2>1, <2>3, InsertStep
  <1> QED
    BY <1>1, <1>2, <1>3, <1>4, <1>5, <1>6

\* The requests on a row of kind review.
LEMMA ReviewSteps ==
    ASSUME RInv, NEW d \in Desks, NEW i \in Ids,
           ReviewUpdateStatus(d, i) \/ ReviewReply(d, i)
    PROVE  SoundStep
  <1>1. row[i].kind = "review" /\ row[i] # NoRow /\ row[i] \in Reviews
    BY NoRowKind, CrmTables DEF ReviewUpdateStatus, ReviewReply, Opens, RInv, RowSound, InTable
  <1>2. CASE ReviewUpdateStatus(d, i)
    <2>1. PICK t, looked, set :
             /\ t \in ReviewTable[row[i].status] /\ row[i].status \in DOMAIN ReviewTable
             /\ Sets(d, i, looked, set) /\ looked = {"status"}
             /\ set = [status |-> t]
      BY <1>2 DEF ReviewUpdateStatus, Follows, Only
    <2>2. /\ DOMAIN set \subseteq {"status"}
          /\ set.status = t /\ t \in DOMAIN ReviewTable
      BY <1>1, <2>1 DEF Reviews, ReviewTable
    <2>3. Typed(Reviews, set)
      BY <2>2 DEF Typed, Merged, Reviews, FixedColumns
    <2>4. ASSUME NEW r \in Reviews, NEW s \in Reviews, s = Merged(r, set, DOMAIN set),
                 Match(r, Loaded(row[i], looked \cup DOMAIN set))
          PROVE  Keeps(r, s, 0)
      <3>1. t \in ReviewTable[r.status] /\ r.status \in DOMAIN ReviewTable
        BY <2>1, <2>4 DEF Match, Loaded, Reviews
      <3>2. /\ s.status = t /\ s.kind = r.kind /\ "count" \notin DOMAIN r /\ r.kind = "review"
        BY <2>1, <2>4 DEF Merged, Reviews
      <3>3. ~CrmFinal(r)
        BY <3>1, <3>2 DEF CrmFinal, ReviewTable
      <3>4. CrmDated(r) /\ Settled(r) => CrmDated(s) /\ Settled(s)
        BY <3>2 DEF CrmDated, Settled
      <3> QED
        BY <3>2, <3>3, <3>4, CrmKeeps
    <2> QED
      BY <1>1, <2>1, <2>3, <2>4, CrmTables, PlainStep
  <1>3. CASE ReviewReply(d, i)
    <2>1. PICK looked, set :
             /\ Sets(d, i, looked, set)
             /\ row[i].status \in {"pending", "acknowledged", "escalated"}
             /\ set = [status |-> "replied", replied_at |-> TRUE] /\ looked = {}
             /\ set.status \in DOMAIN ReviewTable
      BY <1>3 DEF ReviewReply, ReviewTable
    <2>2. Typed(Reviews, set)
      BY <2>1 DEF Typed, Merged, Reviews, FixedColumns
    <2>3. ASSUME NEW r \in Reviews, NEW s \in Reviews, s = Merged(r, set, DOMAIN set),
                 Match(r, Loaded(row[i], looked \cup DOMAIN set))
          PROVE  Keeps(r, s, 0)
      BY <2>1, <2>3, CrmKeeps DEF Match, Loaded, Merged, Reviews, CrmDated, CrmFinal, Settled
    <2> QED
      BY <1>1, <2>1, <2>2, <2>3, CrmTables, PlainStep
  <1> QED
    BY <1>2, <1>3

\* The requests on a row of kind ticket.
LEMMA TicketSteps ==
    ASSUME RInv, NEW d \in Desks, NEW i \in Ids,
           TicketUpdateStatus(d, i) \/ TicketAssign(d, i) \/ TicketResolve(d, i)
    PROVE  SoundStep
  <1>1. row[i].kind = "ticket" /\ row[i] # NoRow /\ row[i] \in Tickets
    BY NoRowKind, CrmTables DEF TicketUpdateStatus, TicketAssign, TicketResolve, Opens, RInv,
                                RowSound, InTable
  <1>2. CASE TicketUpdateStatus(d, i)
    <2>1. PICK t, looked, set :
             /\ t \in TicketTable[row[i].status]
             /\ Sets(d, i, looked, set) /\ looked = {"status"}
             /\ \/ t = "in_progress" /\ set = [status |-> t, first_response_at |-> TRUE]
                \/ t = "resolved" /\ set = [status |-> t, resolved_at |-> TRUE]
                \/ t = "closed" /\ set = [status |-> t, closed_at |-> TRUE]
                \/ t \notin {"in_progress", "resolved", "closed"} /\ set = [status |-> t]
      BY <1>2 DEF TicketUpdateStatus
    <2>2. /\ DOMAIN set \subseteq {"status", "first_response_at", "resolved_at", "closed_at"}
          /\ set.status = t /\ t \in DOMAIN TicketTable
          /\ \A c \in DOMAIN set \ {"status"} : set[c] = TRUE
      BY <1>1, <2>1 DEF Tickets, TicketTable
    <2>3. Typed(Tickets, set)
      BY <2>2 DEF Typed, Merged, Tickets, FixedColumns
    <2>4. ASSUME NEW r \in Tickets, NEW s \in Tickets, s = Merged(r, set, DOMAIN set),
                 Match(r, Loaded(row[i], looked \cup DOMAIN set))
          PROVE  Keeps(r, s, 0)
      <3>1. t \in TicketTable[r.status] /\ r.status \in DOMAIN TicketTable
        BY <2>1, <2>4 DEF Match, Loaded, Tickets
      <3>2. /\ s.status = t /\ s.kind = r.kind /\ "count" \notin DOMAIN r /\ r.kind = "ticket"
            /\ s.first_response_at = (r.first_response_at \/ t = "in_progress")
            /\ s.resolved_at = (r.resolved_at \/ t = "resolved")
            /\ s.closed_at = (r.closed_at \/ t = "closed")
        BY <2>1, <2>4 DEF Merged, Tickets
      <3>3. ~CrmFinal(r)
        BY <3>1, <3>2 DEF CrmFinal, TicketTable
      <3>4. /\ t = "closed" => r.status = "resolved"
            /\ t = "reopened" => r.status \in {"resolved", "closed"}
        BY <3>1 DEF TicketTable
      <3>5. CrmDated(r) /\ Settled(r) => CrmDated(s) /\ Settled(s)
        BY <3>2, <3>4 DEF CrmDated, Settled
      <3> QED
        BY <3>2, <3>3, <3>5, CrmKeeps
    <2> QED
      BY <1>1, <2>1, <2>3, <2>4, CrmTables, PlainStep
  <1>3. CASE TicketAssign(d, i)
    <2>1. PICK looked, set :
             /\ Sets(d, i, looked, set)
             /\ row[i].status \in {"open", "escalated"}
             /\ set = [status |-> "in_progress", first_response_at |-> TRUE] /\ looked = {}
             /\ set.status \in DOMAIN TicketTable
      BY <1>3 DEF TicketAssign, TicketTable
    <2>2. Typed(Tickets, set)
      BY <2>1 DEF Typed, Merged, Tickets, FixedColumns
    <2>3. ASSUME NEW r \in Tickets, NEW s \in Tickets, s = Merged(r, set, DOMAIN set),
                 Match(r, Loaded(row[i], looked \cup DOMAIN set))
          PROVE  Keeps(r, s, 0)
      BY <2>1, <2>3, CrmKeeps DEF Match, Loaded, Merged, Tickets, CrmDated, CrmFinal, Settled
    <2> QED
      BY <1>1, <2>1, <2>2, <2>3, CrmTables, PlainStep
  <1>4. CASE TicketResolve(d, i)
    <2>1. PICK looked, set :
             /\ Sets(d, i, looked, set)
             /\ row[i].status \in {"in_progress", "pending_customer", "escalated"}
             /\ set = [status |-> "resolved", resolved_at |-> TRUE] /\ looked = {}
             /\ set.status \in DOMAIN TicketTable
      BY <1>4 DEF TicketResolve, TicketTable
    <2>2. Typed(Tickets, set)
      BY <2>1 DEF Typed, Merged, Tickets, FixedColumns
    <2>3. ASSUME NEW r \in Tickets, NEW s \in Tickets, s = Merged(r, set, DOMAIN set),
                 Match(r, Loaded(row[i], looked \cup DOMAIN set))
          PROVE  Keeps(r, s, 0)
      BY <2>1, <2>3, CrmKeeps DEF Match, Loaded, Merged, Tickets, CrmDated, CrmFinal, Settled
    <2> QED
      BY <1>1, <2>1, <2>2, <2>3, CrmTables, PlainStep
  <1> QED
    BY <1>2, <1>3, <1>4

\* The requests on a row of kind return.
LEMMA ReturnSteps ==
    ASSUME RInv, NEW d \in Desks, NEW i \in Ids,
           ReturnUpdateStatus(d, i)
    PROVE  SoundStep
  <1>1. row[i].kind = "return" /\ row[i] # NoRow /\ row[i] \in Returns
    BY NoRowKind, CrmTables DEF ReturnUpdateStatus, Opens, RInv, RowSound, InTable
  <1>2. CASE ReturnUpdateStatus(d, i)
    <2>1. PICK t, looked, set :
             /\ t \in ReturnTable[row[i].status]
             /\ Sets(d, i, looked, set) /\ looked = {"status"}
             /\ \/ t = "received" /\ set = [status |-> t, received_at |-> TRUE]
                \/ t = "refunded" /\ set = [status |-> t, refunded_at |-> TRUE]
                \/ t \notin {"received", "refunded"} /\ set = [status |-> t]
      BY <1>2 DEF ReturnUpdateStatus
    <2>2. /\ DOMAIN set \subseteq {"status", "received_at", "refunded_at"}
          /\ set.status = t /\ t \in DOMAIN ReturnTable
          /\ \A c \in DOMAIN set \ {"status"} : set[c] = TRUE
      BY <1>1, <2>1 DEF Returns, ReturnTable
    <2>3. Typed(Returns, set)
      BY <2>2 DEF Typed, Merged, Returns, FixedColumns
    <2>4. ASSUME NEW r \in Returns, NEW s \in Returns, s = Merged(r, set, DOMAIN set),
                 Match(r, Loaded(row[i], looked \cup DOMAIN set))
          PROVE  Keeps(r, s, 0)
      <3>1. t \in ReturnTable[r.status] /\ r.status \in DOMAIN ReturnTable
        BY <2>1, <2>4 DEF Match, Loaded, Returns
      <3>2. /\ s.status = t /\ s.kind = r.kind /\ "count" \notin DOMAIN r /\ r.kind = "return"
            /\ s.received_at = (r.received_at \/ t = "received")
            /\ s.refunded_at = (r.refunded_at \/ t = "refunded")
        BY <2>1, <2>4 DEF Merged, Returns
      <3>3. ~CrmFinal(r)
        BY <3>1, <3>2 DEF CrmFinal, ReturnTable
      <3>4. /\ t \in {"inspecting", "refunding", "refunded", "rejected_return"}
               => r.status \in {"received", "inspecting", "refunding"}
            /\ t \in {"requested", "approved", "return_shipping", "rejected", "cancelled"}
               => r.status \in {"requested", "approved", "return_shipping"}
        BY <3>1 DEF ReturnTable
      <3>5. CrmDated(r) /\ Settled(r) => CrmDated(s) /\ Settled(s)
        BY <3>2, <3>4 DEF CrmDated, Settled
      <3> QED
        BY <3>2, <3>3, <3>5, CrmKeeps
    <2> QED
      BY <1>1, <2>1, <2>3, <2>4, CrmTables, PlainStep
  <1> QED
    BY <1>2

\* The requests on a row of kind complaint.
LEMMA ComplaintSteps ==
    ASSUME RInv, NEW d \in Desks, NEW i \in Ids,
           ComplaintUpdateStatus(d, i) \/ ComplaintResolve(d, i) \/ ComplaintEscalate(d, i)
    PROVE  SoundStep
  <1>1. row[i].kind = "complaint" /\ row[i] # NoRow /\ row[i] \in Complaints
    BY NoRowKind, CrmTables DEF ComplaintUpdateStatus, ComplaintResolve, ComplaintEscalate,
                                Opens, RInv, RowSound, InTable
  <1>2. CASE ComplaintUpdateStatus(d, i)
    <2>1. PICK t, looked, set :
             /\ t \in ComplaintTable[row[i].status]
             /\ Sets(d, i, looked, set) /\ looked = {"status"}
             /\ \/ t = "resolved" /\ set = [status |-> t, resolved_at |-> TRUE]
                \/ t = "closed" /\ set = [status |-> t, closed_at |-> TRUE]
                \/ t \notin {"resolved", "closed"} /\ set = [status |-> t]
      BY <1>2 DEF ComplaintUpdateStatus
    <2>2. /\ DOMAIN set \subseteq {"status", "resolved_at", "closed_at"}
          /\ set.status = t /\ t \in DOMAIN ComplaintTable
          /\ \A c \in DOMAIN set \ {"status"} : set[c] = TRUE
      BY <1>1, <2>1 DEF Complaints, ComplaintTable
    <2>3. Typed(Complaints, set)
      BY <2>2 DEF Typed, Merged, Complaints, FixedColumns
    <2>4. ASSUME NEW r \in Complaints, NEW s \in Complaints, s = Merged(r, set, DOMAIN set),
                 Match(r, Loaded(row[i], looked \cup DOMAIN set))
          PROVE  Keeps(r, s, 0)
      <3>1. t \in ComplaintTable[r.status] /\ r.status \in DOMAIN ComplaintTable
        BY <2>1, <2>4 DEF Match, Loaded, Complaints
      <3>2. /\ s.status = t /\ s.kind = r.kind /\ "count" \notin DOMAIN r /\ r.kind = "complaint"
            /\ s.resolved_at = (r.resolved_at \/ t = "resolved")
            /\ s.closed_at = (r.closed_at \/ t = "closed")
        BY <2>1, <2>4 DEF Merged, Complaints
      <3>3. ~CrmFinal(r)
        BY <3>1, <3>2 DEF CrmFinal, ComplaintTable
      <3>4. /\ t = "closed" => r.status = "resolved"
            /\ t = "reopened" => r.status \in {"resolved", "closed"}
        BY <3>1 DEF ComplaintTable
      <3>5. CrmDated(r) /\ Settled(r) => CrmDated(s) /\ Settled(s)
        BY <3>2, <3>4 DEF CrmDated, Settled
      <3> QED
        BY <3>2, <3>3, <3>5, CrmKeeps
    <2> QED
      BY <1>1, <2>1, <2>3, <2>4, CrmTables, PlainStep
  <1>3. CASE ComplaintResolve(d, i)
    <2>1. PICK looked, set :
             /\ Sets(d, i, looked, set)
             /\ row[i].status \in {"investigating", "escalated"}
             /\ set = [status |-> "resolved", resolved_at |-> TRUE] /\ looked = {}
             /\ set.status \in DOMAIN ComplaintTable
      BY <1>3 DEF ComplaintResolve, ComplaintTable
    <2>2. Typed(Complaints, set)
      BY <2>1 DEF Typed, Merged, Complaints, FixedColumns
    <2>3. ASSUME NEW r \in Complaints, NEW s \in Complaints, s = Merged(r, set, DOMAIN set),
                 Match(r, Loaded(row[i], looked \cup DOMAIN set))
          PROVE  Keeps(r, s, 0)
      BY <2>1, <2>3, CrmKeeps DEF Match, Loaded, Merged, Complaints, CrmDated, CrmFinal, Settled
    <2> QED
      BY <1>1, <2>1, <2>2, <2>3, CrmTables, PlainStep
  <1>4. CASE ComplaintEscalate(d, i)
    <2>1. PICK looked, set :
             /\ Sets(d, i, looked, set)
             /\ row[i].status \in {"investigating", "submitted"}
             /\ set = [status |-> "escalated"] /\ looked = {}
             /\ set.status \in DOMAIN ComplaintTable
      BY <1>4 DEF ComplaintEscalate, ComplaintTable
    <2>2. Typed(Complaints, set)
      BY <2>1 DEF Typed, Merged, Complaints, FixedColumns
    <2>3. ASSUME NEW r \in Complaints, NEW s \in Complaints, s = Merged(r, set, DOMAIN set),
                 Match(r, Loaded(row[i], looked \cup DOMAIN set))
          PROVE  Keeps(r, s, 0)
      BY <2>1, <2>3, CrmKeeps DEF Match, Loaded, Merged, Complaints, CrmDated, CrmFinal, Settled
    <2> QED
      BY <1>1, <2>1, <2>2, <2>3, CrmTables, PlainStep
  <1> QED
    BY <1>2, <1>3, <1>4

\* The requests on a row of kind reply_template.
LEMMA TemplateSteps ==
    ASSUME RInv, NEW d \in Desks, NEW i \in Ids,
           TemplateRender(d, i)
    PROVE  SoundStep
  <1>1. row[i].kind = "reply_template" /\ row[i] # NoRow /\ row[i] \in ReplyTemplates
    BY NoRowKind, CrmTables DEF TemplateRender, Opens, RInv, RowSound, InTable
  <1>2. CASE TemplateRender(d, i)
    <2>1. PICK looked, set, gain :
             /\ Counts(d, i, looked, set, gain) /\ gain = 1 /\ gain \in Int
             /\ set = [count |-> row[i].count + 1] /\ looked = {}
      BY <1>1, <1>2 DEF TemplateRender, ReplyTemplates
    <2>2. Typed(ReplyTemplates, set)
      BY <1>1, <2>1 DEF Typed, Merged, ReplyTemplates, FixedColumns
    <2>3. ASSUME NEW r \in ReplyTemplates, NEW s \in ReplyTemplates, s = Merged(r, set, DOMAIN set),
                 Match(r, Loaded(row[i], looked \cup DOMAIN set))
          PROVE  Keeps(r, s, gain)
      BY <1>1, <2>1, <2>3, CrmKeeps DEF Match, Loaded, Merged, ReplyTemplates, CrmDated,
                                        CrmFinal, Settled
    <2>4. Counts(d, i, looked, set, gain) /\ gain \in Int
      BY <2>1
    <2> QED
      BY <1>1, <2>2, <2>3, <2>4, CrmTables, PlainCountsStep, ZenonT(60)
  <1> QED
    BY <1>2

\* The requests on a row of kind customer.
LEMMA CustomerSteps ==
    ASSUME RInv, NEW d \in Desks, NEW i \in Ids,
           CustomerDelete(d, i) \/ UpdateStats(d, i)
    PROVE  SoundStep
  <1>1. row[i].kind = "customer" /\ row[i] # NoRow /\ row[i] \in Customers
    BY NoRowKind, CrmTables DEF CustomerDelete, UpdateStats, Opens, OpensCustomer, RInv,
                                RowSound, InTable
  <1>2. CASE CustomerDelete(d, i)
    <2>1. PICK looked, set :
             /\ Sets(d, i, looked, set)
             /\ set = [deleted |-> TRUE] /\ looked = {}
      BY <1>2 DEF CustomerDelete
    <2>2. Typed(Customers, set)
      BY <2>1 DEF Typed, Merged, Customers, FixedColumns
    <2>3. ASSUME NEW r \in Customers, NEW s \in Customers, s = Merged(r, set, DOMAIN set),
                 Match(r, Loaded(row[i], looked \cup DOMAIN set))
          PROVE  Keeps(r, s, 0)
      BY <2>1, <2>3, CrmKeeps DEF Match, Loaded, Merged, Customers, CrmDated, CrmFinal, Settled
    <2> QED
      BY <1>1, <2>1, <2>2, <2>3, CrmTables, PlainStep
  <1>3. CASE UpdateStats(d, i)
    <2>1. PICK a, looked, set, gain :
             /\ Counts(d, i, looked, set, gain) /\ gain = 1 /\ gain \in Int
             /\ a \in {0, 1}
             /\ set = [count |-> row[i].count + 1, amount |-> row[i].amount + a,
                        average |-> <<row[i].amount + a, row[i].count + 1>>] /\ looked = {"deleted"}
      BY <1>1, <1>3 DEF UpdateStats, Customers, WithOrder
    <2>2. Typed(Customers, set)
      BY <1>1, <2>1 DEF Typed, Merged, Customers, FixedColumns
    <2>3. ASSUME NEW r \in Customers, NEW s \in Customers, s = Merged(r, set, DOMAIN set),
                 Match(r, Loaded(row[i], looked \cup DOMAIN set))
          PROVE  Keeps(r, s, gain)
      BY <1>1, <2>1, <2>3, CrmKeeps DEF Match, Loaded, Merged, Customers, CrmDated, CrmFinal,
                                        Settled
    <2>4. Counts(d, i, looked, set, gain) /\ gain \in Int
      BY <2>1
    <2> QED
      BY <1>1, <2>2, <2>3, <2>4, CrmTables, PlainCountsStep, ZenonT(60)
  <1> QED
    BY <1>2, <1>3

\* The segments of several customers at once.
LEMMA ClassifyStep ==
    ASSUME RInv, NEW d \in Desks, NEW S \in SUBSET Ids, ClassifySegments(d, S)
    PROVE  SoundStep
  <1>1. PICK read, set :
           /\ read = [i \in S |-> {"count", "amount", "segment"}]
           /\ set = [i \in S |-> [segment |-> CalculateSegment(row[i])]]
           /\ Takes(d, read, set, NoRow, None)
    BY DEF ClassifySegments
  <1>2. ASSUME NEW i \in S PROVE row[i] # NoRow /\ row[i].kind = "customer"
    BY <1>2, NoRowKind DEF ClassifySegments, RowsOf
  <1>3. ASSUME NEW i \in S PROVE May(i, read[i], set[i], 0)
    <2>1. PICK looked, t, s0 :
             /\ looked = {"count", "amount", "segment"} /\ t = CalculateSegment(row[i])
             /\ s0 = [segment |-> t]
      OBVIOUS
    <2>2. t \in {"normal", "new", "regular"}
      BY <1>1, <1>3, <2>1 DEF CalculateSegment
    <2>3. Typed(Customers, s0)
      BY <2>1, <2>2 DEF Typed, Merged, Customers, FixedColumns
    <2>4. ASSUME NEW r \in Customers, NEW s \in Customers, s = Merged(r, s0, DOMAIN s0)
          PROVE  Keeps(r, s, 0)
      BY <2>1, <2>4, CrmKeeps DEF Merged, Customers, CrmDated, CrmFinal, Settled
    <2>5. row[i].kind = "customer"
      BY <1>2, <1>3
    <2>6. May(i, looked, s0, 0)
      BY <2>1, <2>3, <2>4, <2>5, CrmTables, PlainMay
    <2> QED
      BY <1>1, <1>3, <2>1, <2>6
  <1>4. DOMAIN None = {}
    BY DEF None
  <1>5. DOMAIN read = S /\ DOMAIN set = S
    BY <1>1
  <1> QED
    BY <1>1, <1>2, <1>3, <1>4, <1>5, SeveralStep
-----------------------------------------------------------------------------
(* SOM *)

\* Its tables, and what being final and being dated come to for their rows.
LEMMA SomTables ==
    /\ TableOfKind["store"] = Stores /\ TableOfKind["listing"] = Listings
    /\ TableOfKind["batch_job"] = BatchJobs /\ TableOfKind["optimization"] = Optimizations
    /\ TableOfKind["alert_rule"] = AlertRules /\ TableOfKind["alert"] = Alerts
  BY DEF TableOfKind

LEMMA SomRows ==
    ASSUME NEW r,
           r.kind \in {"store", "listing", "batch_job", "optimization", "alert_rule", "alert"}
    PROVE  /\ Final(r) <=> SomFinal(r)
           /\ Good(r) <=> Settled(r) /\ Offered(r)
           /\ r.kind \in Kinds
  BY DEF Final, FbaFinal, CrmFinal, PdmFinal, AdsFinal, TransfersFinal, PaperworkFinal,
         IntegrationFinal, Good, Dated, FbaDated, CrmDated, PdmDated, TransfersDated,
         PaperworkDated, IntegrationDated, Kinds, TableOfKind

LEMMA SomKeeps ==
    ASSUME NEW r, NEW s, NEW gain, s.kind = r.kind,
           r.kind \in {"store", "listing", "batch_job", "optimization", "alert_rule", "alert"},
           SomFinal(r) => s.status = r.status,
           Settled(r) /\ Offered(r) => Settled(s) /\ Offered(s),
           "count" \in DOMAIN r => s.count = r.count + gain
    PROVE  Keeps(r, s, gain)
  BY SomRows DEF Keeps

\* The requests that insert a row and read none.
LEMMA SomInserts ==
    ASSUME RInv,
           StoreCreate \/ ListingCreate \/ JobCreate \/ AlertRuleCreate
    PROVE  SoundStep
  <1>1. CASE StoreCreate
    <2>1. PICK r : /\ Inserts(r)
                   /\ r = [kind |-> "store", auth_status |-> "unauthorized", token |-> FALSE,
                           deleted |-> FALSE]
      BY <1>1 DEF StoreCreate, StoreAuthTable
    <2>2. r \in Stores /\ Settled(r) /\ Offered(r)
      BY <2>1 DEF Stores, Settled, Offered, StoreAuthTable
    <2>3. InTable(r) /\ Good(r) /\ Lasting(r)
      BY <2>1, <2>2, SomTables, SomRows DEF InTable, Lasting
    <2> QED
      BY <2>1, <2>3, InsertStep
  <1>2. CASE ListingCreate
    <2>1. PICK price, titled, stocked, r :
             /\ Inserts(r)
             /\ r = [kind |-> "listing", status |-> "draft", listing_status |-> "not_listed",
                     price |-> price, titled |-> titled, stocked |-> stocked, deleted |-> FALSE]
             /\ price \in {"none", "set"} /\ {titled, stocked} \subseteq BOOLEAN
      BY <1>2 DEF ListingCreate, ListingTable, PlatformTable, ListingRow
    <2>2. r \in Listings /\ Settled(r) /\ Offered(r)
      BY <2>1 DEF Listings, Settled, Offered, ListingTable, PlatformTable, ListingRow
    <2>3. InTable(r) /\ Good(r) /\ Lasting(r)
      BY <2>1, <2>2, SomTables, SomRows DEF InTable, Lasting, ListingRow
    <2> QED
      BY <2>1, <2>3, InsertStep DEF ListingRow
  <1>3. CASE JobCreate
    <2>1. PICK publish, on, r :
             /\ Inserts(r)
             /\ r = [kind |-> "batch_job", status |-> "pending", publish |-> publish, on |-> on]
             /\ publish \in BOOLEAN /\ on \subseteq Ids \cup {0}
      BY <1>3 DEF JobCreate, RowsOf
    <2>2. r \in BatchJobs /\ Settled(r) /\ Offered(r)
      BY <2>1 DEF BatchJobs, Settled, Offered, RowsOf
    <2>3. InTable(r) /\ Good(r) /\ Lasting(r)
      BY <2>1, <2>2, SomTables, SomRows DEF InTable, Lasting
    <2> QED
      BY <2>1, <2>3, InsertStep
  <1>4. CASE AlertRuleCreate
    <2>1. PICK r :
             /\ Inserts(r)
             /\ r = [kind |-> "alert_rule", status |-> "active"]
      BY <1>4 DEF AlertRuleCreate
    <2>2. r \in AlertRules /\ Settled(r) /\ Offered(r)
      BY <2>1 DEF AlertRules, Settled, Offered
    <2>3. InTable(r) /\ Good(r) /\ Lasting(r)
      BY <2>1, <2>2, SomTables, SomRows DEF InTable, Lasting
    <2> QED
      BY <2>1, <2>3, InsertStep
  <1> QED
    BY <1>1, <1>2, <1>3, <1>4

\* The requests on a row of kind store.
LEMMA StoreSteps ==
    ASSUME RInv, NEW d \in Desks, NEW i \in Ids,
           StoreDelete(d, i) \/ UpdateAuthStatus(d, i)
    PROVE  SoundStep
  <1>1. row[i].kind = "store" /\ row[i] # NoRow /\ row[i] \in Stores
    BY NoRowKind, SomTables DEF StoreDelete, UpdateAuthStatus, Opens, OpensLive, RInv, RowSound,
                                InTable
  <1>2. CASE StoreDelete(d, i)
    <2>1. PICK looked, set :
             /\ Sets(d, i, looked, set)
             /\ row[i].auth_status # "authorized"
             /\ set = [deleted |-> TRUE] /\ looked = {"auth_status"}
      BY <1>2 DEF StoreDelete
    <2>2. Typed(Stores, set)
      BY <2>1 DEF Typed, Merged, Stores, FixedColumns
    <2>3. ASSUME NEW r \in Stores, NEW s \in Stores, s = Merged(r, set, DOMAIN set),
                 Match(r, Loaded(row[i], looked \cup DOMAIN set))
          PROVE  Keeps(r, s, 0)
      BY <2>1, <2>3, SomKeeps DEF Match, Loaded, Merged, Stores, SomFinal, Settled, Offered
    <2> QED
      BY <1>1, <2>1, <2>2, <2>3, SomTables, PlainStep
  <1>3. CASE UpdateAuthStatus(d, i)
    <2>1. PICK t, token, looked, set :
             /\ t \in StoreAuthTable[row[i].auth_status] /\ ~row[i].deleted
             /\ Sets(d, i, looked, set) /\ looked = {"auth_status", "deleted"}
             /\ token \in BOOLEAN
             /\ set = [auth_status |-> t, token |-> token] \/ set = [auth_status |-> t]
      BY <1>3 DEF UpdateAuthStatus, OpensLive
    <2>2. /\ DOMAIN set \subseteq {"auth_status", "token"}
          /\ set.auth_status = t /\ t \in DOMAIN StoreAuthTable
          /\ "token" \in DOMAIN set => set.token \in BOOLEAN
      <3>1. t \in DOMAIN StoreAuthTable
        BY <1>1, <2>1 DEF Stores, StoreAuthTable
      <3> QED
        BY <2>1, <3>1
    <2>3. Typed(Stores, set)
      BY <2>2 DEF Typed, Merged, Stores, FixedColumns
    <2>4. ASSUME NEW r \in Stores, NEW s \in Stores, s = Merged(r, set, DOMAIN set),
                 Match(r, Loaded(row[i], looked \cup DOMAIN set))
          PROVE  Keeps(r, s, 0)
      <3>1. ~s.deleted /\ r.kind = "store" /\ s.kind = "store" /\ "count" \notin DOMAIN r
        BY <2>1, <2>2, <2>4 DEF Match, Loaded, Merged, Stores
      <3> QED
        BY <3>1, SomKeeps DEF SomFinal, Settled, Offered
    <2> QED
      BY <1>1, <2>1, <2>3, <2>4, SomTables, PlainStep
  <1> QED
    BY <1>2, <1>3

\* The requests on a row of kind listing.
LEMMA ListingSteps ==
    ASSUME RInv, NEW d \in Desks, NEW i \in Ids,
           UpdatePrice(d, i) \/ ApplyPriceRule(d, i) \/ ExecutePriceChange(d, i) \/
           ListingUpdateStatus(d, i) \/ UpdateListingStatus(d, i) \/ ListingUpdate(d, i) \/
           ListingDelete(d, i) \/ ListingDuplicate(d, i) \/ Analyze(d, i)
    PROVE  SoundStep
  <1>1. row[i].kind = "listing" /\ row[i] # NoRow /\ row[i] \in Listings
    BY NoRowKind, SomTables DEF UpdatePrice, ApplyPriceRule, ExecutePriceChange,
                                ListingUpdateStatus, UpdateListingStatus, ListingUpdate,
                                ListingDelete, ListingDuplicate, Analyze, Opens, OpensLive,
                                RInv, RowSound, InTable
  <1>2. CASE UpdatePrice(d, i)
    <2>1. PICK looked, set :
             /\ Sets(d, i, looked, set)
             /\ set = [price |-> "set"] /\ looked = {"deleted"}
      BY <1>2 DEF UpdatePrice
    <2>2. Typed(Listings, set)
      BY <2>1 DEF Typed, Merged, Listings, FixedColumns
    <2>3. ASSUME NEW r \in Listings, NEW s \in Listings, s = Merged(r, set, DOMAIN set),
                 Match(r, Loaded(row[i], looked \cup DOMAIN set))
          PROVE  Keeps(r, s, 0)
      BY <2>1, <2>3, SomKeeps DEF Match, Loaded, Merged, Listings, SomFinal, Settled, Offered
    <2> QED
      BY <1>1, <2>1, <2>2, <2>3, SomTables, PlainStep
  <1>3. CASE ApplyPriceRule(d, i)
    <2>1. PICK price, looked, set :
             /\ Sets(d, i, looked, set)
             /\ price \in {"set", "cut"} /\ set = [price |-> price] /\ looked = {"deleted"}
      BY <1>3 DEF ApplyPriceRule
    <2>2. Typed(Listings, set)
      BY <2>1 DEF Typed, Merged, Listings, FixedColumns
    <2>3. ASSUME NEW r \in Listings, NEW s \in Listings, s = Merged(r, set, DOMAIN set),
                 Match(r, Loaded(row[i], looked \cup DOMAIN set))
          PROVE  Keeps(r, s, 0)
      BY <2>1, <2>3, SomKeeps DEF Match, Loaded, Merged, Listings, SomFinal, Settled, Offered
    <2> QED
      BY <1>1, <2>1, <2>2, <2>3, SomTables, PlainStep
  <1>4. CASE ExecutePriceChange(d, i)
    <2>1. PICK looked, set :
             /\ Sets(d, i, looked, set)
             /\ set = [price |-> "set"] /\ looked = {}
      BY <1>4 DEF ExecutePriceChange
    <2>2. Typed(Listings, set)
      BY <2>1 DEF Typed, Merged, Listings, FixedColumns
    <2>3. ASSUME NEW r \in Listings, NEW s \in Listings, s = Merged(r, set, DOMAIN set),
                 Match(r, Loaded(row[i], looked \cup DOMAIN set))
          PROVE  Keeps(r, s, 0)
      BY <2>1, <2>3, SomKeeps DEF Match, Loaded, Merged, Listings, SomFinal, Settled, Offered
    <2> QED
      BY <1>1, <2>1, <2>2, <2>3, SomTables, PlainStep
  <1>5. CASE ListingUpdateStatus(d, i)
    <2>1. PICK t, looked, set :
             /\ t \in ListingTable[row[i].status] /\ ~row[i].deleted
             /\ t = "publishing" => row[i].price = "set" /\ row[i].titled
             /\ Sets(d, i, looked, set)
             /\ looked = {"status", "price", "titled", "stocked", "deleted"}
             /\ set = ListingMoves(row[i], t)
      BY <1>5 DEF ListingUpdateStatus, OpensLive, MayMove
    <2>2. /\ DOMAIN set \subseteq {"status", "listing_status"}
          /\ set.status \in {t, "out_of_stock"} /\ t \in DOMAIN ListingTable
          /\ set.status = "out_of_stock" => t \in {"active", "out_of_stock"}
          /\ "listing_status" \in DOMAIN set => set.listing_status \in {"listed", "delisted"}
      BY <1>1, <2>1 DEF Listings, ListingTable, ListingMoves
    <2>3. Typed(Listings, set)
      <3>1. SUFFICES ASSUME NEW r \in Listings, NEW C \in SUBSET DOMAIN set,
                            NEW m, m = Merged(r, set, C)
                     PROVE  DOMAIN set \subseteq DOMAIN r \ FixedColumns /\ m \in Listings
        BY DEF Typed
      <3>2. set.status \in DOMAIN ListingTable
        BY <2>2 DEF ListingTable
      <3>3. "listing_status" \in DOMAIN set => set.listing_status \in DOMAIN PlatformTable
        BY <2>2 DEF PlatformTable
      <3>4. /\ m = [c \in DOMAIN r |-> m[c]]
            /\ m.status \in DOMAIN ListingTable /\ m.listing_status \in DOMAIN PlatformTable
            /\ m.kind = r.kind /\ m.price = r.price /\ m.titled = r.titled
            /\ m.stocked = r.stocked /\ m.deleted = r.deleted
        BY <2>2, <3>1, <3>2, <3>3 DEF Merged, Listings
      <3>5. m \in Listings
        BY <3>4 DEF Listings
      <3> QED
        BY <2>2, <3>5 DEF Listings, FixedColumns
    <2>4. ASSUME NEW r \in Listings, NEW s \in Listings, s = Merged(r, set, DOMAIN set),
                 Match(r, Loaded(row[i], looked \cup DOMAIN set))
          PROVE  Keeps(r, s, 0)
      <3>1. /\ t \in ListingTable[r.status] /\ r.status \in DOMAIN ListingTable
            /\ t = "publishing" => r.price = "set" /\ r.titled
            /\ ~r.deleted
        BY <2>1, <2>4 DEF Match, Loaded, Listings
      <3>2. /\ s.status = set.status /\ s.kind = r.kind /\ r.kind = "listing"
            /\ "count" \notin DOMAIN r /\ s.deleted = r.deleted
            /\ s.price = r.price /\ s.titled = r.titled
        BY <2>1, <2>2, <2>4 DEF Merged, Listings, ListingMoves
      <3>3. ~SomFinal(r)
        BY <3>1, <3>2 DEF SomFinal, ListingTable
      <3>4. t \in {"active", "inactive", "out_of_stock"}
            => r.status \in {"publishing", "active", "inactive", "out_of_stock"}
        BY <3>1 DEF ListingTable
      <3>5. Settled(r) /\ Offered(r) => Settled(s) /\ Offered(s)
        BY <2>2, <3>1, <3>2, <3>4 DEF Settled, Offered
      <3> QED
        BY <3>2, <3>3, <3>5, SomKeeps
    <2> QED
      BY <1>1, <2>1, <2>3, <2>4, SomTables, PlainStep
  <1>6. CASE UpdateListingStatus(d, i)
    <2>1. PICK t, looked, set :
             /\ t \in PlatformTable[row[i].listing_status] /\ row[i].listing_status \in DOMAIN PlatformTable
             /\ Sets(d, i, looked, set) /\ looked = {"listing_status"}
             /\ set = [listing_status |-> t]
      BY <1>6 DEF UpdateListingStatus, Follows, Only
    <2>2. /\ DOMAIN set \subseteq {"listing_status"}
          /\ set.listing_status = t /\ t \in DOMAIN PlatformTable
      BY <1>1, <2>1 DEF Listings, PlatformTable
    <2>3. Typed(Listings, set)
      BY <2>2 DEF Typed, Merged, Listings, FixedColumns
    <2>4. ASSUME NEW r \in Listings, NEW s \in Listings, s = Merged(r, set, DOMAIN set),
                 Match(r, Loaded(row[i], looked \cup DOMAIN set))
          PROVE  Keeps(r, s, 0)
      <3>1. t \in PlatformTable[r.listing_status] /\ r.listing_status \in DOMAIN PlatformTable
        BY <2>1, <2>4 DEF Match, Loaded, Listings
      <3>2. /\ s.listing_status = t /\ s.kind = r.kind /\ "count" \notin DOMAIN r /\ r.kind = "listing"
            /\ s.status = r.status /\ s.deleted = r.deleted
            /\ s.price = r.price /\ s.titled = r.titled
        BY <2>1, <2>4 DEF Merged, Listings, Match, Loaded
      <3>3. SomFinal(r) => s.status = r.status
        BY <2>1, <2>4 DEF Merged, Listings
      <3>4. Settled(r) /\ Offered(r) => Settled(s) /\ Offered(s)
        BY <3>2 DEF Settled, Offered
      <3> QED
        BY <3>2, <3>3, <3>4, SomKeeps
    <2> QED
      BY <1>1, <2>1, <2>3, <2>4, SomTables, PlainStep
  <1>7. CASE ListingUpdate(d, i)
    <2>1. PICK titled, stocked, looked, set :
             /\ Sets(d, i, looked, set)
             /\ titled \in BOOLEAN /\ stocked \in BOOLEAN
             /\ row[i].status \in {"draft", "rejected", "pending_review"}
             /\ set = [titled |-> titled, stocked |-> stocked] /\ looked = {"status", "deleted"}
      BY <1>7 DEF ListingUpdate
    <2>2. Typed(Listings, set)
      BY <2>1 DEF Typed, Merged, Listings, FixedColumns
    <2>3. ASSUME NEW r \in Listings, NEW s \in Listings, s = Merged(r, set, DOMAIN set),
                 Match(r, Loaded(row[i], looked \cup DOMAIN set))
          PROVE  Keeps(r, s, 0)
      BY <2>1, <2>3, SomKeeps DEF Match, Loaded, Merged, Listings, SomFinal, Settled, Offered
    <2> QED
      BY <1>1, <2>1, <2>2, <2>3, SomTables, PlainStep
  <1>8. CASE ListingDelete(d, i)
    <2>1. PICK looked, set :
             /\ Sets(d, i, looked, set)
             /\ row[i].status \in {"draft", "cancelled", "discontinued"}
             /\ set = [deleted |-> TRUE] /\ looked = {"status"}
      BY <1>8 DEF ListingDelete
    <2>2. Typed(Listings, set)
      BY <2>1 DEF Typed, Merged, Listings, FixedColumns
    <2>3. ASSUME NEW r \in Listings, NEW s \in Listings, s = Merged(r, set, DOMAIN set),
                 Match(r, Loaded(row[i], looked \cup DOMAIN set))
          PROVE  Keeps(r, s, 0)
      BY <2>1, <2>3, SomKeeps DEF Match, Loaded, Merged, Listings, SomFinal, Settled, Offered
    <2> QED
      BY <1>1, <2>1, <2>2, <2>3, SomTables, PlainStep
  <1>9. CASE ListingDuplicate(d, i)
    <2>1. PICK price, titled, looked, new :
             /\ Adds(d, i, looked, new)
             /\ price \in {"none", "set"} /\ titled \in BOOLEAN
             /\ new = [kind |-> "listing", status |-> "draft", listing_status |-> "not_listed",
                       price |-> price, titled |-> titled, stocked |-> row[i].stocked,
                       deleted |-> FALSE]
             /\ looked = {"price", "stocked", "deleted"}
      BY <1>9 DEF ListingDuplicate, ListingRow
    <2>2. new \in Listings /\ Settled(new) /\ Offered(new)
      BY <1>1, <2>1 DEF Listings, Settled, Offered, ListingTable, PlatformTable
    <2>3. InTable(new) /\ Good(new) /\ Lasting(new)
      BY <2>1, <2>2, SomTables, SomRows DEF InTable, Lasting
    <2>4. PICK l : l = Loaded(row[i], looked)
      OBVIOUS
    <2> QED
      BY <1>1, <2>1, <2>3, <2>4, AddsStep
  <1>10. CASE Analyze(d, i)
    <2>1. PICK looked, new :
             /\ Adds(d, i, looked, new)
             /\ new = [kind |-> "optimization", status |-> "suggested", listing |-> i]
             /\ looked = {"status", "deleted"}
      BY <1>10 DEF Analyze
    <2>2. new \in Optimizations /\ Settled(new) /\ Offered(new)
      BY <1>1, <2>1 DEF Optimizations, Settled, Offered, OptimizationTable
    <2>3. InTable(new) /\ Good(new) /\ Lasting(new)
      BY <2>1, <2>2, SomTables, SomRows DEF InTable, Lasting
    <2>4. PICK l : l = Loaded(row[i], looked)
      OBVIOUS
    <2> QED
      BY <1>1, <2>1, <2>3, <2>4, AddsStep
  <1> QED
    BY <1>2, <1>3, <1>4, <1>5, <1>6, <1>7, <1>8, <1>9, <1>10

\* The requests on a row of kind alert_rule.
LEMMA AlertRuleSteps ==
    ASSUME RInv, NEW d \in Desks, NEW i \in Ids,
           AlertRuleToggle(d, i) \/ AlertRuleDelete(d, i) \/ TriggerAlert(d, i)
    PROVE  SoundStep
  <1>1. row[i].kind = "alert_rule" /\ row[i] # NoRow /\ row[i] \in AlertRules
    BY NoRowKind, SomTables DEF AlertRuleToggle, AlertRuleDelete, TriggerAlert, Opens, RInv,
                                RowSound, InTable
  <1>2. CASE AlertRuleToggle(d, i)
    <2>1. PICK t, looked, set :
             /\ Sets(d, i, looked, set)
             /\ t \in {"active", "disabled"}
             /\ set = [status |-> t] /\ looked = {}
      BY <1>2 DEF AlertRuleToggle
    <2>2. Typed(AlertRules, set)
      BY <2>1 DEF Typed, Merged, AlertRules, FixedColumns
    <2>3. ASSUME NEW r \in AlertRules, NEW s \in AlertRules, s = Merged(r, set, DOMAIN set),
                 Match(r, Loaded(row[i], looked \cup DOMAIN set))
          PROVE  Keeps(r, s, 0)
      BY <2>1, <2>3, SomKeeps DEF Match, Loaded, Merged, AlertRules, SomFinal, Settled, Offered
    <2> QED
      BY <1>1, <2>1, <2>2, <2>3, SomTables, PlainStep
  <1>3. CASE AlertRuleDelete(d, i)
    <2>1. PICK looked, set :
             /\ Sets(d, i, looked, set)
             /\ set = [status |-> "deleted"] /\ looked = {}
      BY <1>3 DEF AlertRuleDelete
    <2>2. Typed(AlertRules, set)
      BY <2>1 DEF Typed, Merged, AlertRules, FixedColumns
    <2>3. ASSUME NEW r \in AlertRules, NEW s \in AlertRules, s = Merged(r, set, DOMAIN set),
                 Match(r, Loaded(row[i], looked \cup DOMAIN set))
          PROVE  Keeps(r, s, 0)
      BY <2>1, <2>3, SomKeeps DEF Match, Loaded, Merged, AlertRules, SomFinal, Settled, Offered
    <2> QED
      BY <1>1, <2>1, <2>2, <2>3, SomTables, PlainStep
  <1>4. CASE TriggerAlert(d, i)
    <2>1. PICK looked, new :
             /\ Adds(d, i, looked, new)
             /\ new = [kind |-> "alert", status |-> "firing", rule |-> i]
             /\ looked = {"status"}
      BY <1>4 DEF TriggerAlert
    <2>2. new \in Alerts /\ Settled(new) /\ Offered(new)
      BY <1>1, <2>1 DEF Alerts, Settled, Offered, AlertTable
    <2>3. InTable(new) /\ Good(new) /\ Lasting(new)
      BY <2>1, <2>2, SomTables, SomRows DEF InTable, Lasting
    <2>4. PICK l : l = Loaded(row[i], looked)
      OBVIOUS
    <2> QED
      BY <1>1, <2>1, <2>3, <2>4, AddsStep
  <1> QED
    BY <1>2, <1>3, <1>4

\* The requests on a row of kind alert.
LEMMA AlertSteps ==
    ASSUME RInv, NEW d \in Desks, NEW i \in Ids,
           AlertAcknowledge(d, i) \/ AlertResolve(d, i)
    PROVE  SoundStep
  <1>1. row[i].kind = "alert" /\ row[i] # NoRow /\ row[i] \in Alerts
    BY NoRowKind, SomTables DEF AlertAcknowledge, AlertResolve, Opens, RInv, RowSound, InTable
  <1>2. CASE AlertAcknowledge(d, i)
    <2>1. PICK t, looked, set :
             /\ t \in AlertTable[row[i].status] /\ row[i].status \in DOMAIN AlertTable
             /\ Sets(d, i, looked, set) /\ looked = {"status"}
             /\ set = [status |-> t]
      BY <1>2 DEF AlertAcknowledge, Follows, Only
    <2>2. /\ DOMAIN set \subseteq {"status"}
          /\ set.status = t /\ t \in DOMAIN AlertTable
      BY <1>1, <2>1 DEF Alerts, AlertTable
    <2>3. Typed(Alerts, set)
      BY <2>2 DEF Typed, Merged, Alerts, FixedColumns
    <2>4. ASSUME NEW r \in Alerts, NEW s \in Alerts, s = Merged(r, set, DOMAIN set),
                 Match(r, Loaded(row[i], looked \cup DOMAIN set))
          PROVE  Keeps(r, s, 0)
      <3>1. t \in AlertTable[r.status] /\ r.status \in DOMAIN AlertTable
        BY <2>1, <2>4 DEF Match, Loaded, Alerts
      <3>2. /\ s.status = t /\ s.kind = r.kind /\ "count" \notin DOMAIN r /\ r.kind = "alert"
        BY <2>1, <2>4 DEF Merged, Alerts
      <3>3. ~SomFinal(r)
        BY <3>1, <3>2 DEF SomFinal, AlertTable
      <3>4. Settled(r) /\ Offered(r) => Settled(s) /\ Offered(s)
        BY <3>2 DEF Settled, Offered
      <3> QED
        BY <3>2, <3>3, <3>4, SomKeeps
    <2> QED
      BY <1>1, <2>1, <2>3, <2>4, SomTables, PlainStep
  <1>3. CASE AlertResolve(d, i)
    <2>1. PICK t, looked, set :
             /\ t \in AlertTable[row[i].status] /\ row[i].status \in DOMAIN AlertTable
             /\ Sets(d, i, looked, set) /\ looked = {"status"}
             /\ set = [status |-> t]
      BY <1>3 DEF AlertResolve, Follows, Only
    <2>2. /\ DOMAIN set \subseteq {"status"}
          /\ set.status = t /\ t \in DOMAIN AlertTable
      BY <1>1, <2>1 DEF Alerts, AlertTable
    <2>3. Typed(Alerts, set)
      BY <2>2 DEF Typed, Merged, Alerts, FixedColumns
    <2>4. ASSUME NEW r \in Alerts, NEW s \in Alerts, s = Merged(r, set, DOMAIN set),
                 Match(r, Loaded(row[i], looked \cup DOMAIN set))
          PROVE  Keeps(r, s, 0)
      <3>1. t \in AlertTable[r.status] /\ r.status \in DOMAIN AlertTable
        BY <2>1, <2>4 DEF Match, Loaded, Alerts
      <3>2. /\ s.status = t /\ s.kind = r.kind /\ "count" \notin DOMAIN r /\ r.kind = "alert"
        BY <2>1, <2>4 DEF Merged, Alerts
      <3>3. ~SomFinal(r)
        BY <3>1, <3>2 DEF SomFinal, AlertTable
      <3>4. Settled(r) /\ Offered(r) => Settled(s) /\ Offered(s)
        BY <3>2 DEF Settled, Offered
      <3> QED
        BY <3>2, <3>3, <3>4, SomKeeps
    <2> QED
      BY <1>1, <2>1, <2>3, <2>4, SomTables, PlainStep
  <1> QED
    BY <1>2, <1>3

\* The requests on a row of kind batch_job.
LEMMA BatchJobSteps ==
    ASSUME RInv, NEW d \in Desks, NEW i \in Ids,
           JobCancel(d, i) \/ JobExecute(d, i)
    PROVE  SoundStep
  <1>1. row[i].kind = "batch_job" /\ row[i] # NoRow /\ row[i] \in BatchJobs
    BY NoRowKind, SomTables DEF JobCancel, JobExecute, Opens, RInv, RowSound, InTable
  <1>2. CASE JobCancel(d, i)
    <2>1. PICK looked, set :
             /\ Sets(d, i, looked, set)
             /\ row[i].status = "pending"
             /\ set = [status |-> "cancelled"] /\ looked = {}
      BY <1>1, <1>2 DEF JobCancel, BatchJobs
    <2>2. Typed(BatchJobs, set)
      BY <2>1 DEF Typed, Merged, BatchJobs, FixedColumns
    <2>3. ASSUME NEW r \in BatchJobs, NEW s \in BatchJobs, s = Merged(r, set, DOMAIN set),
                 Match(r, Loaded(row[i], looked \cup DOMAIN set))
          PROVE  Keeps(r, s, 0)
      BY <2>1, <2>3, SomKeeps DEF Match, Loaded, Merged, BatchJobs, SomFinal, Settled, Offered
    <2> QED
      BY <1>1, <2>1, <2>2, <2>3, SomTables, PlainStep
  <1>3. CASE JobExecute(d, i)
    <2>1. PICK moved, status, read, set :
             /\ moved \subseteq Ids /\ row[i].status = "pending"
             /\ \A l \in moved : /\ row[l].kind = "listing" /\ ~row[l].deleted
                                 /\ MayMove(row[l], "publishing")
             /\ status \in {"completed", "partial", "failed"}
             /\ read = Both(Only(i, {"status"}), [l \in moved |-> DOMAIN row[l]])
             /\ set = Both(Only(i, [status |-> status]), [l \in moved |-> [status |-> "publishing"]])
             /\ Takes(d, read, set, NoRow, None)
      <3>1. PICK done, moved, status :
               /\ done = Handles(row[i]) /\ moved = IF row[i].publish THEN done ELSE {}
               /\ status = IF done = row[i].on THEN "completed"
                           ELSE IF done # {} THEN "partial" ELSE "failed"
               /\ Takes(d, Both(Only(i, {"status"}), [l \in moved |-> DOMAIN row[l]]),
                        Both(Only(i, [status |-> status]),
                             [l \in moved |-> [status |-> "publishing"]]), NoRow, None)
        BY <1>3 DEF JobExecute
      <3>2. \A l \in moved : l \in Ids /\ row[l].kind = "listing" /\ ~row[l].deleted
                             /\ MayMove(row[l], "publishing")
        BY <3>1 DEF Handles, RowsOf
      <3>3. status \in {"completed", "partial", "failed"}
        BY <3>1
      <3> QED
        BY <1>3, <3>1, <3>2, <3>3 DEF JobExecute
    <2>2. /\ DOMAIN read = {i} \cup moved /\ DOMAIN set = {i} \cup moved
          /\ read[i] = {"status"} /\ set[i] = [status |-> status]
          /\ \A l \in moved : /\ l # i /\ read[l] = DOMAIN row[l]
                              /\ set[l] = [status |-> "publishing"]
      BY <1>1, <2>1 DEF Both, Only
    <2>3. May(i, read[i], set[i], 0)
      <3>1. PICK looked, s0 : looked = read[i] /\ s0 = set[i]
        OBVIOUS
      <3>2. Typed(BatchJobs, s0)
        BY <2>1, <2>2, <3>1 DEF Typed, Merged, BatchJobs, FixedColumns
      <3>3. ASSUME NEW r \in BatchJobs, NEW s \in BatchJobs, s = Merged(r, s0, DOMAIN s0),
                   Match(r, Loaded(row[i], looked))
            PROVE  Keeps(r, s, 0)
        BY <2>1, <2>2, <3>1, <3>3, SomKeeps DEF Match, Loaded, Merged, BatchJobs, SomFinal,
                                                Settled, Offered
      <3> QED
        BY <1>1, <2>2, <3>1, <3>2, <3>3, SomTables, PlainMay
    <2>4. ASSUME NEW l \in moved PROVE row[l] # NoRow /\ May(l, read[l], set[l], 0)
      <3>1. row[l].kind = "listing" /\ row[l] # NoRow /\ row[l] \in Listings
        BY <2>1, NoRowKind, SomTables DEF RInv, RowSound, InTable
      <3>2. PICK looked, s0 : looked = DOMAIN row[l] /\ s0 = [status |-> "publishing"]
        OBVIOUS
      <3>3. "publishing" \in DOMAIN ListingTable
        BY DEF ListingTable
      <3>4. Typed(Listings, s0)
        BY <3>2, <3>3 DEF Typed, Merged, Listings, FixedColumns
      <3>5. ASSUME NEW r \in Listings, NEW s \in Listings, s = Merged(r, s0, DOMAIN s0),
                   Match(r, Loaded(row[l], looked))
            PROVE  Keeps(r, s, 0)
        <4>1. /\ r.status = row[l].status /\ r.price = row[l].price /\ r.titled = row[l].titled
              /\ r.deleted = row[l].deleted /\ r.kind = "listing"
          BY <3>1, <3>2, <3>5 DEF Match, Loaded, Listings
        <4>2. r.status = "approved" /\ r.price = "set" /\ r.titled /\ ~r.deleted
          BY <2>1, <3>1, <4>1 DEF MayMove, ListingTable, Listings
        <4>3. /\ s.status = "publishing" /\ s.price = r.price /\ s.titled = r.titled
              /\ s.deleted = r.deleted /\ s.kind = "listing" /\ "count" \notin DOMAIN r
          BY <3>2, <3>5 DEF Merged, Listings
        <4> QED
          BY <4>1, <4>2, <4>3, SomKeeps DEF SomFinal, Settled, Offered
      <3>6. May(l, looked, s0, 0)
        BY <3>1, <3>2, <3>4, <3>5, SomTables, PlainMay DEF Listings
      <3> QED
        BY <2>2, <3>1, <3>2, <3>6
    <2>5. \A j \in DOMAIN set : row[j] # NoRow /\ May(j, read[j], set[j], 0)
      BY <1>1, <2>2, <2>3, <2>4
    <2>6. DOMAIN None = {}
      BY DEF None
    <2> QED
      BY <2>1, <2>2, <2>5, <2>6, SeveralStep
  <1> QED
    BY <1>2, <1>3

\* The requests on a row of kind optimization.
LEMMA OptimizationSteps ==
    ASSUME RInv, NEW d \in Desks, NEW i \in Ids,
           OptimizationCancel(d, i) \/ ApplySuggestions(d, i)
    PROVE  SoundStep
  <1>1. row[i].kind = "optimization" /\ row[i] # NoRow /\ row[i] \in Optimizations
    BY NoRowKind, SomTables DEF OptimizationCancel, ApplySuggestions, Opens, RInv, RowSound,
                                InTable
  <1>2. CASE OptimizationCancel(d, i)
    <2>1. PICK t, looked, set :
             /\ t \in OptimizationTable[row[i].status] /\ row[i].status \in DOMAIN OptimizationTable
             /\ Sets(d, i, looked, set) /\ looked = {"status"}
             /\ set = [status |-> t]
      BY <1>2 DEF OptimizationCancel, Follows, Only
    <2>2. /\ DOMAIN set \subseteq {"status"}
          /\ set.status = t /\ t \in DOMAIN OptimizationTable
      BY <1>1, <2>1 DEF Optimizations, OptimizationTable
    <2>3. Typed(Optimizations, set)
      BY <2>2 DEF Typed, Merged, Optimizations, FixedColumns
    <2>4. ASSUME NEW r \in Optimizations, NEW s \in Optimizations, s = Merged(r, set, DOMAIN set),
                 Match(r, Loaded(row[i], looked \cup DOMAIN set))
          PROVE  Keeps(r, s, 0)
      <3>1. t \in OptimizationTable[r.status] /\ r.status \in DOMAIN OptimizationTable
        BY <2>1, <2>4 DEF Match, Loaded, Optimizations
      <3>2. /\ s.status = t /\ s.kind = r.kind /\ "count" \notin DOMAIN r /\ r.kind = "optimization"
        BY <2>1, <2>4 DEF Merged, Optimizations
      <3>3. ~SomFinal(r)
        BY <3>1, <3>2 DEF SomFinal, OptimizationTable
      <3>4. Settled(r) /\ Offered(r) => Settled(s) /\ Offered(s)
        BY <3>2 DEF Settled, Offered
      <3> QED
        BY <3>2, <3>3, <3>4, SomKeeps
    <2> QED
      BY <1>1, <2>1, <2>3, <2>4, SomTables, PlainStep
  <1>3. CASE ApplySuggestions(d, i)
    <2>1. PICK l : /\ l = row[i].listing /\ l \in Ids /\ row[l].kind = "listing" /\ ~row[l].deleted
      BY <1>1, <1>3 DEF ApplySuggestions, RInv, RowSound, Refers
    <2>2. row[l] # NoRow /\ row[l] \in Listings /\ l # i
      BY <1>1, <2>1, NoRowKind, SomTables DEF RInv, RowSound, InTable
    <2>3. row[i].status \notin {"applied", "cancelled"}
      BY <1>1, <1>3 DEF ApplySuggestions, OptimizationTable, Optimizations
    <2>4. ASSUME NEW t \in {"applied", "partial_applied"}, NEW s0, s0 = [status |-> t]
          PROVE  /\ Typed(Optimizations, s0)
                 /\ \A r \in Optimizations, s \in Optimizations :
                       s = Merged(r, s0, DOMAIN s0) /\ Match(r, Loaded(row[i], {"status"}))
                       => Keeps(r, s, 0)
      <3>1. Typed(Optimizations, s0)
        <4>1. t \in DOMAIN OptimizationTable
          BY DEF OptimizationTable
        <4> QED
          BY <2>4, <4>1 DEF Typed, Merged, Optimizations, FixedColumns
      <3>2. ASSUME NEW r \in Optimizations, NEW s \in Optimizations, s = Merged(r, s0, DOMAIN s0),
                   Match(r, Loaded(row[i], {"status"}))
            PROVE  Keeps(r, s, 0)
        BY <2>3, <2>4, <3>2, SomKeeps DEF Match, Loaded, Merged, Optimizations, SomFinal,
                                          Settled, Offered
      <3> QED
        BY <3>1, <3>2
    <2>5. CASE Sets(d, i, {}, [status |-> "partial_applied"])
      <3>1. PICK looked, set : /\ Sets(d, i, looked, set) /\ looked = {}
                               /\ set = [status |-> "partial_applied"]
        BY <2>5
      <3>2. looked \cup DOMAIN set = {"status"}
        BY <3>1
      <3>3. /\ Typed(Optimizations, set)
            /\ \A r \in Optimizations, s \in Optimizations :
                  s = Merged(r, set, DOMAIN set) /\ Match(r, Loaded(row[i], {"status"}))
                  => Keeps(r, s, 0)
        BY <2>4, <3>1
      <3> QED
        BY <1>1, <3>1, <3>2, <3>3, SomTables, PlainStep
    <2>6. CASE Takes(d, Both(Only(i, {"status"}), Only(l, {"titled", "deleted"})),
                     Both(Only(i, [status |-> "applied"]), Only(l, [titled |-> TRUE])), NoRow, None)
      <3>1. PICK read, set :
               /\ read = Both(Only(i, {"status"}), Only(l, {"titled", "deleted"}))
               /\ set = Both(Only(i, [status |-> "applied"]), Only(l, [titled |-> TRUE]))
               /\ Takes(d, read, set, NoRow, None)
        BY <2>6
      <3>2. /\ DOMAIN read = {i, l} /\ DOMAIN set = {i, l}
            /\ read[i] = {"status"} /\ set[i] = [status |-> "applied"]
            /\ read[l] = {"titled", "deleted"} /\ set[l] = [titled |-> TRUE]
        BY <2>2, <3>1 DEF Both, Only
      <3>3. May(i, read[i], set[i], 0)
        <4>1. PICK looked, s0 : looked = {"status"} /\ s0 = [status |-> "applied"]
          OBVIOUS
        <4>2. /\ Typed(Optimizations, s0) /\ DOMAIN s0 \subseteq looked
              /\ \A r \in Optimizations, s \in Optimizations :
                    s = Merged(r, s0, DOMAIN s0) /\ Match(r, Loaded(row[i], looked))
                    => Keeps(r, s, 0)
          BY <2>4, <4>1
        <4> QED
          BY <1>1, <3>2, <4>1, <4>2, SomTables, PlainMay
      <3>4. May(l, read[l], set[l], 0)
        <4>1. PICK looked, s0 : looked = {"titled", "deleted"} /\ s0 = [titled |-> TRUE]
          OBVIOUS
        <4>2. Typed(Listings, s0)
          BY <4>1 DEF Typed, Merged, Listings, FixedColumns
        <4>3. ASSUME NEW r \in Listings, NEW s \in Listings, s = Merged(r, s0, DOMAIN s0),
                     Match(r, Loaded(row[l], looked))
              PROVE  Keeps(r, s, 0)
          BY <4>1, <4>3, SomKeeps DEF Match, Loaded, Merged, Listings, SomFinal, Settled, Offered
        <4> QED
          BY <2>1, <3>2, <4>1, <4>2, <4>3, SomTables, PlainMay
      <3>5. \A j \in DOMAIN set : row[j] # NoRow /\ May(j, read[j], set[j], 0)
        BY <1>1, <2>2, <3>2, <3>3, <3>4
      <3>6. DOMAIN None = {}
        BY DEF None
      <3> QED
        BY <2>1, <3>1, <3>2, <3>5, <3>6, SeveralStep
    <2> QED
      BY <1>3, <2>1, <2>5, <2>6 DEF ApplySuggestions
  <1> QED
    BY <1>2, <1>3

-----------------------------------------------------------------------------
(* PDM *)

\* Its tables, and what being final and being dated come to for their rows.
LEMMA PdmTables ==
    /\ TableOfKind["spu"] = Spus /\ TableOfKind["sku"] = Skus
    /\ TableOfKind["project"] = Projects /\ TableOfKind["collection"] = Collections
    /\ TableOfKind["issue"] = Issues /\ TableOfKind["upc"] = Upcs
  BY DEF TableOfKind

LEMMA PdmRows ==
    ASSUME NEW r,
           r.kind \in {"spu", "sku", "project", "collection", "issue", "upc"}
    PROVE  /\ Final(r) <=> PdmFinal(r)
           /\ Good(r) <=> PdmDated(r) /\ Settled(r)
           /\ r.kind \in Kinds
  BY DEF Final, FbaFinal, CrmFinal, SomFinal, AdsFinal, TransfersFinal, PaperworkFinal,
         IntegrationFinal, Good, Dated, FbaDated, CrmDated, TransfersDated, PaperworkDated,
         IntegrationDated, Offered, Kinds, TableOfKind

LEMMA PdmKeeps ==
    ASSUME NEW r, NEW s, NEW gain, s.kind = r.kind,
           r.kind \in {"spu", "sku", "project", "collection", "issue", "upc"},
           PdmFinal(r) => s.status = r.status,
           PdmDated(r) /\ Settled(r) => PdmDated(s) /\ Settled(s),
           "count" \in DOMAIN r => s.count = r.count + gain
    PROVE  Keeps(r, s, gain)
  BY PdmRows DEF Keeps

\* The requests that insert a row and read none.
LEMMA PdmInserts ==
    ASSUME RInv,
           SpuCreate \/ ProjectCreate \/ CollectionCreate \/ IssueCreate \/ UpcCreate
    PROVE  SoundStep
  <1>1. CASE SpuCreate
    <2>1. PICK c, p, r :
             /\ Inserts(r)
             /\ r = [kind |-> "spu", status |-> "draft", categorised |-> c, pictured |-> p]
             /\ c \in BOOLEAN /\ p \in BOOLEAN
      BY <1>1 DEF SpuCreate, SpuTable, SpuRow
    <2>2. r \in Spus /\ PdmDated(r) /\ Settled(r)
      BY <2>1 DEF Spus, PdmDated, Settled, SpuTable, SpuRow
    <2>3. InTable(r) /\ Good(r) /\ Lasting(r)
      BY <2>1, <2>2, PdmTables, PdmRows DEF InTable, Lasting, SpuComplete, SpuRow
    <2> QED
      BY <2>1, <2>3, InsertStep DEF SpuRow
  <1>2. CASE ProjectCreate
    <2>1. PICK r :
             /\ Inserts(r)
             /\ r = [kind |-> "project", status |-> "proposing"]
      BY <1>2 DEF ProjectCreate, ProjectTable
    <2>2. r \in Projects /\ PdmDated(r) /\ Settled(r)
      BY <2>1 DEF Projects, PdmDated, Settled, ProjectTable
    <2>3. InTable(r) /\ Good(r) /\ Lasting(r)
      BY <2>1, <2>2, PdmTables, PdmRows DEF InTable, Lasting
    <2> QED
      BY <2>1, <2>3, InsertStep
  <1>3. CASE CollectionCreate
    <2>1. PICK p, r :
             /\ Inserts(r)
             /\ r = [kind |-> "collection", status |-> "collected", pictured |-> p]
             /\ p \in BOOLEAN
      BY <1>3 DEF CollectionCreate, CollectionTable
    <2>2. r \in Collections /\ PdmDated(r) /\ Settled(r)
      BY <2>1 DEF Collections, PdmDated, Settled, CollectionTable
    <2>3. InTable(r) /\ Good(r) /\ Lasting(r)
      BY <2>1, <2>2, PdmTables, PdmRows DEF InTable, Lasting
    <2> QED
      BY <2>1, <2>3, InsertStep
  <1>4. CASE IssueCreate
    <2>1. PICK r :
             /\ Inserts(r)
             /\ r = [kind |-> "issue", status |-> "open", resolved_at |-> FALSE]
      BY <1>4 DEF IssueCreate, IssueStatuses
    <2>2. r \in Issues /\ PdmDated(r) /\ Settled(r)
      BY <2>1 DEF Issues, PdmDated, Settled, IssueStatuses
    <2>3. InTable(r) /\ Good(r) /\ Lasting(r)
      BY <2>1, <2>2, PdmTables, PdmRows DEF InTable, Lasting
    <2> QED
      BY <2>1, <2>3, InsertStep
  <1>5. CASE UpcCreate
    <2>1. PICK r :
             /\ Inserts(r)
             /\ r = [kind |-> "upc", status |-> "available", sku |-> "none", allocated_at |-> FALSE]
      BY <1>5 DEF UpcCreate
    <2>2. r \in Upcs /\ PdmDated(r) /\ Settled(r)
      BY <2>1 DEF Upcs, PdmDated, Settled
    <2>3. InTable(r) /\ Good(r) /\ Lasting(r)
      BY <2>1, <2>2, PdmTables, PdmRows DEF InTable, Lasting
    <2> QED
      BY <2>1, <2>3, InsertStep
  <1> QED
    BY <1>1, <1>2, <1>3, <1>4, <1>5

\* The requests on a row of kind spu.
LEMMA SpuSteps ==
    ASSUME RInv, NEW d \in Desks, NEW i \in Ids,
           SpuUpdateStatus(d, i) \/ SkuCreate(d, i)
    PROVE  SoundStep
  <1>1. row[i].kind = "spu" /\ row[i] # NoRow /\ row[i] \in Spus
    BY NoRowKind, PdmTables DEF SpuUpdateStatus, SkuCreate, Opens, RInv, RowSound, InTable
  <1>2. CASE SpuUpdateStatus(d, i)
    <2>1. PICK t, looked, set :
             /\ t \in SpuTable[row[i].status] /\ SpuReady(row[i], t)
             /\ Sets(d, i, looked, set) /\ looked = {"status"} /\ set = [status |-> t]
      BY <1>2 DEF SpuUpdateStatus
    <2>2. PICK l : l = Loaded(row[i], looked \cup DOMAIN set)
      OBVIOUS
    <2>3. t \in DOMAIN SpuTable
      BY <1>1, <2>1 DEF Spus, SpuTable
    <2>4. Typed(Spus, set)
      BY <2>1, <2>3 DEF Typed, Merged, Spus, FixedColumns
    <2>5. ASSUME NEW r \in Spus, NEW s \in Spus, s = Merged(r, set, DOMAIN set), Match(r, l)
          PROVE  Keeps(r, s, 0)
      <3>1. t \in SpuTable[r.status] /\ r.status \in DOMAIN SpuTable
        BY <2>1, <2>2, <2>5 DEF Match, Loaded, Spus
      <3>2. s.kind = "spu" /\ r.kind = "spu" /\ "count" \notin DOMAIN r
        BY <2>1, <2>5 DEF Merged, Spus
      <3>3. ~PdmFinal(r)
        BY <3>1, <3>2 DEF PdmFinal, SpuTable
      <3> QED
        BY <3>2, <3>3, PdmKeeps DEF PdmDated, Settled
    <2>6. Fits(row[i].kind, l, set, 0)
      BY <1>1, <2>1, <2>2, <2>4, <2>5, PdmTables DEF Fits, Typed, Loaded
    <2>7. Lasts(row[i], l, set)
      <3>1. SpuComplete(row[i], row[i].status)
        BY <1>1 DEF RInv, RowSound, Lasting
      <3>2. row[i].status \in DOMAIN SpuTable
        BY <1>1 DEF Spus
      <3>3. SpuComplete(row[i], t)
        BY <2>1, <3>1, <3>2 DEF SpuComplete, SpuReady, SpuTable
      <3> QED
        BY <1>1, <2>1, <3>3 DEF Lasts
    <2> QED
      BY <1>1, <2>1, <2>2, <2>6, <2>7, SetsStep
  <1>3. CASE SkuCreate(d, i)
    <2>1. PICK looked, new :
             /\ Adds(d, i, looked, new)
             /\ row[i].status \notin {"cancelled", "discontinued"}
             /\ new = [kind |-> "sku", status |-> "active", deleted |-> FALSE, of |-> i]
             /\ looked = {"status"}
      BY <1>3 DEF SkuCreate
    <2>2. new \in Skus /\ PdmDated(new) /\ Settled(new)
      BY <1>1, <2>1 DEF Skus, PdmDated, Settled
    <2>3. InTable(new) /\ Good(new) /\ Lasting(new)
      BY <2>1, <2>2, PdmTables, PdmRows DEF InTable, Lasting
    <2>4. PICK l : l = Loaded(row[i], looked)
      OBVIOUS
    <2>5. Living(row[i].kind, l)
      BY <1>1, <2>1, <2>4 DEF Living, Match, Loaded, ClosedToDetails
    <2> QED
      BY <1>1, <2>1, <2>3, <2>4, <2>5, AddsStep
  <1> QED
    BY <1>2, <1>3

\* The requests on a row of kind sku.
LEMMA SkuSteps ==
    ASSUME RInv, NEW d \in Desks, NEW i \in Ids,
           SkuUpdate(d, i) \/ SkuDelete(d, i)
    PROVE  SoundStep
  <1>1. row[i].kind = "sku" /\ row[i] # NoRow /\ row[i] \in Skus
    BY NoRowKind, PdmTables DEF SkuUpdate, SkuDelete, Opens, RInv, RowSound, InTable
  <1>2. CASE SkuUpdate(d, i)
    <2>1. PICK looked, set :
             /\ Sets(d, i, looked, set)
             /\ set = None /\ looked = {"deleted"}
      BY <1>2 DEF SkuUpdate
    <2>2. Typed(Skus, set)
      BY <2>1 DEF Typed, Merged, Skus, FixedColumns, None
    <2>3. ASSUME NEW r \in Skus, NEW s \in Skus, s = Merged(r, set, DOMAIN set),
                 Match(r, Loaded(row[i], looked \cup DOMAIN set))
          PROVE  Keeps(r, s, 0)
      BY <2>1, <2>3, PdmKeeps DEF Match, Loaded, Merged, Skus, PdmDated, PdmFinal, Settled, None
    <2> QED
      BY <1>1, <2>1, <2>2, <2>3, PdmTables, PlainStep
  <1>3. CASE SkuDelete(d, i)
    <2>1. PICK looked, set :
             /\ Sets(d, i, looked, set)
             /\ set = [deleted |-> TRUE, status |-> "discontinued"] /\ looked = {}
      BY <1>3 DEF SkuDelete
    <2>2. Typed(Skus, set)
      BY <2>1 DEF Typed, Merged, Skus, FixedColumns
    <2>3. ASSUME NEW r \in Skus, NEW s \in Skus, s = Merged(r, set, DOMAIN set),
                 Match(r, Loaded(row[i], looked \cup DOMAIN set))
          PROVE  Keeps(r, s, 0)
      BY <2>1, <2>3, PdmKeeps DEF Match, Loaded, Merged, Skus, PdmDated, PdmFinal, Settled
    <2> QED
      BY <1>1, <2>1, <2>2, <2>3, PdmTables, PlainStep
  <1> QED
    BY <1>2, <1>3

\* The requests on a row of kind project.
LEMMA ProjectSteps ==
    ASSUME RInv, NEW d \in Desks, NEW i \in Ids,
           UpdateStage(d, i)
    PROVE  SoundStep
  <1>1. row[i].kind = "project" /\ row[i] # NoRow /\ row[i] \in Projects
    BY NoRowKind, PdmTables DEF UpdateStage, Opens, RInv, RowSound, InTable
  <1>2. CASE UpdateStage(d, i)
    <2>1. PICK t, looked, set :
             /\ t \in ProjectTable[row[i].status] /\ row[i].status \in DOMAIN ProjectTable
             /\ Sets(d, i, looked, set) /\ looked = {"status"}
             /\ set = [status |-> t]
      BY <1>2 DEF UpdateStage, Follows, Only
    <2>2. /\ DOMAIN set \subseteq {"status"}
          /\ set.status = t /\ t \in DOMAIN ProjectTable
      BY <1>1, <2>1 DEF Projects, ProjectTable
    <2>3. Typed(Projects, set)
      BY <2>2 DEF Typed, Merged, Projects, FixedColumns
    <2>4. ASSUME NEW r \in Projects, NEW s \in Projects, s = Merged(r, set, DOMAIN set),
                 Match(r, Loaded(row[i], looked \cup DOMAIN set))
          PROVE  Keeps(r, s, 0)
      <3>1. t \in ProjectTable[r.status] /\ r.status \in DOMAIN ProjectTable
        BY <2>1, <2>4 DEF Match, Loaded, Projects
      <3>2. /\ s.status = t /\ s.kind = r.kind /\ "count" \notin DOMAIN r /\ r.kind = "project"
        BY <2>1, <2>4 DEF Merged, Projects
      <3>3. ~PdmFinal(r)
        BY <3>1, <3>2 DEF PdmFinal, ProjectTable
      <3>4. PdmDated(r) /\ Settled(r) => PdmDated(s) /\ Settled(s)
        BY <3>2 DEF PdmDated, Settled
      <3> QED
        BY <3>2, <3>3, <3>4, PdmKeeps
    <2> QED
      BY <1>1, <2>1, <2>3, <2>4, PdmTables, PlainStep
  <1> QED
    BY <1>2

\* The requests on a row of kind collection.
LEMMA CollectionSteps ==
    ASSUME RInv, NEW d \in Desks, NEW i \in Ids,
           CollectionUpdateStatus(d, i) \/ CollectionAnalyze(d, i) \/ ConvertToSpu(d, i)
    PROVE  SoundStep
  <1>1. row[i].kind = "collection" /\ row[i] # NoRow /\ row[i] \in Collections
    BY NoRowKind, PdmTables DEF CollectionUpdateStatus, CollectionAnalyze, ConvertToSpu, Opens,
                                RInv, RowSound, InTable
  <1>2. CASE CollectionUpdateStatus(d, i)
    <2>1. PICK t, looked, set :
             /\ t \in CollectionTable[row[i].status] /\ row[i].status \in DOMAIN CollectionTable
             /\ Sets(d, i, looked, set) /\ looked = {"status"}
             /\ set = [status |-> t]
      BY <1>2 DEF CollectionUpdateStatus, Follows, Only
    <2>2. /\ DOMAIN set \subseteq {"status"}
          /\ set.status = t /\ t \in DOMAIN CollectionTable
      BY <1>1, <2>1 DEF Collections, CollectionTable
    <2>3. Typed(Collections, set)
      BY <2>2 DEF Typed, Merged, Collections, FixedColumns
    <2>4. ASSUME NEW r \in Collections, NEW s \in Collections, s = Merged(r, set, DOMAIN set),
                 Match(r, Loaded(row[i], looked \cup DOMAIN set))
          PROVE  Keeps(r, s, 0)
      <3>1. t \in CollectionTable[r.status] /\ r.status \in DOMAIN CollectionTable
        BY <2>1, <2>4 DEF Match, Loaded, Collections
      <3>2. /\ s.status = t /\ s.kind = r.kind /\ "count" \notin DOMAIN r /\ r.kind = "collection"
        BY <2>1, <2>4 DEF Merged, Collections
      <3>3. ~PdmFinal(r)
        BY <3>1, <3>2 DEF PdmFinal, CollectionTable
      <3>4. PdmDated(r) /\ Settled(r) => PdmDated(s) /\ Settled(s)
        BY <3>2 DEF PdmDated, Settled
      <3> QED
        BY <3>2, <3>3, <3>4, PdmKeeps
    <2> QED
      BY <1>1, <2>1, <2>3, <2>4, PdmTables, PlainStep
  <1>3. CASE CollectionAnalyze(d, i)
    <2>1. PICK looked, set :
             /\ Sets(d, i, looked, set)
             /\ row[i].status = "collected"
             /\ set = [status |-> "analyzing"] /\ looked = {}
             /\ set.status \in DOMAIN CollectionTable
      BY <1>3 DEF CollectionAnalyze, CollectionTable
    <2>2. Typed(Collections, set)
      BY <2>1 DEF Typed, Merged, Collections, FixedColumns
    <2>3. ASSUME NEW r \in Collections, NEW s \in Collections, s = Merged(r, set, DOMAIN set),
                 Match(r, Loaded(row[i], looked \cup DOMAIN set))
          PROVE  Keeps(r, s, 0)
      BY <2>1, <2>3, PdmKeeps DEF Match, Loaded, Merged, Collections, PdmDated, PdmFinal,
                                  Settled
    <2> QED
      BY <1>1, <2>1, <2>2, <2>3, PdmTables, PlainStep
  <1>4. CASE ConvertToSpu(d, i)
    <2>1. PICK looked, set, new, gains :
             /\ Takes(d, Only(i, looked), Only(i, set), new, gains)
             /\ row[i].status = "selected"
             /\ looked = {"status", "pictured"} /\ set = [status |-> "converted"]
             /\ new = SpuRow(FALSE, row[i].pictured) /\ gains = None
      BY <1>4 DEF ConvertToSpu
    <2>2. new \in Spus /\ new.kind = "spu" /\ new.status = "draft" /\ "count" \notin DOMAIN new
      BY <1>1, <2>1 DEF SpuRow, Spus, SpuTable, Collections
    <2>3. InTable(new) /\ Good(new) /\ Lasting(new) /\ Refers(new)
      <3>1. InTable(new)
        BY <2>1, <2>2, PdmTables, PdmRows DEF InTable, SpuRow
      <3> QED
        BY <2>2, <3>1, PdmRows DEF PdmDated, Settled, Lasting, SpuComplete, Refers
    <2>4. Typed(Collections, set)
      <3>1. "converted" \in DOMAIN CollectionTable
        BY DEF CollectionTable
      <3> QED
        BY <2>1, <3>1 DEF Typed, Merged, Collections, FixedColumns
    <2>5. ASSUME NEW r \in Collections, NEW s \in Collections, s = Merged(r, set, DOMAIN set),
                 Match(r, Loaded(row[i], looked))
          PROVE  Keeps(r, s, 0)
      BY <2>1, <2>5, PdmKeeps DEF Match, Loaded, Merged, Collections, PdmDated, PdmFinal, Settled
    <2>6. May(i, looked, set, 0)
      BY <1>1, <2>1, <2>4, <2>5, PdmTables, PlainMay
    <2>7. PICK gain : gain = 0 /\ gain \in Int
      OBVIOUS
    <2> QED
      BY <1>1, <2>1, <2>2, <2>3, <2>6, <2>7, WritesAndAddsStep
  <1> QED
    BY <1>2, <1>3, <1>4

\* The requests on a row of kind issue.
LEMMA IssueSteps ==
    ASSUME RInv, NEW d \in Desks, NEW i \in Ids,
           IssueUpdate(d, i)
    PROVE  SoundStep
  <1>1. row[i].kind = "issue" /\ row[i] # NoRow /\ row[i] \in Issues
    BY NoRowKind, PdmTables DEF IssueUpdate, Opens, RInv, RowSound, InTable
  <1>2. CASE IssueUpdate(d, i)
    <2>1. PICK t, looked, set :
             /\ t \in IssueStatuses /\ Sets(d, i, looked, set) /\ looked = {"status"}
             /\ \/ t = "resolved" /\ set = [status |-> t, resolved_at |-> TRUE]
                \/ t # "resolved" /\ set = [status |-> t]
      BY <1>2 DEF IssueUpdate
    <2>2. /\ DOMAIN set \subseteq {"status", "resolved_at"} /\ set.status = t
          /\ \A c \in DOMAIN set \ {"status"} : set[c] = TRUE
      BY <2>1
    <2>3. Typed(Issues, set)
      BY <2>1, <2>2 DEF Typed, Merged, Issues, FixedColumns
    <2>4. ASSUME NEW r \in Issues, NEW s \in Issues, s = Merged(r, set, DOMAIN set)
          PROVE  Keeps(r, s, 0)
      <3>1. /\ s.status = t /\ s.kind = "issue" /\ r.kind = "issue" /\ "count" \notin DOMAIN r
            /\ s.resolved_at = (r.resolved_at \/ t = "resolved")
        BY <2>1, <2>4 DEF Merged, Issues
      <3> QED
        BY <3>1, PdmKeeps DEF PdmDated, PdmFinal, Settled
    <2> QED
      BY <1>1, <2>1, <2>3, <2>4, PdmTables, PlainStep
  <1> QED
    BY <1>2

\* The requests on a row of kind upc.
LEMMA UpcSteps ==
    ASSUME RInv, NEW d \in Desks, NEW i \in Ids,
           UpcAllocate(d, i) \/ UpcRelease(d, i)
    PROVE  SoundStep
  <1>1. row[i].kind = "upc" /\ row[i] # NoRow /\ row[i] \in Upcs
    BY NoRowKind, PdmTables DEF UpcAllocate, UpcRelease, Opens, RInv, RowSound, InTable
  <1>2. CASE UpcAllocate(d, i)
    <2>1. PICK sku, looked, set :
             /\ Sets(d, i, looked, set) /\ looked = {}
             /\ row[i].status = "available" /\ sku \in {"A", "B"}
             /\ set = [sku |-> sku, status |-> "allocated", allocated_at |-> TRUE]
      BY <1>2 DEF UpcAllocate
    <2>2. PICK l : l = Loaded(row[i], looked \cup DOMAIN set)
      OBVIOUS
    <2>3. Typed(Upcs, set)
      BY <2>1 DEF Typed, Merged, Upcs, FixedColumns
    <2>4. ASSUME NEW r \in Upcs, NEW s \in Upcs, s = Merged(r, set, DOMAIN set)
          PROVE  Keeps(r, s, 0)
      BY <2>1, <2>4, PdmKeeps DEF Merged, Upcs, PdmDated, PdmFinal, Settled
    <2>5. Fits(row[i].kind, l, set, 0)
      BY <1>1, <2>1, <2>2, <2>3, <2>4, PdmTables DEF Fits, Typed, Loaded
    <2>6. Lasts(row[i], l, set)
      <3>1. (row[i].status = "allocated") = (row[i].sku # "none")
        BY <1>1 DEF RInv, RowSound, Lasting
      <3> QED
        BY <1>1, <2>1, <2>2, <3>1 DEF Lasts, Loaded
    <2> QED
      BY <1>1, <2>1, <2>2, <2>5, <2>6, SetsStep
  <1>3. CASE UpcRelease(d, i)
    <2>1. PICK sku, looked, set :
             /\ Sets(d, i, looked, set) /\ looked = {}
             /\ row[i].status = "allocated" /\ sku \in {"none"}
             /\ set = [sku |-> sku, status |-> "available", allocated_at |-> FALSE]
      BY <1>3 DEF UpcRelease
    <2>2. PICK l : l = Loaded(row[i], looked \cup DOMAIN set)
      OBVIOUS
    <2>3. Typed(Upcs, set)
      BY <2>1 DEF Typed, Merged, Upcs, FixedColumns
    <2>4. ASSUME NEW r \in Upcs, NEW s \in Upcs, s = Merged(r, set, DOMAIN set)
          PROVE  Keeps(r, s, 0)
      BY <2>1, <2>4, PdmKeeps DEF Merged, Upcs, PdmDated, PdmFinal, Settled
    <2>5. Fits(row[i].kind, l, set, 0)
      BY <1>1, <2>1, <2>2, <2>3, <2>4, PdmTables DEF Fits, Typed, Loaded
    <2>6. Lasts(row[i], l, set)
      <3>1. (row[i].status = "allocated") = (row[i].sku # "none")
        BY <1>1 DEF RInv, RowSound, Lasting
      <3> QED
        BY <1>1, <2>1, <2>2, <3>1 DEF Lasts, Loaded
    <2> QED
      BY <1>1, <2>1, <2>2, <2>5, <2>6, SetsStep
  <1> QED
    BY <1>2, <1>3

-----------------------------------------------------------------------------
(* ADS *)

\* Its tables, and what being final and being dated come to for their rows.
LEMMA AdsTables ==
    /\ TableOfKind["campaign"] = Campaigns /\ TableOfKind["ad_group"] = AdGroups
    /\ TableOfKind["keyword"] = Keywords /\ TableOfKind["bid_adjustment"] = BidAdjustments
  BY DEF TableOfKind

LEMMA AdsRows ==
    ASSUME NEW r,
           r.kind \in {"campaign", "ad_group", "keyword", "bid_adjustment"}
    PROVE  /\ Final(r) <=> AdsFinal(r)
           /\ Good(r) <=> Settled(r)
           /\ r.kind \in Kinds
  BY DEF Final, FbaFinal, CrmFinal, SomFinal, PdmFinal, TransfersFinal, PaperworkFinal,
         IntegrationFinal, Good, Dated, FbaDated, CrmDated, PdmDated, TransfersDated,
         PaperworkDated, IntegrationDated, Offered, Kinds, TableOfKind

LEMMA AdsKeeps ==
    ASSUME NEW r, NEW s, NEW gain, s.kind = r.kind,
           r.kind \in {"campaign", "ad_group", "keyword", "bid_adjustment"},
           AdsFinal(r) => s.status = r.status,
           Settled(r) => Settled(s),
           "count" \in DOMAIN r => s.count = r.count + gain
    PROVE  Keeps(r, s, gain)
  BY AdsRows DEF Keeps

\* The requests that insert a row and read none.
LEMMA AdsInserts ==
    ASSUME RInv,
           CampaignCreate \/ KeywordCreate \/ CalculateBid
    PROVE  SoundStep
  <1>1. CASE CampaignCreate
    <2>1. PICK f, r :
             /\ Inserts(r)
             /\ r = [kind |-> "campaign", status |-> "draft", funded |-> f, started |-> FALSE,
                     deleted |-> FALSE]
             /\ f \in BOOLEAN
      BY <1>1 DEF CampaignCreate, CampaignTable
    <2>2. r \in Campaigns /\ Settled(r)
      BY <2>1 DEF Campaigns, Settled, CampaignTable
    <2>3. InTable(r) /\ Good(r) /\ Lasting(r)
      BY <2>1, <2>2, AdsTables, AdsRows DEF InTable, Lasting
    <2> QED
      BY <2>1, <2>3, InsertStep
  <1>2. CASE KeywordCreate
    <2>1. PICK r :
             /\ Inserts(r)
             /\ r = [kind |-> "keyword", status |-> "enabled", bounded |-> TRUE]
      BY <1>2 DEF KeywordCreate
    <2>2. r \in Keywords /\ Settled(r)
      BY <2>1 DEF Keywords, Settled
    <2>3. InTable(r) /\ Good(r) /\ Lasting(r)
      BY <2>1, <2>2, AdsTables, AdsRows DEF InTable, Lasting
    <2> QED
      BY <2>1, <2>3, InsertStep
  <1>3. CASE CalculateBid
    <2>1. PICK r :
             /\ Inserts(r)
             /\ r = [kind |-> "bid_adjustment", applied |-> FALSE]
      BY <1>3 DEF CalculateBid
    <2>2. r \in BidAdjustments /\ Settled(r)
      BY <2>1 DEF BidAdjustments, Settled
    <2>3. InTable(r) /\ Good(r) /\ Lasting(r)
      BY <2>1, <2>2, AdsTables, AdsRows DEF InTable, Lasting
    <2> QED
      BY <2>1, <2>3, InsertStep
  <1> QED
    BY <1>1, <1>2, <1>3

\* The requests on a row of kind campaign.
LEMMA CampaignSteps ==
    ASSUME RInv, NEW d \in Desks, NEW i \in Ids,
           CampaignUpdateStatus(d, i) \/ UpdateBudget(d, i) \/ CampaignUpdate(d, i) \/
           CampaignDelete(d, i) \/ AdGroupCreate(d, i)
    PROVE  SoundStep
  <1>1. row[i].kind = "campaign" /\ row[i] # NoRow /\ row[i] \in Campaigns
    BY NoRowKind, AdsTables DEF CampaignUpdateStatus, UpdateBudget, CampaignUpdate,
                                CampaignDelete, AdGroupCreate, Opens, OpensCampaign, RInv,
                                RowSound, InTable
  <1>2. CASE CampaignUpdateStatus(d, i)
    <2>1. PICK t, looked, set :
             /\ t \in CampaignTable[row[i].status]
             /\ Sets(d, i, looked, set) /\ looked = {"status", "funded", "started", "deleted"}
             /\ \/ t = "active" /\ set = [status |-> t, started |-> TRUE]
                \/ t \notin {"active"} /\ set = [status |-> t]
      BY <1>2 DEF CampaignUpdateStatus
    <2>2. /\ DOMAIN set \subseteq {"status", "started"}
          /\ set.status = t /\ t \in DOMAIN CampaignTable
          /\ \A c \in DOMAIN set \ {"status"} : set[c] = TRUE
      BY <1>1, <2>1 DEF Campaigns, CampaignTable
    <2>3. Typed(Campaigns, set)
      BY <2>2 DEF Typed, Merged, Campaigns, FixedColumns
    <2>4. ASSUME NEW r \in Campaigns, NEW s \in Campaigns, s = Merged(r, set, DOMAIN set),
                 Match(r, Loaded(row[i], looked \cup DOMAIN set))
          PROVE  Keeps(r, s, 0)
      <3>1. t \in CampaignTable[r.status] /\ r.status \in DOMAIN CampaignTable
        BY <2>1, <2>4 DEF Match, Loaded, Campaigns
      <3>2. /\ s.status = t /\ s.kind = r.kind /\ "count" \notin DOMAIN r /\ r.kind = "campaign"
            /\ s.started = (r.started \/ t = "active")
        BY <2>1, <2>4 DEF Merged, Campaigns
      <3>3. ~AdsFinal(r)
        BY <3>1, <3>2 DEF AdsFinal, CampaignTable
      <3>4. Settled(r) => Settled(s)
        BY <3>2 DEF Settled
      <3> QED
        BY <3>2, <3>3, <3>4, AdsKeeps
    <2> QED
      BY <1>1, <2>1, <2>3, <2>4, AdsTables, PlainStep
  <1>3. CASE UpdateBudget(d, i)
    <2>1. PICK looked, set :
             /\ Sets(d, i, looked, set)
             /\ set = [funded |-> TRUE] /\ looked = {"deleted"}
      BY <1>3 DEF UpdateBudget
    <2>2. Typed(Campaigns, set)
      BY <2>1 DEF Typed, Merged, Campaigns, FixedColumns
    <2>3. ASSUME NEW r \in Campaigns, NEW s \in Campaigns, s = Merged(r, set, DOMAIN set),
                 Match(r, Loaded(row[i], looked \cup DOMAIN set))
          PROVE  Keeps(r, s, 0)
      BY <2>1, <2>3, AdsKeeps DEF Match, Loaded, Merged, Campaigns, AdsFinal, Settled
    <2> QED
      BY <1>1, <2>1, <2>2, <2>3, AdsTables, PlainStep
  <1>4. CASE CampaignUpdate(d, i)
    <2>1. PICK f, t, looked, set :
             /\ Sets(d, i, looked, set)
             /\ f \in BOOLEAN
             /\ row[i].status \in {"draft", "paused"}
             /\ set = [funded |-> f, status |-> t] /\ looked = {"deleted"}
             /\ set.status \in DOMAIN CampaignTable
      BY <1>4 DEF CampaignUpdate, CampaignTable
    <2>2. Typed(Campaigns, set)
      BY <2>1 DEF Typed, Merged, Campaigns, FixedColumns
    <2>3. ASSUME NEW r \in Campaigns, NEW s \in Campaigns, s = Merged(r, set, DOMAIN set),
                 Match(r, Loaded(row[i], looked \cup DOMAIN set))
          PROVE  Keeps(r, s, 0)
      BY <2>1, <2>3, AdsKeeps DEF Match, Loaded, Merged, Campaigns, AdsFinal, Settled
    <2> QED
      BY <1>1, <2>1, <2>2, <2>3, AdsTables, PlainStep
  <1>5. CASE CampaignDelete(d, i)
    <2>1. PICK looked, set :
             /\ Sets(d, i, looked, set)
             /\ row[i].status \in {"draft", "paused"}
             /\ set = [deleted |-> TRUE, status |-> "deleted"] /\ looked = {}
             /\ set.status \in DOMAIN CampaignTable
      BY <1>5 DEF CampaignDelete, CampaignTable
    <2>2. Typed(Campaigns, set)
      BY <2>1 DEF Typed, Merged, Campaigns, FixedColumns
    <2>3. ASSUME NEW r \in Campaigns, NEW s \in Campaigns, s = Merged(r, set, DOMAIN set),
                 Match(r, Loaded(row[i], looked \cup DOMAIN set))
          PROVE  Keeps(r, s, 0)
      BY <2>1, <2>3, AdsKeeps DEF Match, Loaded, Merged, Campaigns, AdsFinal, Settled
    <2> QED
      BY <1>1, <2>1, <2>2, <2>3, AdsTables, PlainStep
  <1>6. CASE AdGroupCreate(d, i)
    <2>1. PICK looked, new :
             /\ Adds(d, i, looked, new)
             /\ ~row[i].deleted
             /\ new = [kind |-> "ad_group", status |-> "enabled", of |-> i]
             /\ looked = {"status", "deleted"}
      BY <1>6 DEF AdGroupCreate, OpensCampaign
    <2>2. new \in AdGroups /\ Settled(new)
      BY <1>1, <2>1 DEF AdGroups, Settled, AdGroupTable
    <2>3. InTable(new) /\ Good(new) /\ Lasting(new)
      BY <2>1, <2>2, AdsTables, AdsRows DEF InTable, Lasting
    <2>4. PICK l : l = Loaded(row[i], looked)
      OBVIOUS
    <2>5. Living(row[i].kind, l)
      BY <1>1, <2>1, <2>4 DEF Living, Match, Loaded, ClosedToDetails
    <2> QED
      BY <1>1, <2>1, <2>3, <2>4, <2>5, AddsStep
  <1> QED
    BY <1>2, <1>3, <1>4, <1>5, <1>6

\* The requests on a row of kind ad_group.
LEMMA AdGroupSteps ==
    ASSUME RInv, NEW d \in Desks, NEW i \in Ids,
           AdGroupUpdate(d, i)
    PROVE  SoundStep
  <1>1. row[i].kind = "ad_group" /\ row[i] # NoRow /\ row[i] \in AdGroups
    BY NoRowKind, AdsTables DEF AdGroupUpdate, Opens, RInv, RowSound, InTable
  <1>2. CASE AdGroupUpdate(d, i)
    <2>1. PICK t, looked, set :
             /\ t \in AdGroupTable[row[i].status] /\ row[i].status \in DOMAIN AdGroupTable
             /\ Sets(d, i, looked, set) /\ looked = {"status"}
             /\ set = [status |-> t]
      BY <1>2 DEF AdGroupUpdate, Follows, Only
    <2>2. /\ DOMAIN set \subseteq {"status"}
          /\ set.status = t /\ t \in DOMAIN AdGroupTable
      BY <1>1, <2>1 DEF AdGroups, AdGroupTable
    <2>3. Typed(AdGroups, set)
      BY <2>2 DEF Typed, Merged, AdGroups, FixedColumns
    <2>4. ASSUME NEW r \in AdGroups, NEW s \in AdGroups, s = Merged(r, set, DOMAIN set),
                 Match(r, Loaded(row[i], looked \cup DOMAIN set))
          PROVE  Keeps(r, s, 0)
      <3>1. t \in AdGroupTable[r.status] /\ r.status \in DOMAIN AdGroupTable
        BY <2>1, <2>4 DEF Match, Loaded, AdGroups
      <3>2. /\ s.status = t /\ s.kind = r.kind /\ "count" \notin DOMAIN r /\ r.kind = "ad_group"
        BY <2>1, <2>4 DEF Merged, AdGroups
      <3>3. ~AdsFinal(r)
        BY <3>1, <3>2 DEF AdsFinal, AdGroupTable
      <3>4. Settled(r) => Settled(s)
        BY <3>2 DEF Settled
      <3> QED
        BY <3>2, <3>3, <3>4, AdsKeeps
    <2> QED
      BY <1>1, <2>1, <2>3, <2>4, AdsTables, PlainStep
  <1> QED
    BY <1>2

\* The requests on a row of kind keyword.
LEMMA KeywordSteps ==
    ASSUME RInv, NEW d \in Desks, NEW i \in Ids,
           UpdateBid(d, i) \/ EditBid(d, i) \/ KeywordUpdateStatus(d, i)
    PROVE  SoundStep
  <1>1. row[i].kind = "keyword" /\ row[i] # NoRow /\ row[i] \in Keywords
    BY NoRowKind, AdsTables DEF UpdateBid, EditBid, KeywordUpdateStatus, Opens, RInv, RowSound,
                                InTable
  <1>2. CASE UpdateBid(d, i)
    <2>1. PICK looked, set :
             /\ Sets(d, i, looked, set)
             /\ set = [bounded |-> TRUE] /\ looked = {}
      BY <1>2 DEF UpdateBid
    <2>2. Typed(Keywords, set)
      BY <2>1 DEF Typed, Merged, Keywords, FixedColumns
    <2>3. ASSUME NEW r \in Keywords, NEW s \in Keywords, s = Merged(r, set, DOMAIN set),
                 Match(r, Loaded(row[i], looked \cup DOMAIN set))
          PROVE  Keeps(r, s, 0)
      BY <2>1, <2>3, AdsKeeps DEF Match, Loaded, Merged, Keywords, AdsFinal, Settled
    <2> QED
      BY <1>1, <2>1, <2>2, <2>3, AdsTables, PlainStep
  <1>3. CASE EditBid(d, i)
    <2>1. PICK b, looked, set :
             /\ Sets(d, i, looked, set)
             /\ b \in BOOLEAN
             /\ set = [bounded |-> b] /\ looked = {}
      BY <1>3 DEF EditBid
    <2>2. Typed(Keywords, set)
      BY <2>1 DEF Typed, Merged, Keywords, FixedColumns
    <2>3. ASSUME NEW r \in Keywords, NEW s \in Keywords, s = Merged(r, set, DOMAIN set),
                 Match(r, Loaded(row[i], looked \cup DOMAIN set))
          PROVE  Keeps(r, s, 0)
      BY <2>1, <2>3, AdsKeeps DEF Match, Loaded, Merged, Keywords, AdsFinal, Settled
    <2> QED
      BY <1>1, <2>1, <2>2, <2>3, AdsTables, PlainStep
  <1>4. CASE KeywordUpdateStatus(d, i)
    <2>1. PICK t, looked, set :
             /\ Sets(d, i, looked, set)
             /\ t \in {"enabled", "paused", "archived"}
             /\ set = [status |-> t] /\ looked = {}
      BY <1>4 DEF KeywordUpdateStatus
    <2>2. Typed(Keywords, set)
      BY <2>1 DEF Typed, Merged, Keywords, FixedColumns
    <2>3. ASSUME NEW r \in Keywords, NEW s \in Keywords, s = Merged(r, set, DOMAIN set),
                 Match(r, Loaded(row[i], looked \cup DOMAIN set))
          PROVE  Keeps(r, s, 0)
      BY <2>1, <2>3, AdsKeeps DEF Match, Loaded, Merged, Keywords, AdsFinal, Settled
    <2> QED
      BY <1>1, <2>1, <2>2, <2>3, AdsTables, PlainStep
  <1> QED
    BY <1>2, <1>3, <1>4

\* The requests on a row of kind bid_adjustment.
LEMMA BidSteps ==
    ASSUME RInv, NEW d \in Desks, NEW i \in Ids,
           ApplyBid(d, i)
    PROVE  SoundStep
  <1>1. row[i].kind = "bid_adjustment" /\ row[i] # NoRow /\ row[i] \in BidAdjustments
    BY NoRowKind, AdsTables DEF ApplyBid, Opens, RInv, RowSound, InTable
  <1>2. CASE ApplyBid(d, i)
    <2>1. PICK looked, set :
             /\ Sets(d, i, looked, set)
             /\ set = [applied |-> TRUE] /\ looked = {}
      BY <1>2 DEF ApplyBid
    <2>2. Typed(BidAdjustments, set)
      BY <2>1 DEF Typed, Merged, BidAdjustments, FixedColumns
    <2>3. ASSUME NEW r \in BidAdjustments, NEW s \in BidAdjustments, s = Merged(r, set, DOMAIN set),
                 Match(r, Loaded(row[i], looked \cup DOMAIN set))
          PROVE  Keeps(r, s, 0)
      BY <2>1, <2>3, AdsKeeps DEF Match, Loaded, Merged, BidAdjustments, AdsFinal, Settled
    <2> QED
      BY <1>1, <2>1, <2>2, <2>3, AdsTables, PlainStep
  <1> QED
    BY <1>2

-----------------------------------------------------------------------------
(* Transfers and alerts *)

\* Its tables, and what being final and being dated come to for their rows.
LEMMA TransfersTables ==
    /\ TableOfKind["transfer"] = Transfers /\ TableOfKind["fba_plan"] = FbaPlans
    /\ TableOfKind["stock_alert"] = StockAlerts /\ TableOfKind["business_alert"] = BusinessAlerts
    /\ TableOfKind["alert_instance"] = AlertInstances
  BY DEF TableOfKind

LEMMA TransfersRows ==
    ASSUME NEW r,
           r.kind \in {"transfer", "fba_plan", "stock_alert", "business_alert", "alert_instance"}
    PROVE  /\ Final(r) <=> TransfersFinal(r)
           /\ Good(r) <=> TransfersDated(r) /\ Settled(r)
           /\ r.kind \in Kinds
  BY DEF Final, FbaFinal, CrmFinal, SomFinal, PdmFinal, AdsFinal, PaperworkFinal,
         IntegrationFinal, Good, Dated, FbaDated, CrmDated, PdmDated, PaperworkDated,
         IntegrationDated, Offered, Kinds, TableOfKind

LEMMA TransfersKeeps ==
    ASSUME NEW r, NEW s, NEW gain, s.kind = r.kind,
           r.kind \in {"transfer", "fba_plan", "stock_alert", "business_alert", "alert_instance"},
           TransfersFinal(r) => s.status = r.status,
           TransfersDated(r) /\ Settled(r) => TransfersDated(s) /\ Settled(s),
           "count" \in DOMAIN r => s.count = r.count + gain
    PROVE  Keeps(r, s, gain)
  BY TransfersRows DEF Keeps

\* The requests that insert a row and read none.
LEMMA TransfersInserts ==
    ASSUME RInv,
           CreateTransfer \/ GenerateReplenishmentPlan \/ EvaluateAlerts \/ CreateAlertRule
    PROVE  SoundStep
  <1>1. CASE CreateTransfer
    <2>1. PICK r : /\ Inserts(r)
                   /\ r = [kind |-> "transfer", status |-> "draft", shipped_at |-> FALSE,
                           received_at |-> FALSE]
      BY <1>1 DEF CreateTransfer
    <2>2. r \in Transfers /\ TransfersDated(r) /\ Settled(r)
      BY <2>1 DEF Transfers, TransfersDated, Settled
    <2>3. InTable(r) /\ Good(r) /\ Lasting(r)
      BY <2>1, <2>2, TransfersTables, TransfersRows DEF InTable, Lasting
    <2> QED
      BY <2>1, <2>3, InsertStep
  <1>2. CASE GenerateReplenishmentPlan
    <2>1. PICK q, r :
             /\ Inserts(r)
             /\ r = [kind |-> "fba_plan", status |-> "draft", suggested |-> q, approved |-> 0]
             /\ q \in 1..2
      BY <1>2 DEF GenerateReplenishmentPlan
    <2>2. r \in FbaPlans /\ TransfersDated(r) /\ Settled(r)
      BY <2>1 DEF FbaPlans, TransfersDated, Settled
    <2>3. InTable(r) /\ Good(r) /\ Lasting(r)
      BY <2>1, <2>2, TransfersTables, TransfersRows DEF InTable, Lasting
    <2> QED
      BY <2>1, <2>3, InsertStep
  <1>3. CASE EvaluateAlerts
    <2>1. PICK r :
             /\ Inserts(r)
             /\ r = [kind |-> "stock_alert", status |-> "pending", resolved_at |-> FALSE]
      BY <1>3 DEF EvaluateAlerts
    <2>2. r \in StockAlerts /\ TransfersDated(r) /\ Settled(r)
      BY <2>1 DEF StockAlerts, TransfersDated, Settled
    <2>3. InTable(r) /\ Good(r) /\ Lasting(r)
      BY <2>1, <2>2, TransfersTables, TransfersRows DEF InTable, Lasting
    <2> QED
      BY <2>1, <2>3, InsertStep
  <1>4. CASE CreateAlertRule
    <2>1. PICK r :
             /\ Inserts(r)
             /\ r = [kind |-> "business_alert", count |-> 0]
      BY <1>4 DEF CreateAlertRule
    <2>2. r \in BusinessAlerts /\ TransfersDated(r) /\ Settled(r)
      BY <2>1 DEF BusinessAlerts, TransfersDated, Settled
    <2>3. InTable(r) /\ Good(r) /\ Lasting(r)
      BY <2>1, <2>2, TransfersTables, TransfersRows DEF InTable, Lasting
    <2> QED
      BY <2>1, <2>3, InsertStep
  <1> QED
    BY <1>1, <1>2, <1>3, <1>4

\* The requests on a row of kind transfer.
LEMMA TransferSteps ==
    ASSUME RInv, NEW d \in Desks, NEW i \in Ids,
           SubmitTransfer(d, i) \/ ShipTransfer(d, i) \/ ReceiveTransfer(d, i) \/
           CancelTransfer(d, i)
    PROVE  SoundStep
  <1>1. row[i].kind = "transfer" /\ row[i] # NoRow /\ row[i] \in Transfers
    BY NoRowKind, TransfersTables DEF SubmitTransfer, ShipTransfer, ReceiveTransfer,
                                      CancelTransfer, Opens, MovesTransfer, RInv, RowSound,
                                      InTable
  <1>2. CASE SubmitTransfer(d, i)
    <2>1. PICK looked, set :
             /\ Sets(d, i, looked, set)
             /\ row[i].status = "draft"
             /\ set = [status |-> "submitted"] /\ looked = {"status"}
      BY <1>2 DEF SubmitTransfer, MovesTransfer
    <2>2. Typed(Transfers, set)
      BY <2>1 DEF Typed, Merged, Transfers, FixedColumns
    <2>3. ASSUME NEW r \in Transfers, NEW s \in Transfers, s = Merged(r, set, DOMAIN set),
                 Match(r, Loaded(row[i], looked \cup DOMAIN set))
          PROVE  Keeps(r, s, 0)
      BY <2>1, <2>3, TransfersKeeps DEF Match, Loaded, Merged, Transfers, TransfersDated,
                                        TransfersFinal, Settled
    <2> QED
      BY <1>1, <2>1, <2>2, <2>3, TransfersTables, PlainStep
  <1>3. CASE ShipTransfer(d, i)
    <2>1. PICK looked, set :
             /\ Sets(d, i, looked, set)
             /\ row[i].status = "submitted"
             /\ set = [status |-> "in_transit", shipped_at |-> TRUE] /\ looked = {"status"}
      BY <1>3 DEF ShipTransfer, MovesTransfer
    <2>2. Typed(Transfers, set)
      BY <2>1 DEF Typed, Merged, Transfers, FixedColumns
    <2>3. ASSUME NEW r \in Transfers, NEW s \in Transfers, s = Merged(r, set, DOMAIN set),
                 Match(r, Loaded(row[i], looked \cup DOMAIN set))
          PROVE  Keeps(r, s, 0)
      BY <2>1, <2>3, TransfersKeeps DEF Match, Loaded, Merged, Transfers, TransfersDated,
                                        TransfersFinal, Settled
    <2> QED
      BY <1>1, <2>1, <2>2, <2>3, TransfersTables, PlainStep
  <1>4. CASE ReceiveTransfer(d, i)
    <2>1. PICK looked, set :
             /\ Sets(d, i, looked, set)
             /\ row[i].status = "in_transit"
             /\ set = [status |-> "received", received_at |-> TRUE] /\ looked = {"status"}
      BY <1>4 DEF ReceiveTransfer, MovesTransfer
    <2>2. Typed(Transfers, set)
      BY <2>1 DEF Typed, Merged, Transfers, FixedColumns
    <2>3. ASSUME NEW r \in Transfers, NEW s \in Transfers, s = Merged(r, set, DOMAIN set),
                 Match(r, Loaded(row[i], looked \cup DOMAIN set))
          PROVE  Keeps(r, s, 0)
      BY <2>1, <2>3, TransfersKeeps DEF Match, Loaded, Merged, Transfers, TransfersDated,
                                        TransfersFinal, Settled
    <2> QED
      BY <1>1, <2>1, <2>2, <2>3, TransfersTables, PlainStep
  <1>5. CASE CancelTransfer(d, i)
    <2>1. PICK looked, set :
             /\ Sets(d, i, looked, set)
             /\ row[i].status \notin {"received", "cancelled"}
             /\ set = [status |-> "cancelled"] /\ looked = {"status"}
      BY <1>5 DEF CancelTransfer
    <2>2. Typed(Transfers, set)
      BY <2>1 DEF Typed, Merged, Transfers, FixedColumns
    <2>3. ASSUME NEW r \in Transfers, NEW s \in Transfers, s = Merged(r, set, DOMAIN set),
                 Match(r, Loaded(row[i], looked \cup DOMAIN set))
          PROVE  Keeps(r, s, 0)
      BY <2>1, <2>3, TransfersKeeps DEF Match, Loaded, Merged, Transfers, TransfersDated,
                                        TransfersFinal, Settled
    <2> QED
      BY <1>1, <2>1, <2>2, <2>3, TransfersTables, PlainStep
  <1> QED
    BY <1>2, <1>3, <1>4, <1>5

\* The requests on a row of kind fba_plan.
LEMMA FbaPlanSteps ==
    ASSUME RInv, NEW d \in Desks, NEW i \in Ids,
           SubmitPlan(d, i) \/ ApprovePlan(d, i)
    PROVE  SoundStep
  <1>1. row[i].kind = "fba_plan" /\ row[i] # NoRow /\ row[i] \in FbaPlans
    BY NoRowKind, TransfersTables DEF SubmitPlan, ApprovePlan, Opens, RInv, RowSound, InTable
  <1>2. CASE SubmitPlan(d, i)
    <2>1. PICK looked, set :
             /\ Sets(d, i, looked, set)
             /\ row[i].status = "draft"
             /\ set = [status |-> "submitted"] /\ looked = {}
      BY <1>2 DEF SubmitPlan
    <2>2. Typed(FbaPlans, set)
      BY <2>1 DEF Typed, Merged, FbaPlans, FixedColumns
    <2>3. ASSUME NEW r \in FbaPlans, NEW s \in FbaPlans, s = Merged(r, set, DOMAIN set),
                 Match(r, Loaded(row[i], looked \cup DOMAIN set))
          PROVE  Keeps(r, s, 0)
      BY <2>1, <2>3, TransfersKeeps DEF Match, Loaded, Merged, FbaPlans, TransfersDated,
                                        TransfersFinal, Settled
    <2> QED
      BY <1>1, <2>1, <2>2, <2>3, TransfersTables, PlainStep
  <1>3. CASE ApprovePlan(d, i)
    <2>1. PICK q, looked, set :
             /\ Sets(d, i, looked, set) /\ looked = {"suggested"}
             /\ row[i].status = "submitted"
             /\ q \in Nat /\ (q = row[i].suggested \/ q > 0)
             /\ set = [status |-> "approved", approved |-> q]
      BY <1>1, <1>3 DEF ApprovePlan, FbaPlans
    <2>2. Typed(FbaPlans, set)
      BY <2>1 DEF Typed, Merged, FbaPlans, FixedColumns
    <2>3. ASSUME NEW r \in FbaPlans, NEW s \in FbaPlans, s = Merged(r, set, DOMAIN set),
                 Match(r, Loaded(row[i], looked \cup DOMAIN set))
          PROVE  Keeps(r, s, 0)
      <3>1. /\ r.status = "submitted" /\ r.suggested = row[i].suggested /\ r.kind = "fba_plan"
            /\ r.suggested \in Nat /\ "count" \notin DOMAIN r
        BY <2>1, <2>3 DEF Match, Loaded, FbaPlans
      <3>2. /\ s.status = "approved" /\ s.approved = q /\ s.suggested = r.suggested
            /\ s.kind = "fba_plan"
        BY <2>1, <2>3 DEF Merged, FbaPlans
      <3> QED
        BY <2>1, <3>1, <3>2, TransfersKeeps DEF TransfersDated, TransfersFinal, Settled
    <2> QED
      BY <1>1, <2>1, <2>2, <2>3, TransfersTables, PlainStep
  <1> QED
    BY <1>2, <1>3

\* The requests on a row of kind stock_alert.
LEMMA StockAlertSteps ==
    ASSUME RInv, NEW d \in Desks, NEW i \in Ids,
           StockAlertAcknowledge(d, i) \/ StockAlertResolve(d, i)
    PROVE  SoundStep
  <1>1. row[i].kind = "stock_alert" /\ row[i] # NoRow /\ row[i] \in StockAlerts
    BY NoRowKind, TransfersTables DEF StockAlertAcknowledge, StockAlertResolve, Opens, RInv,
                                      RowSound, InTable
  <1>2. CASE StockAlertAcknowledge(d, i)
    <2>1. PICK looked, set :
             /\ Sets(d, i, looked, set)
             /\ set = [status |-> "acknowledged"] /\ looked = {}
      BY <1>2 DEF StockAlertAcknowledge
    <2>2. Typed(StockAlerts, set)
      BY <2>1 DEF Typed, Merged, StockAlerts, FixedColumns
    <2>3. ASSUME NEW r \in StockAlerts, NEW s \in StockAlerts, s = Merged(r, set, DOMAIN set),
                 Match(r, Loaded(row[i], looked \cup DOMAIN set))
          PROVE  Keeps(r, s, 0)
      BY <2>1, <2>3, TransfersKeeps DEF Match, Loaded, Merged, StockAlerts, TransfersDated,
                                        TransfersFinal, Settled
    <2> QED
      BY <1>1, <2>1, <2>2, <2>3, TransfersTables, PlainStep
  <1>3. CASE StockAlertResolve(d, i)
    <2>1. PICK looked, set :
             /\ Sets(d, i, looked, set)
             /\ set = [status |-> "resolved", resolved_at |-> TRUE] /\ looked = {}
      BY <1>3 DEF StockAlertResolve
    <2>2. Typed(StockAlerts, set)
      BY <2>1 DEF Typed, Merged, StockAlerts, FixedColumns
    <2>3. ASSUME NEW r \in StockAlerts, NEW s \in StockAlerts, s = Merged(r, set, DOMAIN set),
                 Match(r, Loaded(row[i], looked \cup DOMAIN set))
          PROVE  Keeps(r, s, 0)
      BY <2>1, <2>3, TransfersKeeps DEF Match, Loaded, Merged, StockAlerts, TransfersDated,
                                        TransfersFinal, Settled
    <2> QED
      BY <1>1, <2>1, <2>2, <2>3, TransfersTables, PlainStep
  <1> QED
    BY <1>2, <1>3

\* The requests on a row of kind alert_instance.
LEMMA AlertInstanceSteps ==
    ASSUME RInv, NEW d \in Desks, NEW i \in Ids,
           InstanceAcknowledge(d, i) \/ InstanceResolve(d, i)
    PROVE  SoundStep
  <1>1. row[i].kind = "alert_instance" /\ row[i] # NoRow /\ row[i] \in AlertInstances
    BY NoRowKind, TransfersTables DEF InstanceAcknowledge, InstanceResolve, Opens, RInv,
                                      RowSound, InTable
  <1>2. CASE InstanceAcknowledge(d, i)
    <2>1. PICK looked, set :
             /\ Sets(d, i, looked, set)
             /\ set = [status |-> "acknowledged"] /\ looked = {}
      BY <1>2 DEF InstanceAcknowledge
    <2>2. Typed(AlertInstances, set)
      BY <2>1 DEF Typed, Merged, AlertInstances, FixedColumns
    <2>3. ASSUME NEW r \in AlertInstances, NEW s \in AlertInstances, s = Merged(r, set, DOMAIN set),
                 Match(r, Loaded(row[i], looked \cup DOMAIN set))
          PROVE  Keeps(r, s, 0)
      BY <2>1, <2>3, TransfersKeeps DEF Match, Loaded, Merged, AlertInstances, TransfersDated,
                                        TransfersFinal, Settled
    <2> QED
      BY <1>1, <2>1, <2>2, <2>3, TransfersTables, PlainStep
  <1>3. CASE InstanceResolve(d, i)
    <2>1. PICK looked, set :
             /\ Sets(d, i, looked, set)
             /\ set = [status |-> "resolved", resolved_at |-> TRUE] /\ looked = {}
      BY <1>3 DEF InstanceResolve
    <2>2. Typed(AlertInstances, set)
      BY <2>1 DEF Typed, Merged, AlertInstances, FixedColumns
    <2>3. ASSUME NEW r \in AlertInstances, NEW s \in AlertInstances, s = Merged(r, set, DOMAIN set),
                 Match(r, Loaded(row[i], looked \cup DOMAIN set))
          PROVE  Keeps(r, s, 0)
      BY <2>1, <2>3, TransfersKeeps DEF Match, Loaded, Merged, AlertInstances, TransfersDated,
                                        TransfersFinal, Settled
    <2> QED
      BY <1>1, <2>1, <2>2, <2>3, TransfersTables, PlainStep
  <1> QED
    BY <1>2, <1>3

\* The requests on a row of kind business_alert.
LEMMA BusinessAlertSteps ==
    ASSUME RInv, NEW d \in Desks, NEW i \in Ids,
           TriggerBusinessAlert(d, i)
    PROVE  SoundStep
  <1>1. row[i].kind = "business_alert" /\ row[i] # NoRow /\ row[i] \in BusinessAlerts
    BY NoRowKind, TransfersTables DEF TriggerBusinessAlert, Opens, RInv, RowSound, InTable
  <1>2. CASE TriggerBusinessAlert(d, i)
    <2>1. PICK looked, set, new, gain, gains :
             /\ Takes(d, Only(i, looked), Only(i, set), new, gains)
             /\ looked = {"count"} /\ set = [count |-> row[i].count + 1]
             /\ new = [kind |-> "alert_instance", status |-> "open", resolved_at |-> FALSE,
                       of |-> i]
             /\ gain = 1 /\ gain \in Int /\ gains = Only(i, gain)
      BY <1>2 DEF TriggerBusinessAlert
    <2>2. InTable(new) /\ Good(new) /\ Lasting(new) /\ Refers(new)
      <3>1. new \in AlertInstances
        BY <2>1 DEF AlertInstances
      <3> QED
        BY <2>1, <3>1, TransfersTables, TransfersRows
           DEF InTable, TransfersDated, Settled, Lasting, Refers
    <2>3. Typed(BusinessAlerts, set)
      BY <1>1, <2>1 DEF Typed, Merged, BusinessAlerts, FixedColumns
    <2>4. ASSUME NEW r \in BusinessAlerts, NEW s \in BusinessAlerts,
                 s = Merged(r, set, DOMAIN set), Match(r, Loaded(row[i], looked))
          PROVE  Keeps(r, s, gain)
      BY <1>1, <2>1, <2>4, TransfersKeeps DEF Match, Loaded, Merged, BusinessAlerts,
                                              TransfersDated, TransfersFinal, Settled
    <2>5. May(i, looked, set, gain)
      <3>1. DOMAIN set \subseteq looked
        BY <2>1
      <3> QED
        BY <1>1, <2>3, <2>4, <3>1, TransfersTables, PlainMay, ZenonT(60)
    <2>6. "count" \notin DOMAIN new /\ new.kind = "alert_instance"
      BY <2>1
    <2>7. Takes(d, Only(i, looked), Only(i, set), new, gains) /\ gain \in Int /\ gains = Only(i, gain)
      BY <2>1
    <2> QED
      BY <1>1, <2>2, <2>5, <2>6, <2>7, WritesAndAddsStep
  <1> QED
    BY <1>2

-----------------------------------------------------------------------------
(* Paperwork *)

\* Its tables, and what being final and being dated come to for their rows.
LEMMA PaperworkTables ==
    /\ TableOfKind["voucher_template"] = VoucherTemplates /\ TableOfKind["voucher"] = Vouchers
    /\ TableOfKind["refund"] = Refunds /\ TableOfKind["promotion"] = Promotions
    /\ TableOfKind["pms_action"] = PmsActions /\ TableOfKind["review_task"] = ReviewTasks
  BY DEF TableOfKind

LEMMA PaperworkRows ==
    ASSUME NEW r,
           r.kind \in {"voucher_template", "voucher", "refund", "promotion", "pms_action",
                           "review_task"}
    PROVE  /\ Final(r) <=> PaperworkFinal(r)
           /\ Good(r) <=> PaperworkDated(r) /\ Settled(r)
           /\ r.kind \in Kinds
  BY DEF Final, FbaFinal, CrmFinal, SomFinal, PdmFinal, AdsFinal, TransfersFinal,
         IntegrationFinal, Good, Dated, FbaDated, CrmDated, PdmDated, TransfersDated,
         IntegrationDated, Offered, Kinds, TableOfKind

LEMMA PaperworkKeeps ==
    ASSUME NEW r, NEW s, NEW gain, s.kind = r.kind,
           r.kind \in {"voucher_template", "voucher", "refund", "promotion", "pms_action",
                           "review_task"},
           PaperworkFinal(r) => s.status = r.status,
           PaperworkDated(r) /\ Settled(r) => PaperworkDated(s) /\ Settled(s),
           "count" \in DOMAIN r => s.count = r.count + gain
    PROVE  Keeps(r, s, gain)
  BY PaperworkRows DEF Keeps

\* The requests that insert a row and read none.
LEMMA PaperworkInserts ==
    ASSUME RInv,
           CreateTemplate \/ CreateAction \/ SubmitReview \/ CreateRefund \/ CreatePromotion
    PROVE  SoundStep
  <1>1. CASE CreateTemplate
    <2>1. PICK r :
             /\ Inserts(r)
             /\ r = [kind |-> "voucher_template", active |-> TRUE, count |-> 0]
      BY <1>1 DEF CreateTemplate
    <2>2. r \in VoucherTemplates /\ PaperworkDated(r) /\ Settled(r)
      BY <2>1 DEF VoucherTemplates, PaperworkDated, Settled
    <2>3. InTable(r) /\ Good(r) /\ Lasting(r)
      BY <2>1, <2>2, PaperworkTables, PaperworkRows DEF InTable, Lasting
    <2> QED
      BY <2>1, <2>3, InsertStep
  <1>2. CASE CreateAction
    <2>1. PICK r :
             /\ Inserts(r)
             /\ r = [kind |-> "pms_action", status |-> "pending"]
      BY <1>2 DEF CreateAction
    <2>2. r \in PmsActions /\ PaperworkDated(r) /\ Settled(r)
      BY <2>1 DEF PmsActions, PaperworkDated, Settled
    <2>3. InTable(r) /\ Good(r) /\ Lasting(r)
      BY <2>1, <2>2, PaperworkTables, PaperworkRows DEF InTable, Lasting
    <2> QED
      BY <2>1, <2>3, InsertStep
  <1>3. CASE SubmitReview
    <2>1. PICK t, r :
             /\ Inserts(r)
             /\ r = [kind |-> "review_task", reviewed_at |-> FALSE, status |-> t]
             /\ t \in {"pending_manual", "auto_passed"} /\ t \notin {"approved", "rejected"}
      BY <1>3 DEF SubmitReview
    <2>2. r \in ReviewTasks /\ PaperworkDated(r) /\ Settled(r)
      <3>1. r \in ReviewTasks
        BY <2>1 DEF ReviewTasks
      <3>2. /\ r.kind = "review_task" /\ r.status \notin {"approved", "rejected"}
            /\ r.reviewed_at \in BOOLEAN /\ ~r.reviewed_at
        BY <2>1
      <3> QED
        BY <3>1, <3>2 DEF PaperworkDated, Settled
    <2>3. InTable(r) /\ Good(r) /\ Lasting(r)
      BY <2>1, <2>2, PaperworkTables, PaperworkRows DEF InTable, Lasting
    <2> QED
      BY <2>1, <2>3, InsertStep
  <1>4. CASE CreateRefund
    <2>1. PICK r :
             /\ Inserts(r)
             /\ r = [kind |-> "refund", status |-> "pending", processed_at |-> FALSE]
      BY <1>4 DEF CreateRefund, RefundMoves
    <2>2. r \in Refunds /\ PaperworkDated(r) /\ Settled(r)
      BY <2>1 DEF Refunds, PaperworkDated, Settled, RefundMoves
    <2>3. InTable(r) /\ Good(r) /\ Lasting(r)
      BY <2>1, <2>2, PaperworkTables, PaperworkRows DEF InTable, Lasting
    <2> QED
      BY <2>1, <2>3, InsertStep
  <1>5. CASE CreatePromotion
    <2>1. PICK r :
             /\ Inserts(r)
             /\ r = [kind |-> "promotion", status |-> "draft", deleted |-> FALSE]
      BY <1>5 DEF CreatePromotion, PromotionMoves
    <2>2. r \in Promotions /\ PaperworkDated(r) /\ Settled(r)
      BY <2>1 DEF Promotions, PaperworkDated, Settled, PromotionMoves
    <2>3. InTable(r) /\ Good(r) /\ Lasting(r)
      BY <2>1, <2>2, PaperworkTables, PaperworkRows DEF InTable, Lasting
    <2> QED
      BY <2>1, <2>3, InsertStep
  <1> QED
    BY <1>1, <1>2, <1>3, <1>4, <1>5

\* The requests on a row of kind voucher_template.
LEMMA VoucherTemplateSteps ==
    ASSUME RInv, NEW d \in Desks, NEW i \in Ids,
           UpdateTemplate(d, i) \/ DeactivateTemplate(d, i) \/ GenerateVoucher(d, i)
    PROVE  SoundStep
  <1>1. row[i].kind = "voucher_template" /\ row[i] # NoRow /\ row[i] \in VoucherTemplates
    BY NoRowKind, PaperworkTables DEF UpdateTemplate, DeactivateTemplate, GenerateVoucher,
                                      Opens, RInv, RowSound, InTable
  <1>2. CASE UpdateTemplate(d, i)
    <2>1. PICK looked, set, gain :
             /\ Counts(d, i, looked, set, gain) /\ gain = 1 /\ gain \in Int
             /\ set = [count |-> row[i].count + 1] /\ looked = {}
      BY <1>1, <1>2 DEF UpdateTemplate, VoucherTemplates
    <2>2. Typed(VoucherTemplates, set)
      BY <1>1, <2>1 DEF Typed, Merged, VoucherTemplates, FixedColumns
    <2>3. ASSUME NEW r \in VoucherTemplates, NEW s \in VoucherTemplates, s = Merged(r, set, DOMAIN set),
                 Match(r, Loaded(row[i], looked \cup DOMAIN set))
          PROVE  Keeps(r, s, gain)
      BY <1>1, <2>1, <2>3, PaperworkKeeps DEF Match, Loaded, Merged, VoucherTemplates,
             PaperworkDated, PaperworkFinal, Settled
    <2>4. Counts(d, i, looked, set, gain) /\ gain \in Int
      BY <2>1
    <2> QED
      BY <1>1, <2>2, <2>3, <2>4, PaperworkTables, PlainCountsStep, ZenonT(60)
  <1>3. CASE DeactivateTemplate(d, i)
    <2>1. PICK looked, set :
             /\ Sets(d, i, looked, set)
             /\ set = [active |-> FALSE] /\ looked = {}
      BY <1>3 DEF DeactivateTemplate
    <2>2. Typed(VoucherTemplates, set)
      BY <2>1 DEF Typed, Merged, VoucherTemplates, FixedColumns
    <2>3. ASSUME NEW r \in VoucherTemplates, NEW s \in VoucherTemplates, s = Merged(r, set, DOMAIN set),
                 Match(r, Loaded(row[i], looked \cup DOMAIN set))
          PROVE  Keeps(r, s, 0)
      BY <2>1, <2>3, PaperworkKeeps DEF Match, Loaded, Merged, VoucherTemplates, PaperworkDated,
                                        PaperworkFinal, Settled
    <2> QED
      BY <1>1, <2>1, <2>2, <2>3, PaperworkTables, PlainStep
  <1>4. CASE GenerateVoucher(d, i)
    <2>1. PICK looked, new :
             /\ Adds(d, i, looked, new)
             /\ row[i].active
             /\ new = [kind |-> "voucher", status |-> "draft", posted_at |-> FALSE, pushed_at |-> FALSE,
                       of |-> i]
             /\ looked = {"active"}
      BY <1>4 DEF GenerateVoucher
    <2>2. new \in Vouchers /\ PaperworkDated(new) /\ Settled(new)
      BY <1>1, <2>1 DEF Vouchers, PaperworkDated, Settled
    <2>3. InTable(new) /\ Good(new) /\ Lasting(new)
      BY <2>1, <2>2, PaperworkTables, PaperworkRows DEF InTable, Lasting
    <2>4. PICK l : l = Loaded(row[i], looked)
      OBVIOUS
    <2>5. Living(row[i].kind, l)
      BY <1>1, <2>1, <2>4 DEF Living, Match, Loaded, ClosedToDetails
    <2> QED
      BY <1>1, <2>1, <2>3, <2>4, <2>5, AddsStep
  <1> QED
    BY <1>2, <1>3, <1>4

\* The requests on a row of kind voucher.
LEMMA VoucherSteps ==
    ASSUME RInv, NEW d \in Desks, NEW i \in Ids,
           PostVoucher(d, i) \/ CancelVoucher(d, i) \/ PushToExternal(d, i)
    PROVE  SoundStep
  <1>1. row[i].kind = "voucher" /\ row[i] # NoRow /\ row[i] \in Vouchers
    BY NoRowKind, PaperworkTables DEF PostVoucher, CancelVoucher, PushToExternal, Opens, RInv,
                                      RowSound, InTable
  <1>2. CASE PostVoucher(d, i)
    <2>1. PICK looked, set :
             /\ Sets(d, i, looked, set)
             /\ row[i].status = "draft"
             /\ set = [status |-> "posted", posted_at |-> TRUE] /\ looked = {"status"}
      BY <1>2 DEF PostVoucher
    <2>2. Typed(Vouchers, set)
      BY <2>1 DEF Typed, Merged, Vouchers, FixedColumns
    <2>3. ASSUME NEW r \in Vouchers, NEW s \in Vouchers, s = Merged(r, set, DOMAIN set),
                 Match(r, Loaded(row[i], looked \cup DOMAIN set))
          PROVE  Keeps(r, s, 0)
      BY <2>1, <2>3, PaperworkKeeps DEF Match, Loaded, Merged, Vouchers, PaperworkDated,
                                        PaperworkFinal, Settled
    <2> QED
      BY <1>1, <2>1, <2>2, <2>3, PaperworkTables, PlainStep
  <1>3. CASE CancelVoucher(d, i)
    <2>1. PICK looked, set :
             /\ Sets(d, i, looked, set)
             /\ row[i].status # "posted"
             /\ set = [status |-> "cancelled"] /\ looked = {"status"}
      BY <1>3 DEF CancelVoucher
    <2>2. Typed(Vouchers, set)
      BY <2>1 DEF Typed, Merged, Vouchers, FixedColumns
    <2>3. ASSUME NEW r \in Vouchers, NEW s \in Vouchers, s = Merged(r, set, DOMAIN set),
                 Match(r, Loaded(row[i], looked \cup DOMAIN set))
          PROVE  Keeps(r, s, 0)
      BY <2>1, <2>3, PaperworkKeeps DEF Match, Loaded, Merged, Vouchers, PaperworkDated,
                                        PaperworkFinal, Settled
    <2> QED
      BY <1>1, <2>1, <2>2, <2>3, PaperworkTables, PlainStep
  <1>4. CASE PushToExternal(d, i)
    <2>1. PICK looked, set :
             /\ Sets(d, i, looked, set)
             /\ row[i].status = "posted"
             /\ set = [status |-> "pushed", pushed_at |-> TRUE] /\ looked = {"status"}
      BY <1>4 DEF PushToExternal
    <2>2. Typed(Vouchers, set)
      BY <2>1 DEF Typed, Merged, Vouchers, FixedColumns
    <2>3. ASSUME NEW r \in Vouchers, NEW s \in Vouchers, s = Merged(r, set, DOMAIN set),
                 Match(r, Loaded(row[i], looked \cup DOMAIN set))
          PROVE  Keeps(r, s, 0)
      BY <2>1, <2>3, PaperworkKeeps DEF Match, Loaded, Merged, Vouchers, PaperworkDated,
                                        PaperworkFinal, Settled
    <2> QED
      BY <1>1, <2>1, <2>2, <2>3, PaperworkTables, PlainStep
  <1> QED
    BY <1>2, <1>3, <1>4

\* The requests on a row of kind refund.
LEMMA RefundSteps ==
    ASSUME RInv, NEW d \in Desks, NEW i \in Ids,
           UpdateRefundStatus(d, i)
    PROVE  SoundStep
  <1>1. row[i].kind = "refund" /\ row[i] # NoRow /\ row[i] \in Refunds
    BY NoRowKind, PaperworkTables DEF UpdateRefundStatus, Opens, RInv, RowSound, InTable
  <1>2. CASE UpdateRefundStatus(d, i)
    <2>1. PICK t, p, looked, set :
             /\ t \in RefundMoves[row[i].status] /\ Sets(d, i, looked, set) /\ looked = {}
             /\ p = (t = "completed") /\ set = [status |-> t, processed_at |-> p]
      BY <1>2 DEF UpdateRefundStatus
    <2>2. t \in DOMAIN RefundMoves /\ p \in BOOLEAN
      BY <1>1, <2>1 DEF Refunds, RefundMoves
    <2>3. Typed(Refunds, set)
      BY <2>1, <2>2 DEF Typed, Merged, Refunds, FixedColumns
    <2>4. ASSUME NEW r \in Refunds, NEW s \in Refunds, s = Merged(r, set, DOMAIN set),
                 Match(r, Loaded(row[i], looked \cup DOMAIN set))
          PROVE  Keeps(r, s, 0)
      <3>1. t \in RefundMoves[r.status] /\ r.status \in DOMAIN RefundMoves
        BY <2>1, <2>4 DEF Match, Loaded, Refunds
      <3>2. /\ s.status = t /\ s.processed_at = (t = "completed")
            /\ s.kind = "refund" /\ r.kind = "refund" /\ "count" \notin DOMAIN r
        BY <2>1, <2>4 DEF Merged, Refunds
      <3>3. ~PaperworkFinal(r)
        BY <3>1, <3>2 DEF PaperworkFinal, RefundMoves
      <3> QED
        BY <3>2, <3>3, PaperworkKeeps DEF PaperworkDated, Settled
    <2> QED
      BY <1>1, <2>1, <2>3, <2>4, PaperworkTables, PlainStep
  <1> QED
    BY <1>2

\* One answer to several refunds, of which it moves those it may.
LEMMA BatchApproveStep ==
    ASSUME RInv, NEW d \in Desks, BatchApproveRefunds(d)
    PROVE  SoundStep
  <1>1. PICK refunds, able, t, read, set :
           /\ refunds \subseteq Ids /\ able \subseteq refunds /\ t \in {"approved", "rejected"}
           /\ \A i \in refunds : row[i].kind = "refund"
           /\ \A i \in able : t \in RefundMoves[row[i].status]
           /\ read = [i \in refunds |-> {"status"}] /\ set = [i \in able |-> [status |-> t]]
           /\ Takes(d, read, set, NoRow, None)
    <2>1. PICK refunds, able, t :
             /\ refunds \in SUBSET RowsOf("refund") /\ t \in {"approved", "rejected"}
             /\ able = {i \in refunds : t \in RefundMoves[row[i].status]}
             /\ Takes(d, [i \in refunds |-> {"status"}], [i \in able |-> [status |-> t]],
                      NoRow, None)
      BY DEF BatchApproveRefunds
    <2>2. /\ refunds \subseteq Ids /\ \A i \in refunds : row[i].kind = "refund"
          /\ able \subseteq refunds /\ \A i \in able : t \in RefundMoves[row[i].status]
      BY <2>1 DEF RowsOf
    <2> QED
      BY <2>1, <2>2
  <1>2. ASSUME NEW i \in refunds PROVE row[i] # NoRow /\ row[i] \in Refunds /\ row[i].kind = "refund"
    BY <1>1, NoRowKind, PaperworkTables DEF RInv, RowSound, InTable
  <1>3. ASSUME NEW i \in able PROVE May(i, read[i], set[i], 0)
    <2>1. PICK looked, s0 : looked = {"status"} /\ s0 = [status |-> t]
      OBVIOUS
    <2>2. Typed(Refunds, s0)
      <3>1. t \in DOMAIN RefundMoves
        BY <1>1 DEF RefundMoves
      <3> QED
        BY <2>1, <3>1 DEF Typed, Merged, Refunds, FixedColumns
    <2>3. ASSUME NEW r \in Refunds, NEW s \in Refunds, s = Merged(r, s0, DOMAIN s0),
                 Match(r, Loaded(row[i], looked))
          PROVE  Keeps(r, s, 0)
      <3>1. t \in RefundMoves[r.status] /\ r.status \in DOMAIN RefundMoves
        BY <1>1, <1>3, <2>1, <2>3 DEF Match, Loaded, Refunds
      <3>2. /\ s.status = t /\ s.processed_at = r.processed_at
            /\ s.kind = "refund" /\ r.kind = "refund" /\ "count" \notin DOMAIN r
        BY <2>1, <2>3 DEF Merged, Refunds
      <3>3. ~PaperworkFinal(r) /\ r.status # "completed"
        BY <3>1, <3>2 DEF PaperworkFinal, RefundMoves
      <3> QED
        BY <1>1, <3>2, <3>3, PaperworkKeeps DEF PaperworkDated, Settled
    <2>4. row[i].kind = "refund"
      BY <1>1, <1>2
    <2>5. May(i, looked, s0, 0)
      BY <2>1, <2>2, <2>3, <2>4, PaperworkTables, PlainMay
    <2> QED
      BY <1>1, <2>1, <2>5
  <1>4. DOMAIN None = {}
    BY DEF None
  <1>5. DOMAIN read = refunds /\ DOMAIN set = able
    BY <1>1
  <1> QED
    BY <1>1, <1>2, <1>3, <1>4, <1>5, SeveralStep
\* The requests on a row of kind promotion.
LEMMA PromotionSteps ==
    ASSUME RInv, NEW d \in Desks, NEW i \in Ids,
           UpdatePromotionStatus(d, i) \/ DeletePromotion(d, i)
    PROVE  SoundStep
  <1>1. row[i].kind = "promotion" /\ row[i] # NoRow /\ row[i] \in Promotions
    BY NoRowKind, PaperworkTables DEF UpdatePromotionStatus, DeletePromotion, Opens, RInv,
                                      RowSound, InTable
  <1>2. CASE UpdatePromotionStatus(d, i)
    <2>1. PICK t, looked, set :
             /\ t \in PromotionMoves[row[i].status]
             /\ ~row[i].deleted
             /\ Sets(d, i, looked, set) /\ looked = {"deleted"}
             /\ set = [status |-> t]
      BY <1>2 DEF UpdatePromotionStatus
    <2>2. /\ DOMAIN set \subseteq {"status"}
          /\ set.status = t /\ t \in DOMAIN PromotionMoves
      BY <1>1, <2>1 DEF Promotions, PromotionMoves
    <2>3. Typed(Promotions, set)
      BY <2>2 DEF Typed, Merged, Promotions, FixedColumns
    <2>4. ASSUME NEW r \in Promotions, NEW s \in Promotions, s = Merged(r, set, DOMAIN set),
                 Match(r, Loaded(row[i], looked \cup DOMAIN set))
          PROVE  Keeps(r, s, 0)
      <3>1. t \in PromotionMoves[r.status] /\ r.status \in DOMAIN PromotionMoves
        BY <2>1, <2>4 DEF Match, Loaded, Promotions
      <3>2. /\ s.status = t /\ s.kind = r.kind /\ "count" \notin DOMAIN r /\ r.kind = "promotion"
            /\ ~r.deleted /\ ~s.deleted
        BY <2>1, <2>4 DEF Merged, Promotions, Match, Loaded
      <3>3. ~PaperworkFinal(r)
        BY <3>1, <3>2 DEF PaperworkFinal, PromotionMoves
      <3>4. PaperworkDated(r) /\ Settled(r) => PaperworkDated(s) /\ Settled(s)
        BY <3>2 DEF PaperworkDated, Settled
      <3> QED
        BY <3>2, <3>3, <3>4, PaperworkKeeps
    <2> QED
      BY <1>1, <2>1, <2>3, <2>4, PaperworkTables, PlainStep
  <1>3. CASE DeletePromotion(d, i)
    <2>1. PICK looked, set :
             /\ Sets(d, i, looked, set)
             /\ row[i].status # "active"
             /\ set = [deleted |-> TRUE] /\ looked = {"status"}
      BY <1>3 DEF DeletePromotion
    <2>2. Typed(Promotions, set)
      BY <2>1 DEF Typed, Merged, Promotions, FixedColumns
    <2>3. ASSUME NEW r \in Promotions, NEW s \in Promotions, s = Merged(r, set, DOMAIN set),
                 Match(r, Loaded(row[i], looked \cup DOMAIN set))
          PROVE  Keeps(r, s, 0)
      BY <2>1, <2>3, PaperworkKeeps DEF Match, Loaded, Merged, Promotions, PaperworkDated,
                                        PaperworkFinal, Settled
    <2> QED
      BY <1>1, <2>1, <2>2, <2>3, PaperworkTables, PlainStep
  <1> QED
    BY <1>2, <1>3

\* The requests on a row of kind pms_action.
LEMMA PmsActionSteps ==
    ASSUME RInv, NEW d \in Desks, NEW i \in Ids,
           MoveAction(d, i)
    PROVE  SoundStep
  <1>1. row[i].kind = "pms_action" /\ row[i] # NoRow /\ row[i] \in PmsActions
    BY NoRowKind, PaperworkTables DEF MoveAction, Opens, RInv, RowSound, InTable
  <1>2. CASE MoveAction(d, i)
    <2>1. PICK t, looked, set :
             /\ row[i].status \in DOMAIN ActionMoves /\ t \in ActionMoves[row[i].status]
             /\ t \in {"approved", "rejected", "expired", "executed", "failed"}
             /\ Sets(d, i, looked, set) /\ looked = {"status"} /\ set = [status |-> t]
      BY <1>2 DEF MoveAction, Follows, Only
    <2>2. Typed(PmsActions, set)
      BY <2>1 DEF Typed, Merged, PmsActions, FixedColumns
    <2>3. ASSUME NEW r \in PmsActions, NEW s \in PmsActions, s = Merged(r, set, DOMAIN set),
                 Match(r, Loaded(row[i], looked \cup DOMAIN set))
          PROVE  Keeps(r, s, 0)
      <3>1. /\ r.status \in DOMAIN ActionMoves /\ r.kind = "pms_action" /\ s.kind = "pms_action"
            /\ "count" \notin DOMAIN r
        BY <2>1, <2>3 DEF Match, Loaded, Merged, PmsActions
      <3> QED
        BY <3>1, PaperworkKeeps DEF PaperworkDated, PaperworkFinal, Settled, ActionMoves
    <2> QED
      BY <1>1, <2>1, <2>2, <2>3, PaperworkTables, PlainStep
  <1> QED
    BY <1>2

\* The requests on a row of kind review_task.
LEMMA ReviewTaskSteps ==
    ASSUME RInv, NEW d \in Desks, NEW i \in Ids,
           ManualReview(d, i)
    PROVE  SoundStep
  <1>1. row[i].kind = "review_task" /\ row[i] # NoRow /\ row[i] \in ReviewTasks
    BY NoRowKind, PaperworkTables DEF ManualReview, Opens, RInv, RowSound, InTable
  <1>2. CASE ManualReview(d, i)
    <2>1. PICK t, looked, set :
             /\ Sets(d, i, looked, set)
             /\ t \in {"approved", "rejected"}
             /\ row[i].status = "pending_manual"
             /\ set = [status |-> t, reviewed_at |-> TRUE] /\ looked = {"status"}
      BY <1>2 DEF ManualReview
    <2>2. Typed(ReviewTasks, set)
      BY <2>1 DEF Typed, Merged, ReviewTasks, FixedColumns
    <2>3. ASSUME NEW r \in ReviewTasks, NEW s \in ReviewTasks, s = Merged(r, set, DOMAIN set),
                 Match(r, Loaded(row[i], looked \cup DOMAIN set))
          PROVE  Keeps(r, s, 0)
      BY <2>1, <2>3, PaperworkKeeps DEF Match, Loaded, Merged, ReviewTasks, PaperworkDated,
                                        PaperworkFinal, Settled
    <2> QED
      BY <1>1, <2>1, <2>2, <2>3, PaperworkTables, PlainStep
  <1> QED
    BY <1>2

-----------------------------------------------------------------------------
(* Integration *)

\* Its tables, and what being final and being dated come to for their rows.
LEMMA IntegrationTables ==
    /\ TableOfKind["subscription"] = Subscriptions /\ TableOfKind["delivery"] = Deliveries
    /\ TableOfKind["cdc_event"] = CdcRecords /\ TableOfKind["suggestion"] = Suggestions
    /\ TableOfKind["ai_switch"] = AiSwitches /\ TableOfKind["rollout"] = Rollouts
    /\ TableOfKind["pms_recommendation"] = PmsRecommendations /\ TableOfKind["pms_draft"] = PmsDrafts
    /\ TableOfKind["store_auth"] = StoreAuths /\ TableOfKind["secret"] = Secrets
    /\ TableOfKind["connector"] = Connectors /\ TableOfKind["import"] = Imports
  BY DEF TableOfKind

LEMMA IntegrationRows ==
    ASSUME NEW r,
           r.kind \in {"subscription", "delivery", "cdc_event", "suggestion", "ai_switch",
                           "rollout", "pms_recommendation", "pms_draft", "store_auth", "secret",
                           "connector", "import"}
    PROVE  /\ Final(r) <=> IntegrationFinal(r)
           /\ Good(r) <=> IntegrationDated(r) /\ Settled(r)
           /\ r.kind \in Kinds
  BY DEF Final, FbaFinal, CrmFinal, SomFinal, PdmFinal, AdsFinal, TransfersFinal,
         PaperworkFinal, Good, Dated, FbaDated, CrmDated, PdmDated, TransfersDated,
         PaperworkDated, Offered, Kinds, TableOfKind

LEMMA IntegrationKeeps ==
    ASSUME NEW r, NEW s, NEW gain, s.kind = r.kind,
           r.kind \in {"subscription", "delivery", "cdc_event", "suggestion", "ai_switch",
                           "rollout", "pms_recommendation", "pms_draft", "store_auth", "secret",
                           "connector", "import"},
           IntegrationFinal(r) => s.status = r.status,
           IntegrationDated(r) /\ Settled(r) => IntegrationDated(s) /\ Settled(s),
           "count" \in DOMAIN r => s.count = r.count + gain
    PROVE  Keeps(r, s, gain)
  BY IntegrationRows DEF Keeps

\* The requests that insert a row and read none.
LEMMA IntegrationInserts ==
    ASSUME RInv,
           SubscriptionCreate \/ IngestEvent \/ ReceiveSuggestion \/ SetSwitch \/
           CreateConfig \/ AdapterReceive \/ ReceiveDraft \/ AuthorizeNew \/ StoreSecret \/
           CreateConnector \/ CreateImportJob
    PROVE  SoundStep
  <1>1. CASE SubscriptionCreate
    <2>1. PICK r : /\ Inserts(r)
                   /\ r = [kind |-> "subscription", status |-> "active", failures |-> 0,
                           gone |-> FALSE]
      BY <1>1 DEF SubscriptionCreate
    <2>2. r \in Subscriptions /\ IntegrationDated(r) /\ Settled(r)
      BY <2>1 DEF Subscriptions, IntegrationDated, Settled
    <2>3. InTable(r) /\ Good(r) /\ Lasting(r)
      BY <2>1, <2>2, IntegrationTables, IntegrationRows DEF InTable, Lasting
    <2> QED
      BY <2>1, <2>3, InsertStep
  <1>2. CASE IngestEvent
    <2>1. PICK r : /\ Inserts(r)
                   /\ r = [kind |-> "cdc_event", status |-> "pending", retries |-> 0,
                           processed_at |-> FALSE]
      BY <1>2, IntegrationAssumption DEF IngestEvent
    <2>2. r \in CdcRecords /\ IntegrationDated(r) /\ Settled(r)
      <3>1. 0 \in 0..MaxRetries
        BY IntegrationAssumption
      <3>2. r \in CdcRecords
        BY <2>1, <3>1 DEF CdcRecords
      <3>3. /\ r.kind = "cdc_event" /\ r.status = "pending"
            /\ r.processed_at \in BOOLEAN /\ ~r.processed_at
        BY <2>1
      <3> QED
        BY <3>2, <3>3 DEF IntegrationDated, Settled
    <2>3. InTable(r) /\ Good(r) /\ Lasting(r)
      BY <2>1, <2>2, IntegrationTables, IntegrationRows DEF InTable, Lasting
    <2> QED
      BY <2>1, <2>3, InsertStep, IntegrationAssumption
  <1>3. CASE ReceiveSuggestion
    <2>1. PICK r :
             /\ Inserts(r)
             /\ r = [kind |-> "suggestion", status |-> "pending"]
      BY <1>3 DEF ReceiveSuggestion
    <2>2. r \in Suggestions /\ IntegrationDated(r) /\ Settled(r)
      BY <2>1 DEF Suggestions, IntegrationDated, Settled
    <2>3. InTable(r) /\ Good(r) /\ Lasting(r)
      BY <2>1, <2>2, IntegrationTables, IntegrationRows DEF InTable, Lasting
    <2> QED
      BY <2>1, <2>3, InsertStep
  <1>4. CASE SetSwitch
    <2>1. PICK r :
             /\ Inserts(r)
             /\ r = [kind |-> "ai_switch", count |-> 0]
      BY <1>4 DEF SetSwitch
    <2>2. r \in AiSwitches /\ IntegrationDated(r) /\ Settled(r)
      BY <2>1 DEF AiSwitches, IntegrationDated, Settled
    <2>3. InTable(r) /\ Good(r) /\ Lasting(r)
      BY <2>1, <2>2, IntegrationTables, IntegrationRows DEF InTable, Lasting
    <2> QED
      BY <2>1, <2>3, InsertStep
  <1>5. CASE CreateConfig
    <2>1. PICK p, r :
             /\ Inserts(r)
             /\ r = [kind |-> "rollout", percent |-> p, rolled_back |-> FALSE, count |-> 0]
             /\ p \in {0, 50}
      BY <1>5 DEF CreateConfig
    <2>2. r \in Rollouts /\ IntegrationDated(r) /\ Settled(r)
      BY <2>1 DEF Rollouts, IntegrationDated, Settled
    <2>3. InTable(r) /\ Good(r) /\ Lasting(r)
      BY <2>1, <2>2, IntegrationTables, IntegrationRows DEF InTable, Lasting
    <2> QED
      BY <2>1, <2>3, InsertStep
  <1>6. CASE AdapterReceive
    <2>1. PICK r : /\ Inserts(r)
                   /\ r = [kind |-> "pms_recommendation", status |-> "pending",
                           executed_at |-> FALSE]
      BY <1>6 DEF AdapterReceive
    <2>2. r \in PmsRecommendations /\ IntegrationDated(r) /\ Settled(r)
      BY <2>1 DEF PmsRecommendations, IntegrationDated, Settled
    <2>3. InTable(r) /\ Good(r) /\ Lasting(r)
      BY <2>1, <2>2, IntegrationTables, IntegrationRows DEF InTable, Lasting
    <2> QED
      BY <2>1, <2>3, InsertStep
  <1>7. CASE ReceiveDraft
    <2>1. PICK r :
             /\ Inserts(r)
             /\ r = [kind |-> "pms_draft", status |-> "draft"]
      BY <1>7 DEF ReceiveDraft
    <2>2. r \in PmsDrafts /\ IntegrationDated(r) /\ Settled(r)
      BY <2>1 DEF PmsDrafts, IntegrationDated, Settled
    <2>3. InTable(r) /\ Good(r) /\ Lasting(r)
      BY <2>1, <2>2, IntegrationTables, IntegrationRows DEF InTable, Lasting
    <2> QED
      BY <2>1, <2>3, InsertStep
  <1>8. CASE AuthorizeNew
    <2>1. PICK t, s, r :
             /\ Inserts(r)
             /\ r = [kind |-> "store_auth", status |-> s, active |-> TRUE, token |-> t]
             /\ t \in BOOLEAN /\ s \in {"authorized", "pending"}
      BY <1>8 DEF AuthorizeNew
    <2>2. r \in StoreAuths /\ IntegrationDated(r) /\ Settled(r)
      BY <2>1 DEF StoreAuths, IntegrationDated, Settled
    <2>3. InTable(r) /\ Good(r) /\ Lasting(r)
      BY <2>1, <2>2, IntegrationTables, IntegrationRows DEF InTable, Lasting
    <2> QED
      BY <2>1, <2>3, InsertStep
  <1>9. CASE StoreSecret
    <2>1. PICK r :
             /\ Inserts(r)
             /\ r = [kind |-> "secret", active |-> TRUE, count |-> 0]
      BY <1>9 DEF StoreSecret
    <2>2. r \in Secrets /\ IntegrationDated(r) /\ Settled(r)
      BY <2>1 DEF Secrets, IntegrationDated, Settled
    <2>3. InTable(r) /\ Good(r) /\ Lasting(r)
      BY <2>1, <2>2, IntegrationTables, IntegrationRows DEF InTable, Lasting
    <2> QED
      BY <2>1, <2>3, InsertStep
  <1>10. CASE CreateConnector
    <2>1. PICK r :
             /\ Inserts(r)
             /\ r = [kind |-> "connector", status |-> "draft", is_active |-> TRUE]
      BY <1>10 DEF CreateConnector
    <2>2. r \in Connectors /\ IntegrationDated(r) /\ Settled(r)
      BY <2>1 DEF Connectors, IntegrationDated, Settled
    <2>3. InTable(r) /\ Good(r) /\ Lasting(r)
      BY <2>1, <2>2, IntegrationTables, IntegrationRows DEF InTable, Lasting
    <2> QED
      BY <2>1, <2>3, InsertStep
  <1>11. CASE CreateImportJob
    <2>1. PICK r : /\ Inserts(r)
                   /\ r = [kind |-> "import", status |-> "pending", started_at |-> FALSE,
                           completed_at |-> FALSE]
      BY <1>11 DEF CreateImportJob
    <2>2. r \in Imports /\ IntegrationDated(r) /\ Settled(r)
      BY <2>1 DEF Imports, IntegrationDated, Settled
    <2>3. InTable(r) /\ Good(r) /\ Lasting(r)
      BY <2>1, <2>2, IntegrationTables, IntegrationRows DEF InTable, Lasting
    <2> QED
      BY <2>1, <2>3, InsertStep
  <1> QED
    BY <1>1, <1>2, <1>3, <1>4, <1>5, <1>6, <1>7, <1>8, <1>9, <1>10, <1>11

\* The requests on a row of kind subscription.
LEMMA SubscriptionSteps ==
    ASSUME RInv, NEW d \in Desks, NEW i \in Ids,
           SubscriptionUpdate(d, i) \/ SubscriptionDelete(d, i) \/ TriggerEvent(d, i)
    PROVE  SoundStep
  <1>1. row[i].kind = "subscription" /\ row[i] # NoRow /\ row[i] \in Subscriptions
    BY NoRowKind, IntegrationTables DEF SubscriptionUpdate, SubscriptionDelete, TriggerEvent,
                                        Opens, OpensSubscription, RInv, RowSound, InTable
  <1>2. CASE SubscriptionUpdate(d, i)
    <2>1. PICK t, looked, set :
             /\ Sets(d, i, looked, set)
             /\ t \in {"active", "inactive"}
             /\ set = [status |-> t] /\ looked = {}
      BY <1>2 DEF SubscriptionUpdate
    <2>2. Typed(Subscriptions, set)
      BY <2>1 DEF Typed, Merged, Subscriptions, FixedColumns
    <2>3. ASSUME NEW r \in Subscriptions, NEW s \in Subscriptions, s = Merged(r, set, DOMAIN set),
                 Match(r, Loaded(row[i], looked \cup DOMAIN set))
          PROVE  Keeps(r, s, 0)
      BY <2>1, <2>3, IntegrationKeeps DEF Match, Loaded, Merged, Subscriptions,
                                          IntegrationDated, IntegrationFinal, Settled
    <2> QED
      BY <1>1, <2>1, <2>2, <2>3, IntegrationTables, PlainStep
  <1>3. CASE SubscriptionDelete(d, i)
    <2>1. PICK looked, set :
             /\ Sets(d, i, looked, set)
             /\ set = [gone |-> TRUE] /\ looked = {}
      BY <1>3 DEF SubscriptionDelete
    <2>2. Typed(Subscriptions, set)
      BY <2>1 DEF Typed, Merged, Subscriptions, FixedColumns
    <2>3. ASSUME NEW r \in Subscriptions, NEW s \in Subscriptions, s = Merged(r, set, DOMAIN set),
                 Match(r, Loaded(row[i], looked \cup DOMAIN set))
          PROVE  Keeps(r, s, 0)
      BY <2>1, <2>3, IntegrationKeeps DEF Match, Loaded, Merged, Subscriptions,
                                          IntegrationDated, IntegrationFinal, Settled
    <2> QED
      BY <1>1, <2>1, <2>2, <2>3, IntegrationTables, PlainStep
  <1>4. CASE TriggerEvent(d, i)
    <2>1. PICK looked, set, new, gains :
             /\ Takes(d, Only(i, looked), Only(i, set), new, gains)
             /\ looked = {"status"} /\ set = None
             /\ new = [kind |-> "delivery", status |-> "pending", count |-> 0, of |-> i]
             /\ gains = None
      BY <1>4 DEF TriggerEvent
    <2>2. InTable(new) /\ Good(new) /\ Lasting(new) /\ Refers(new)
      <3>1. new \in Deliveries
        BY <2>1 DEF Deliveries
      <3>2. Refers(new)
        BY <1>1, <2>1 DEF Refers
      <3> QED
        BY <2>1, <3>1, <3>2, IntegrationTables, IntegrationRows
           DEF InTable, IntegrationDated, Settled, Lasting
    <2>3. Typed(Subscriptions, set)
      BY <2>1 DEF Typed, Merged, Subscriptions, FixedColumns, None
    <2>4. ASSUME NEW r \in Subscriptions, NEW s \in Subscriptions,
                 s = Merged(r, set, DOMAIN set)
          PROVE  Keeps(r, s, 0)
      BY <2>1, <2>4, IntegrationKeeps DEF Merged, Subscriptions, IntegrationDated,
                                          IntegrationFinal, Settled, None
    <2>5. May(i, looked, set, 0)
      <3>1. DOMAIN set \subseteq looked
        BY <2>1 DEF None
      <3> QED
        BY <1>1, <2>3, <2>4, <3>1, IntegrationTables, PlainMay
    <2>6. new.count = 0 /\ new.kind = "delivery"
      BY <2>1
    <2>7. PICK gain : gain = 0 /\ gain \in Int
      OBVIOUS
    <2> QED
      BY <1>1, <2>1, <2>2, <2>5, <2>6, <2>7, WritesAndAddsStep
  <1> QED
    BY <1>2, <1>3, <1>4

\* The result of an attempt at delivery i, and what it does to the subscription.
LEMMA WithSubscriptionStep ==
    ASSUME RInv, NEW d \in Desks, NEW i \in Ids, row[i].kind = "delivery", row[i] \in Deliveries,
           row[i] # NoRow, NEW set, NEW subset, WithSubscription(d, i, set, subset),
           DOMAIN set = {"count", "status"}, set.count = row[i].count + 1,
           set.status \in {"success", "retrying", "abandoned"},
           set.status = "retrying" => set.count < MaxRetries,
           set.status = "abandoned" => set.count >= MaxRetries,
           Typed(Subscriptions, subset)
    PROVE  SoundStep
  <1>1. PICK sub : sub = row[i].of /\ sub \in Ids /\ row[sub].kind = "subscription"
    BY DEF RInv, RowSound, Refers
  <1>2. row[sub] # NoRow /\ row[sub] \in Subscriptions /\ sub # i
    BY <1>1, NoRowKind, IntegrationTables DEF RInv, RowSound, InTable
  <1>3. PICK one : one = 1 /\ one \in Int
    OBVIOUS
  <1>4. PICK found, read, sets :
           /\ found \subseteq {sub}
           /\ read = Both(Only(i, DOMAIN set), [j \in found |-> DOMAIN subset])
           /\ sets = Both(Only(i, set), [j \in found |-> subset])
           /\ Takes(d, read, sets, NoRow, Only(i, one))
    <2>1. CASE row[sub].gone
      BY <1>1, <1>3, <2>1 DEF WithSubscription, None
    <2>2. CASE ~row[sub].gone
      BY <1>1, <1>3, <2>2 DEF WithSubscription, Only
    <2> QED
      BY <2>1, <2>2
  <1>5. /\ DOMAIN read = {i} \cup found /\ DOMAIN sets = {i} \cup found
        /\ read[i] = {"count", "status"} /\ sets[i] = set
        /\ \A j \in found : j = sub /\ read[j] = DOMAIN subset /\ sets[j] = subset
    BY <1>2, <1>4 DEF Both, Only
  <1>6. May(i, read[i], sets[i], one)
    <2>1. PICK looked : looked = {"count", "status"}
      OBVIOUS
    <2>2. Typed(Deliveries, set)
      BY DEF Typed, Merged, Deliveries, FixedColumns
    <2>3. ASSUME NEW r \in Deliveries, NEW s \in Deliveries, s = Merged(r, set, DOMAIN set),
                 Match(r, Loaded(row[i], looked))
          PROVE  Keeps(r, s, one)
      <3>1. /\ s.count = r.count + one /\ s.status = set.status /\ s.count = set.count
            /\ s.kind = "delivery" /\ r.kind = "delivery"
        BY <1>3, <2>1, <2>3 DEF Match, Loaded, Merged, Deliveries
      <3> QED
        BY <3>1, IntegrationKeeps DEF IntegrationDated, IntegrationFinal, Settled
    <2>4. May(i, looked, set, one)
      BY <2>1, <2>2, <2>3, IntegrationTables, PlainMay
    <2> QED
      BY <1>5, <2>1, <2>4
  <1>7. May(sub, DOMAIN subset, subset, 0)
    <2>1. PICK looked : looked = DOMAIN subset
      OBVIOUS
    <2>2. ASSUME NEW r \in Subscriptions, NEW s \in Subscriptions,
                 s = Merged(r, subset, DOMAIN subset)
          PROVE  Keeps(r, s, 0)
      BY <2>2, IntegrationKeeps DEF Subscriptions, IntegrationDated, IntegrationFinal, Settled
    <2> QED
      BY <1>1, <2>1, <2>2, IntegrationTables, PlainMay
  <1>8. PICK gains : gains = Only(i, one)
    OBVIOUS
  <1>9. DOMAIN gains = {i} /\ gains[i] = one
    BY <1>8 DEF Only
  <1>10. ASSUME NEW j \in DOMAIN sets
         PROVE  May(j, read[j], sets[j], IF j \in DOMAIN gains THEN gains[j] ELSE 0)
    <2>1. CASE j = i
      BY <1>6, <1>9, <2>1
    <2>2. CASE j # i
      <3>1. j \in found
        BY <1>5, <2>2
      <3>2. j = sub /\ read[j] = DOMAIN subset /\ sets[j] = subset /\ j \notin DOMAIN gains
        BY <1>5, <1>9, <2>2, <3>1
      <3> QED
        BY <1>7, <3>2
    <2> QED
      BY <2>1, <2>2
  <1>11. \A j \in DOMAIN read : j \in Ids /\ row[j] # NoRow
    BY <1>1, <1>2, <1>5
  <1> QED
    BY <1>3, <1>4, <1>5, <1>8, <1>9, <1>10, <1>11, SeveralStep
\* The requests on a row of kind delivery.
LEMMA DeliverySteps ==
    ASSUME RInv, NEW d \in Desks, NEW i \in Ids,
           RetryDelivery(d, i) \/ MarkDeliverySuccess(d, i) \/ MarkDeliveryFailed(d, i)
    PROVE  SoundStep
  <1>1. row[i].kind = "delivery" /\ row[i] # NoRow /\ row[i] \in Deliveries
    BY NoRowKind, IntegrationTables DEF RetryDelivery, MarkDeliverySuccess, MarkDeliveryFailed,
                                        Opens, OpensDelivery, RInv, RowSound, InTable
  <1>2. CASE RetryDelivery(d, i)
    <2>1. PICK n, t, looked, set, gain :
             /\ Counts(d, i, looked, set, gain) /\ gain = 1 /\ gain \in Int
             /\ n = row[i].count + 1 /\ t = AfterFailure(n)
             /\ set = [count |-> n, status |-> t] /\ looked = {}
      BY <1>2 DEF RetryDelivery
    <2>2. /\ n \in Nat /\ t \in {"retrying", "abandoned"}
          /\ t = "retrying" => n < MaxRetries
          /\ t = "abandoned" => n >= MaxRetries
      BY <1>1, <2>1, IntegrationAssumption DEF AfterFailure, Deliveries
    <2>3. Typed(Deliveries, set)
      BY <2>1, <2>2 DEF Typed, Merged, Deliveries, FixedColumns
    <2>4. ASSUME NEW r \in Deliveries, NEW s \in Deliveries, s = Merged(r, set, DOMAIN set),
                 Match(r, Loaded(row[i], looked \cup DOMAIN set))
          PROVE  Keeps(r, s, gain)
      <3>1. /\ s.count = r.count + gain /\ s.status = t /\ s.count = n
            /\ s.kind = "delivery" /\ r.kind = "delivery"
        BY <2>1, <2>4 DEF Match, Loaded, Merged, Deliveries
      <3> QED
        BY <2>2, <3>1, IntegrationKeeps DEF IntegrationDated, IntegrationFinal, Settled
    <2>5. Counts(d, i, looked, set, gain) /\ gain \in Int
      BY <2>1
    <2> QED
      BY <1>1, <2>3, <2>4, <2>5, IntegrationTables, PlainCountsStep, ZenonT(60)
  <1>3. CASE MarkDeliverySuccess(d, i)
    <2>1. PICK set, subset :
             /\ WithSubscription(d, i, set, subset) /\ subset = [failures |-> 0]
             /\ set = [status |-> "success", count |-> row[i].count + 1]
      BY <1>3 DEF MarkDeliverySuccess
    <2>2. Typed(Subscriptions, subset)
      BY <2>1 DEF Typed, Merged, Subscriptions, FixedColumns
    <2>3. DOMAIN set = {"count", "status"} /\ set.count = row[i].count + 1 /\ set.status = "success"
      BY <2>1
    <2> QED
      BY <1>1, <2>1, <2>2, <2>3, WithSubscriptionStep
  <1>4. CASE MarkDeliveryFailed(d, i)
    <2>1. PICK failures, status, n, t, set, subset :
             /\ WithSubscription(d, i, set, subset)
             /\ failures = row[row[i].of].failures + 1
             /\ status = IF failures >= FailureLimit THEN "error" ELSE row[row[i].of].status
             /\ n = row[i].count + 1 /\ t = AfterFailure(n)
             /\ set = [count |-> n, status |-> t]
             /\ subset = [failures |-> failures, status |-> status]
      BY <1>4 DEF MarkDeliveryFailed
    <2>2. row[row[i].of] \in Subscriptions
      BY <1>1, NoRowKind, IntegrationTables DEF RInv, RowSound, Refers, InTable
    <2>3. failures \in Nat /\ status \in {"active", "inactive", "error"}
      BY <2>1, <2>2 DEF Subscriptions
    <2>4. Typed(Subscriptions, subset)
      BY <2>1, <2>3 DEF Typed, Merged, Subscriptions, FixedColumns
    <2>5. /\ n \in Nat /\ t \in {"retrying", "abandoned"}
          /\ t = "retrying" => n < MaxRetries
          /\ t = "abandoned" => n >= MaxRetries
      BY <1>1, <2>1, IntegrationAssumption DEF AfterFailure, Deliveries
    <2>6. DOMAIN set = {"count", "status"} /\ set.count = n /\ set.status = t
      BY <2>1
    <2> QED
      BY <1>1, <2>1, <2>4, <2>5, <2>6, WithSubscriptionStep
  <1> QED
    BY <1>2, <1>3, <1>4

\* A run of the CDC worker over all pending events.
LEMMA ProcessStep ==
    ASSUME RInv, NEW d \in Desks, ProcessPendingEvents(d)
    PROVE  SoundStep
  <1>1. PICK pending, set, read :
           /\ pending = CdcEvents({"pending"}) /\ DOMAIN set = pending
           /\ \A i \in pending : set[i] \in Ingested(row[i])
           /\ read = Columns(set) /\ Takes(d, read, set, NoRow, None)
    BY DEF ProcessPendingEvents
  <1>2. DOMAIN read = pending /\ \A i \in pending : read[i] = DOMAIN set[i] \cup {"status"}
    BY <1>1 DEF Columns
  <1>3. ASSUME NEW i \in pending
        PROVE  /\ i \in Ids /\ row[i] # NoRow /\ row[i].kind = "cdc_event" /\ row[i] \in CdcRecords
               /\ row[i].status = "pending" /\ row[i].retries = 0
    <2>1. i \in Ids /\ row[i].kind = "cdc_event" /\ row[i].status = "pending"
      BY <1>1 DEF CdcEvents, RowsOf
    <2> QED
      BY <2>1, NoRowKind, IntegrationTables DEF RInv, RowSound, InTable, Lasting
  <1>4. ASSUME NEW i \in pending PROVE May(i, read[i], set[i], 0)
    <2>1. PICK s0 : s0 = set[i] /\ s0 \in Ingested(row[i])
      BY <1>1
    <2>2. PICK looked : looked = DOMAIN s0 \cup {"status"}
      OBVIOUS
    <2>3. PICK n, t :
             /\ n = row[i].retries + 1
             /\ t = IF n >= MaxRetries THEN "failed" ELSE "retrying"
      OBVIOUS
    <2>4. \/ s0 = [status |-> "skipped"]
          \/ s0 = [status |-> "processed", processed_at |-> TRUE]
          \/ s0 = [status |-> t, retries |-> n]
      BY <2>1, <2>3 DEF Ingested
    <2>5. n \in 0..MaxRetries /\ t \in {"failed", "retrying"}
      BY <1>3, <2>3, IntegrationAssumption
    <2>6. Typed(CdcRecords, s0)
      <3>1. CASE s0 = [status |-> "skipped"]
        BY <3>1 DEF Typed, Merged, CdcRecords, FixedColumns
      <3>2. CASE s0 = [status |-> "processed", processed_at |-> TRUE]
        BY <3>2 DEF Typed, Merged, CdcRecords, FixedColumns
      <3>3. CASE s0 = [status |-> t, retries |-> n]
        BY <2>5, <3>3 DEF Typed, Merged, CdcRecords, FixedColumns
      <3> QED
        BY <2>4, <3>1, <3>2, <3>3
    <2>7. ASSUME NEW r \in CdcRecords, NEW s \in CdcRecords, s = Merged(r, s0, DOMAIN s0),
                 Match(r, Loaded(row[i], looked))
          PROVE  Keeps(r, s, 0)
      <3>1. /\ r.status = "pending" /\ r.kind = "cdc_event" /\ s.kind = "cdc_event"
            /\ "count" \notin DOMAIN r
        BY <1>3, <2>2, <2>4, <2>7 DEF Match, Loaded, Merged, CdcRecords
      <3>2. ~r.processed_at => (s.status = "processed") = s.processed_at
        <4>1. CASE s0 = [status |-> "skipped"]
          BY <2>7, <4>1 DEF Merged, CdcRecords
        <4>2. CASE s0 = [status |-> "processed", processed_at |-> TRUE]
          BY <2>7, <4>2 DEF Merged, CdcRecords
        <4>3. CASE s0 = [status |-> t, retries |-> n]
          BY <2>5, <2>7, <4>3 DEF Merged, CdcRecords
        <4> QED
          BY <2>4, <4>1, <4>2, <4>3
      <3> QED
        BY <2>7, <3>1, <3>2, IntegrationKeeps DEF IntegrationDated, IntegrationFinal, Settled, CdcRecords
    <2>8. PICK l : l = Loaded(row[i], looked)
      OBVIOUS
    <2>9. Fits(row[i].kind, l, s0, 0)
      BY <1>3, <2>2, <2>6, <2>7, <2>8, IntegrationTables DEF Fits, Typed, Loaded
    <2>10. Lasts(row[i], l, s0)
      <3>1. "status" \in DOMAIN s0 /\ s0["status"] # "pending"
        BY <2>4, <2>5
      <3> QED
        BY <1>3, <2>2, <2>8, <3>1 DEF Lasts, Loaded
    <2> QED
      BY <1>2, <2>1, <2>2, <2>8, <2>9, <2>10 DEF May
  <1>5. DOMAIN None = {}
    BY DEF None
  <1> QED
    BY <1>1, <1>2, <1>3, <1>4, <1>5, SeveralStep
\* The requests on a row of kind suggestion.
LEMMA SuggestionSteps ==
    ASSUME RInv, NEW d \in Desks, NEW i \in Ids,
           ExecuteSuggestion(d, i) \/ AcceptSuggestion(d, i) \/ RejectSuggestion(d, i) \/
           RollbackSuggestion(d, i)
    PROVE  SoundStep
  <1>1. row[i].kind = "suggestion" /\ row[i] # NoRow /\ row[i] \in Suggestions
    BY NoRowKind, IntegrationTables DEF ExecuteSuggestion, AcceptSuggestion, RejectSuggestion,
                                        RollbackSuggestion, Opens, RInv, RowSound, InTable
  <1>2. CASE ExecuteSuggestion(d, i)
    <2>1. PICK t, looked, set :
             /\ Sets(d, i, looked, set)
             /\ t \in {"completed", "failed"}
             /\ row[i].status \in {"pending", "accepted"}
             /\ set = [status |-> t] /\ looked = {}
      BY <1>2 DEF ExecuteSuggestion
    <2>2. Typed(Suggestions, set)
      BY <2>1 DEF Typed, Merged, Suggestions, FixedColumns
    <2>3. ASSUME NEW r \in Suggestions, NEW s \in Suggestions, s = Merged(r, set, DOMAIN set),
                 Match(r, Loaded(row[i], looked \cup DOMAIN set))
          PROVE  Keeps(r, s, 0)
      BY <2>1, <2>3, IntegrationKeeps DEF Match, Loaded, Merged, Suggestions, IntegrationDated,
                                          IntegrationFinal, Settled
    <2> QED
      BY <1>1, <2>1, <2>2, <2>3, IntegrationTables, PlainStep
  <1>3. CASE AcceptSuggestion(d, i)
    <2>1. PICK t, looked, set :
             /\ Sets(d, i, looked, set)
             /\ t \in {"accepted", "completed", "failed"}
             /\ row[i].status = "pending"
             /\ set = [status |-> t] /\ looked = {}
      BY <1>3 DEF AcceptSuggestion
    <2>2. Typed(Suggestions, set)
      BY <2>1 DEF Typed, Merged, Suggestions, FixedColumns
    <2>3. ASSUME NEW r \in Suggestions, NEW s \in Suggestions, s = Merged(r, set, DOMAIN set),
                 Match(r, Loaded(row[i], looked \cup DOMAIN set))
          PROVE  Keeps(r, s, 0)
      BY <2>1, <2>3, IntegrationKeeps DEF Match, Loaded, Merged, Suggestions, IntegrationDated,
                                          IntegrationFinal, Settled
    <2> QED
      BY <1>1, <2>1, <2>2, <2>3, IntegrationTables, PlainStep
  <1>4. CASE RejectSuggestion(d, i)
    <2>1. PICK looked, set :
             /\ Sets(d, i, looked, set)
             /\ row[i].status = "pending"
             /\ set = [status |-> "rejected"] /\ looked = {}
      BY <1>4 DEF RejectSuggestion
    <2>2. Typed(Suggestions, set)
      BY <2>1 DEF Typed, Merged, Suggestions, FixedColumns
    <2>3. ASSUME NEW r \in Suggestions, NEW s \in Suggestions, s = Merged(r, set, DOMAIN set),
                 Match(r, Loaded(row[i], looked \cup DOMAIN set))
          PROVE  Keeps(r, s, 0)
      BY <2>1, <2>3, IntegrationKeeps DEF Match, Loaded, Merged, Suggestions, IntegrationDated,
                                          IntegrationFinal, Settled
    <2> QED
      BY <1>1, <2>1, <2>2, <2>3, IntegrationTables, PlainStep
  <1>5. CASE RollbackSuggestion(d, i)
    <2>1. PICK looked, set :
             /\ Sets(d, i, looked, set)
             /\ row[i].status = "completed"
             /\ set = [status |-> "rolled_back"] /\ looked = {}
      BY <1>5 DEF RollbackSuggestion
    <2>2. Typed(Suggestions, set)
      BY <2>1 DEF Typed, Merged, Suggestions, FixedColumns
    <2>3. ASSUME NEW r \in Suggestions, NEW s \in Suggestions, s = Merged(r, set, DOMAIN set),
                 Match(r, Loaded(row[i], looked \cup DOMAIN set))
          PROVE  Keeps(r, s, 0)
      BY <2>1, <2>3, IntegrationKeeps DEF Match, Loaded, Merged, Suggestions, IntegrationDated,
                                          IntegrationFinal, Settled
    <2> QED
      BY <1>1, <2>1, <2>2, <2>3, IntegrationTables, PlainStep
  <1> QED
    BY <1>2, <1>3, <1>4, <1>5

\* The requests on a row of kind ai_switch.
LEMMA SwitchSteps ==
    ASSUME RInv, NEW d \in Desks, NEW i \in Ids,
           RecordExecution(d, i) \/ ResetDailyCounts(d, i)
    PROVE  SoundStep
  <1>1. row[i].kind = "ai_switch" /\ row[i] # NoRow /\ row[i] \in AiSwitches
    BY NoRowKind, IntegrationTables DEF RecordExecution, ResetDailyCounts, Opens, RInv,
                                        RowSound, InTable
  <1>2. CASE RecordExecution(d, i)
    <2>1. PICK looked, set, gain :
             /\ Counts(d, i, looked, set, gain) /\ gain = 1 /\ gain \in Int
             /\ set = [count |-> row[i].count + 1] /\ looked = {}
      BY <1>1, <1>2 DEF RecordExecution, AiSwitches
    <2>2. Typed(AiSwitches, set)
      BY <1>1, <2>1 DEF Typed, Merged, AiSwitches, FixedColumns
    <2>3. ASSUME NEW r \in AiSwitches, NEW s \in AiSwitches, s = Merged(r, set, DOMAIN set),
                 Match(r, Loaded(row[i], looked \cup DOMAIN set))
          PROVE  Keeps(r, s, gain)
      BY <1>1, <2>1, <2>3, IntegrationKeeps DEF Match, Loaded, Merged, AiSwitches,
             IntegrationDated, IntegrationFinal, Settled
    <2>4. Counts(d, i, looked, set, gain) /\ gain \in Int
      BY <2>1
    <2> QED
      BY <1>1, <2>2, <2>3, <2>4, IntegrationTables, PlainCountsStep, ZenonT(60)
  <1>3. CASE ResetDailyCounts(d, i)
    <2>1. PICK looked, set, gain :
             /\ Counts(d, i, looked, set, gain) /\ gain = 0 - row[i].count /\ gain \in Int
             /\ set = [count |-> 0] /\ looked = {}
      BY <1>1, <1>3 DEF ResetDailyCounts, AiSwitches
    <2>2. Typed(AiSwitches, set)
      BY <1>1, <2>1 DEF Typed, Merged, AiSwitches, FixedColumns
    <2>3. ASSUME NEW r \in AiSwitches, NEW s \in AiSwitches, s = Merged(r, set, DOMAIN set),
                 Match(r, Loaded(row[i], looked \cup DOMAIN set))
          PROVE  Keeps(r, s, gain)
      BY <1>1, <2>1, <2>3, IntegrationKeeps DEF Match, Loaded, Merged, AiSwitches,
             IntegrationDated, IntegrationFinal, Settled
    <2>4. Counts(d, i, looked, set, gain) /\ gain \in Int
      BY <2>1
    <2> QED
      BY <1>1, <2>2, <2>3, <2>4, IntegrationTables, PlainCountsStep, ZenonT(60)
  <1> QED
    BY <1>2, <1>3

\* The requests on a row of kind rollout.
LEMMA RolloutSteps ==
    ASSUME RInv, NEW d \in Desks, NEW i \in Ids,
           UpdateRolloutPercent(d, i) \/ ManualRollback(d, i) \/ RecordExecutionResult(d, i)
    PROVE  SoundStep
  <1>1. row[i].kind = "rollout" /\ row[i] # NoRow /\ row[i] \in Rollouts
    BY NoRowKind, IntegrationTables DEF UpdateRolloutPercent, ManualRollback,
                                        RecordExecutionResult, Opens, RInv, RowSound, InTable
  <1>2. CASE UpdateRolloutPercent(d, i)
    <2>1. PICK p, looked, set :
             /\ Sets(d, i, looked, set) /\ looked = {}
             /\ set = [percent |-> p, rolled_back |-> FALSE]
             /\ p \in {0, 50, 100}
      BY <1>2 DEF UpdateRolloutPercent
    <2>2. Typed(Rollouts, set)
      <3>1. SUFFICES ASSUME NEW r \in Rollouts, NEW C \in SUBSET DOMAIN set,
                            NEW m, m = Merged(r, set, C)
                     PROVE  DOMAIN set \subseteq DOMAIN r \ FixedColumns /\ m \in Rollouts
        BY DEF Typed
      <3>2. /\ DOMAIN set = {"percent", "rolled_back"} /\ set.percent = p
            /\ set.rolled_back \in BOOLEAN
        BY <2>1
      <3>3. /\ DOMAIN r = {"kind", "percent", "rolled_back", "count"} /\ r.rolled_back \in BOOLEAN
            /\ r.percent \in {0, 50, 100} /\ r.kind = "rollout" /\ r.count \in Nat
        BY <3>1 DEF Rollouts
      <3>4. m = [c \in DOMAIN r |-> m[c]] /\ m.kind = r.kind /\ m.count = r.count
        BY <3>1, <3>2, <3>3 DEF Merged
      <3>5. m.percent \in {0, 50, 100}
        BY <2>1, <3>1, <3>2, <3>3 DEF Merged
      <3>6. m.rolled_back \in BOOLEAN
        BY <3>1, <3>2, <3>3 DEF Merged
      <3>7. m \in Rollouts
        BY <3>3, <3>4, <3>5, <3>6 DEF Rollouts
      <3> QED
        BY <3>2, <3>3, <3>7 DEF FixedColumns
    <2>3. ASSUME NEW r \in Rollouts, NEW s \in Rollouts, s = Merged(r, set, DOMAIN set),
                 Match(r, Loaded(row[i], looked \cup DOMAIN set))
          PROVE  Keeps(r, s, 0)
      <3>1. /\ s.kind = "rollout" /\ r.kind = "rollout" /\ s.count = r.count + 0
            /\ s.rolled_back \in BOOLEAN /\ ~s.rolled_back
        BY <2>1, <2>3 DEF Merged, Rollouts
      <3> QED
        BY <3>1, IntegrationKeeps DEF IntegrationDated, IntegrationFinal, Settled
    <2>4. Sets(d, i, looked, set)
      BY <2>1
    <2> QED
      BY <1>1, <2>2, <2>3, <2>4, IntegrationTables, PlainStep
  <1>3. CASE ManualRollback(d, i)
    <2>1. PICK p, looked, set :
             /\ Sets(d, i, looked, set) /\ looked = {}
             /\ set = [percent |-> p, rolled_back |-> TRUE]
             /\ p \in {0, 50, 100} /\ p = 0
      BY <1>3 DEF ManualRollback
    <2>2. Typed(Rollouts, set)
      <3>1. SUFFICES ASSUME NEW r \in Rollouts, NEW C \in SUBSET DOMAIN set,
                            NEW m, m = Merged(r, set, C)
                     PROVE  DOMAIN set \subseteq DOMAIN r \ FixedColumns /\ m \in Rollouts
        BY DEF Typed
      <3>2. /\ DOMAIN set = {"percent", "rolled_back"} /\ set.percent = p
            /\ set.rolled_back \in BOOLEAN
        BY <2>1
      <3>3. /\ DOMAIN r = {"kind", "percent", "rolled_back", "count"} /\ r.rolled_back \in BOOLEAN
            /\ r.percent \in {0, 50, 100} /\ r.kind = "rollout" /\ r.count \in Nat
        BY <3>1 DEF Rollouts
      <3>4. m = [c \in DOMAIN r |-> m[c]] /\ m.kind = r.kind /\ m.count = r.count
        BY <3>1, <3>2, <3>3 DEF Merged
      <3>5. m.percent \in {0, 50, 100}
        BY <2>1, <3>1, <3>2, <3>3 DEF Merged
      <3>6. m.rolled_back \in BOOLEAN
        BY <3>1, <3>2, <3>3 DEF Merged
      <3>7. m \in Rollouts
        BY <3>3, <3>4, <3>5, <3>6 DEF Rollouts
      <3> QED
        BY <3>2, <3>3, <3>7 DEF FixedColumns
    <2>3. ASSUME NEW r \in Rollouts, NEW s \in Rollouts, s = Merged(r, set, DOMAIN set),
                 Match(r, Loaded(row[i], looked \cup DOMAIN set))
          PROVE  Keeps(r, s, 0)
      <3>1. /\ s.kind = "rollout" /\ r.kind = "rollout" /\ s.count = r.count + 0
            /\ s.percent = 0
        BY <2>1, <2>3 DEF Merged, Rollouts
      <3> QED
        BY <3>1, IntegrationKeeps DEF IntegrationDated, IntegrationFinal, Settled
    <2>4. Sets(d, i, looked, set)
      BY <2>1
    <2> QED
      BY <1>1, <2>2, <2>3, <2>4, IntegrationTables, PlainStep
  <1>4. CASE RecordExecutionResult(d, i)
    <2>1. PICK n, looked, set, gain :
             /\ Counts(d, i, looked, set, gain) /\ gain = 1 /\ gain \in Int
             /\ n = row[i].count + 1 /\ looked = {}
             /\ \/ set = [count |-> n]
                \/ set = [count |-> n, percent |-> 0, rolled_back |-> TRUE]
      BY <1>4 DEF RecordExecutionResult
    <2>2. n \in Nat
      BY <1>1, <2>1 DEF Rollouts
    <2>3. Typed(Rollouts, set)
      <3>1. CASE set = [count |-> n]
        BY <2>2, <3>1 DEF Typed, Merged, Rollouts, FixedColumns
      <3>2. ASSUME NEW p, p \in {0, 50, 100}, set = [count |-> n, percent |-> p, rolled_back |-> TRUE]
            PROVE  Typed(Rollouts, set)
        <4>1. SUFFICES ASSUME NEW r \in Rollouts, NEW C \in SUBSET DOMAIN set,
                              NEW m, m = Merged(r, set, C)
                       PROVE  DOMAIN set \subseteq DOMAIN r \ FixedColumns /\ m \in Rollouts
          BY DEF Typed
        <4>2. /\ DOMAIN set = {"count", "percent", "rolled_back"} /\ set.percent = p
              /\ set.rolled_back \in BOOLEAN /\ set.count \in Nat
          BY <2>2, <3>2
        <4>3. /\ DOMAIN r = {"kind", "percent", "rolled_back", "count"} /\ r.rolled_back \in BOOLEAN
              /\ r.percent \in {0, 50, 100} /\ r.kind = "rollout" /\ r.count \in Nat
          BY <4>1 DEF Rollouts
        <4>4. m = [c \in DOMAIN r |-> m[c]] /\ m.kind = r.kind
          BY <4>1, <4>2, <4>3 DEF Merged
        <4>5. m.percent \in {0, 50, 100}
          BY <3>2, <4>1, <4>2, <4>3 DEF Merged
        <4>6. m.rolled_back \in BOOLEAN
          BY <4>1, <4>2, <4>3 DEF Merged
        <4>7. m.count \in Nat
          BY <4>1, <4>2, <4>3 DEF Merged
        <4>8. m \in Rollouts
          BY <4>3, <4>4, <4>5, <4>6, <4>7 DEF Rollouts
        <4> QED
          BY <4>2, <4>3, <4>8 DEF FixedColumns
      <3> QED
        BY <2>1, <3>1, <3>2
    <2>4. ASSUME NEW r \in Rollouts, NEW s \in Rollouts, s = Merged(r, set, DOMAIN set),
                 Match(r, Loaded(row[i], looked \cup DOMAIN set))
          PROVE  Keeps(r, s, gain)
      <3>1. s.count = r.count + gain /\ s.kind = "rollout" /\ r.kind = "rollout"
        BY <2>1, <2>4 DEF Match, Loaded, Merged, Rollouts
      <3>2. \/ s.percent = r.percent /\ s.rolled_back = r.rolled_back
            \/ s.percent = 0
        BY <2>1, <2>4 DEF Merged, Rollouts
      <3> QED
        BY <3>1, <3>2, IntegrationKeeps DEF IntegrationDated, IntegrationFinal, Settled
    <2>5. Counts(d, i, looked, set, gain) /\ gain \in Int
      BY <2>1
    <2> QED
      BY <1>1, <2>3, <2>4, <2>5, IntegrationTables, PlainCountsStep, ZenonT(60)
  <1> QED
    BY <1>2, <1>3, <1>4

\* The requests on a row of kind pms_recommendation.
LEMMA AdapterSteps ==
    ASSUME RInv, NEW d \in Desks, NEW i \in Ids,
           AdapterAccept(d, i) \/ AdapterReject(d, i) \/ AdapterExecute(d, i) \/
           AdapterRollback(d, i)
    PROVE  SoundStep
  <1>1. row[i].kind = "pms_recommendation" /\ row[i] # NoRow /\ row[i] \in PmsRecommendations
    BY NoRowKind, IntegrationTables DEF AdapterAccept, AdapterReject, AdapterExecute,
                                        AdapterRollback, Opens, AdapterMoves, RInv, RowSound,
                                        InTable
  <1>2. CASE AdapterAccept(d, i)
    <2>1. PICK looked, set :
             /\ Sets(d, i, looked, set)
             /\ row[i].status = "pending"
             /\ set = [status |-> "accepted"] /\ looked = {"status"}
      BY <1>2 DEF AdapterAccept, AdapterMoves
    <2>2. Typed(PmsRecommendations, set)
      BY <2>1 DEF Typed, Merged, PmsRecommendations, FixedColumns
    <2>3. ASSUME NEW r \in PmsRecommendations, NEW s \in PmsRecommendations, s = Merged(r, set, DOMAIN set),
                 Match(r, Loaded(row[i], looked \cup DOMAIN set))
          PROVE  Keeps(r, s, 0)
      BY <2>1, <2>3, IntegrationKeeps DEF Match, Loaded, Merged, PmsRecommendations,
                                          IntegrationDated, IntegrationFinal, Settled
    <2> QED
      BY <1>1, <2>1, <2>2, <2>3, IntegrationTables, PlainStep
  <1>3. CASE AdapterReject(d, i)
    <2>1. PICK looked, set :
             /\ Sets(d, i, looked, set)
             /\ row[i].status \in {"pending", "accepted"}
             /\ set = [status |-> "rejected"] /\ looked = {"status"}
      BY <1>3 DEF AdapterReject, AdapterMoves
    <2>2. Typed(PmsRecommendations, set)
      BY <2>1 DEF Typed, Merged, PmsRecommendations, FixedColumns
    <2>3. ASSUME NEW r \in PmsRecommendations, NEW s \in PmsRecommendations, s = Merged(r, set, DOMAIN set),
                 Match(r, Loaded(row[i], looked \cup DOMAIN set))
          PROVE  Keeps(r, s, 0)
      BY <2>1, <2>3, IntegrationKeeps DEF Match, Loaded, Merged, PmsRecommendations,
                                          IntegrationDated, IntegrationFinal, Settled
    <2> QED
      BY <1>1, <2>1, <2>2, <2>3, IntegrationTables, PlainStep
  <1>4. CASE AdapterExecute(d, i)
    <2>1. PICK looked, set :
             /\ Sets(d, i, looked, set)
             /\ row[i].status = "accepted"
             /\ set = [status |-> "executed", executed_at |-> TRUE] /\ looked = {"status"}
      BY <1>4 DEF AdapterExecute, AdapterMoves
    <2>2. Typed(PmsRecommendations, set)
      BY <2>1 DEF Typed, Merged, PmsRecommendations, FixedColumns
    <2>3. ASSUME NEW r \in PmsRecommendations, NEW s \in PmsRecommendations, s = Merged(r, set, DOMAIN set),
                 Match(r, Loaded(row[i], looked \cup DOMAIN set))
          PROVE  Keeps(r, s, 0)
      BY <2>1, <2>3, IntegrationKeeps DEF Match, Loaded, Merged, PmsRecommendations,
                                          IntegrationDated, IntegrationFinal, Settled
    <2> QED
      BY <1>1, <2>1, <2>2, <2>3, IntegrationTables, PlainStep
  <1>5. CASE AdapterRollback(d, i)
    <2>1. PICK looked, set :
             /\ Sets(d, i, looked, set)
             /\ row[i].status = "executed"
             /\ set = [status |-> "rolled_back"] /\ looked = {"status"}
      BY <1>5 DEF AdapterRollback, AdapterMoves
    <2>2. Typed(PmsRecommendations, set)
      BY <2>1 DEF Typed, Merged, PmsRecommendations, FixedColumns
    <2>3. ASSUME NEW r \in PmsRecommendations, NEW s \in PmsRecommendations, s = Merged(r, set, DOMAIN set),
                 Match(r, Loaded(row[i], looked \cup DOMAIN set))
          PROVE  Keeps(r, s, 0)
      BY <2>1, <2>3, IntegrationKeeps DEF Match, Loaded, Merged, PmsRecommendations,
                                          IntegrationDated, IntegrationFinal, Settled
    <2> QED
      BY <1>1, <2>1, <2>2, <2>3, IntegrationTables, PlainStep
  <1> QED
    BY <1>2, <1>3, <1>4, <1>5

\* The requests on a row of kind pms_draft.
LEMMA DraftSteps ==
    ASSUME RInv, NEW d \in Desks, NEW i \in Ids,
           AcceptDraft(d, i)
    PROVE  SoundStep
  <1>1. row[i].kind = "pms_draft" /\ row[i] # NoRow /\ row[i] \in PmsDrafts
    BY NoRowKind, IntegrationTables DEF AcceptDraft, Opens, RInv, RowSound, InTable
  <1>2. CASE AcceptDraft(d, i)
    <2>1. PICK looked, set :
             /\ Sets(d, i, looked, set)
             /\ row[i].status = "draft"
             /\ set = [status |-> "accepted"] /\ looked = {}
      BY <1>2 DEF AcceptDraft
    <2>2. Typed(PmsDrafts, set)
      BY <2>1 DEF Typed, Merged, PmsDrafts, FixedColumns
    <2>3. ASSUME NEW r \in PmsDrafts, NEW s \in PmsDrafts, s = Merged(r, set, DOMAIN set),
                 Match(r, Loaded(row[i], looked \cup DOMAIN set))
          PROVE  Keeps(r, s, 0)
      BY <2>1, <2>3, IntegrationKeeps DEF Match, Loaded, Merged, PmsDrafts, IntegrationDated,
                                          IntegrationFinal, Settled
    <2> QED
      BY <1>1, <2>1, <2>2, <2>3, IntegrationTables, PlainStep
  <1> QED
    BY <1>2

\* The requests on a row of kind store_auth.
LEMMA StoreAuthSteps ==
    ASSUME RInv, NEW d \in Desks, NEW i \in Ids,
           AuthorizeAgain(d, i) \/ RefreshToken(d, i) \/ RevokeAuthorization(d, i) \/
           CheckAndMarkExpired(d, i)
    PROVE  SoundStep
  <1>1. row[i].kind = "store_auth" /\ row[i] # NoRow /\ row[i] \in StoreAuths
    BY NoRowKind, IntegrationTables DEF AuthorizeAgain, RefreshToken, RevokeAuthorization,
                                        CheckAndMarkExpired, Opens, RInv, RowSound, InTable
  <1>2. CASE AuthorizeAgain(d, i)
    <2>1. PICK t, looked, set :
             /\ Sets(d, i, looked, set)
             /\ t \in BOOLEAN
             /\ set = [active |-> TRUE, status |-> "authorized", token |-> t] /\ looked = {}
      BY <1>2 DEF AuthorizeAgain
    <2>2. Typed(StoreAuths, set)
      BY <2>1 DEF Typed, Merged, StoreAuths, FixedColumns
    <2>3. ASSUME NEW r \in StoreAuths, NEW s \in StoreAuths, s = Merged(r, set, DOMAIN set),
                 Match(r, Loaded(row[i], looked \cup DOMAIN set))
          PROVE  Keeps(r, s, 0)
      BY <2>1, <2>3, IntegrationKeeps DEF Match, Loaded, Merged, StoreAuths, IntegrationDated,
                                          IntegrationFinal, Settled
    <2> QED
      BY <1>1, <2>1, <2>2, <2>3, IntegrationTables, PlainStep
  <1>3. CASE RefreshToken(d, i)
    <2>1. PICK t, looked, set :
             /\ Sets(d, i, looked, set)
             /\ t \in BOOLEAN
             /\ row[i].active
             /\ set = [token |-> t, status |-> "authorized"] /\ looked = {"active"}
      BY <1>1, <1>3 DEF RefreshToken, StoreAuths
    <2>2. Typed(StoreAuths, set)
      BY <2>1 DEF Typed, Merged, StoreAuths, FixedColumns
    <2>3. ASSUME NEW r \in StoreAuths, NEW s \in StoreAuths, s = Merged(r, set, DOMAIN set),
                 Match(r, Loaded(row[i], looked \cup DOMAIN set))
          PROVE  Keeps(r, s, 0)
      BY <2>1, <2>3, IntegrationKeeps DEF Match, Loaded, Merged, StoreAuths, IntegrationDated,
                                          IntegrationFinal, Settled
    <2> QED
      BY <1>1, <2>1, <2>2, <2>3, IntegrationTables, PlainStep
  <1>4. CASE RevokeAuthorization(d, i)
    <2>1. PICK looked, set :
             /\ Sets(d, i, looked, set)
             /\ set = [status |-> "revoked", active |-> FALSE, token |-> FALSE] /\ looked = {}
      BY <1>4 DEF RevokeAuthorization
    <2>2. Typed(StoreAuths, set)
      BY <2>1 DEF Typed, Merged, StoreAuths, FixedColumns
    <2>3. ASSUME NEW r \in StoreAuths, NEW s \in StoreAuths, s = Merged(r, set, DOMAIN set),
                 Match(r, Loaded(row[i], looked \cup DOMAIN set))
          PROVE  Keeps(r, s, 0)
      BY <2>1, <2>3, IntegrationKeeps DEF Match, Loaded, Merged, StoreAuths, IntegrationDated,
                                          IntegrationFinal, Settled
    <2> QED
      BY <1>1, <2>1, <2>2, <2>3, IntegrationTables, PlainStep
  <1>5. CASE CheckAndMarkExpired(d, i)
    <2>1. PICK looked, set :
             /\ Sets(d, i, looked, set)
             /\ row[i].active
             /\ row[i].status = "authorized"
             /\ set = [status |-> "token_expired"] /\ looked = {"active"}
      BY <1>5 DEF CheckAndMarkExpired
    <2>2. Typed(StoreAuths, set)
      BY <2>1 DEF Typed, Merged, StoreAuths, FixedColumns
    <2>3. ASSUME NEW r \in StoreAuths, NEW s \in StoreAuths, s = Merged(r, set, DOMAIN set),
                 Match(r, Loaded(row[i], looked \cup DOMAIN set))
          PROVE  Keeps(r, s, 0)
      BY <2>1, <2>3, IntegrationKeeps DEF Match, Loaded, Merged, StoreAuths, IntegrationDated,
                                          IntegrationFinal, Settled
    <2> QED
      BY <1>1, <2>1, <2>2, <2>3, IntegrationTables, PlainStep
  <1> QED
    BY <1>2, <1>3, <1>4, <1>5

\* The requests on a row of kind secret.
LEMMA SecretSteps ==
    ASSUME RInv, NEW d \in Desks, NEW i \in Ids,
           GetSecret(d, i) \/ DeactivateSecret(d, i)
    PROVE  SoundStep
  <1>1. row[i].kind = "secret" /\ row[i] # NoRow /\ row[i] \in Secrets
    BY NoRowKind, IntegrationTables DEF GetSecret, DeactivateSecret, Opens, RInv, RowSound,
                                        InTable
  <1>2. CASE GetSecret(d, i)
    <2>1. PICK looked, set, gain :
             /\ Counts(d, i, looked, set, gain) /\ gain = 1 /\ gain \in Int
             /\ set = [count |-> row[i].count + 1] /\ looked = {"active"}
      BY <1>1, <1>2 DEF GetSecret, Secrets
    <2>2. Typed(Secrets, set)
      BY <1>1, <2>1 DEF Typed, Merged, Secrets, FixedColumns
    <2>3. ASSUME NEW r \in Secrets, NEW s \in Secrets, s = Merged(r, set, DOMAIN set),
                 Match(r, Loaded(row[i], looked \cup DOMAIN set))
          PROVE  Keeps(r, s, gain)
      BY <1>1, <2>1, <2>3, IntegrationKeeps DEF Match, Loaded, Merged, Secrets,
             IntegrationDated, IntegrationFinal, Settled
    <2>4. Counts(d, i, looked, set, gain) /\ gain \in Int
      BY <2>1
    <2> QED
      BY <1>1, <2>2, <2>3, <2>4, IntegrationTables, PlainCountsStep, ZenonT(60)
  <1>3. CASE DeactivateSecret(d, i)
    <2>1. PICK looked, set :
             /\ Sets(d, i, looked, set)
             /\ set = [active |-> FALSE] /\ looked = {}
      BY <1>3 DEF DeactivateSecret
    <2>2. Typed(Secrets, set)
      BY <2>1 DEF Typed, Merged, Secrets, FixedColumns
    <2>3. ASSUME NEW r \in Secrets, NEW s \in Secrets, s = Merged(r, set, DOMAIN set),
                 Match(r, Loaded(row[i], looked \cup DOMAIN set))
          PROVE  Keeps(r, s, 0)
      BY <2>1, <2>3, IntegrationKeeps DEF Match, Loaded, Merged, Secrets, IntegrationDated,
                                          IntegrationFinal, Settled
    <2> QED
      BY <1>1, <2>1, <2>2, <2>3, IntegrationTables, PlainStep
  <1> QED
    BY <1>2, <1>3

\* The requests on a row of kind connector.
LEMMA ConnectorSteps ==
    ASSUME RInv, NEW d \in Desks, NEW i \in Ids,
           ActivateConnector(d, i) \/ DeactivateConnector(d, i) \/ HealthCheck(d, i)
    PROVE  SoundStep
  <1>1. row[i].kind = "connector" /\ row[i] # NoRow /\ row[i] \in Connectors
    BY NoRowKind, IntegrationTables DEF ActivateConnector, DeactivateConnector, HealthCheck,
                                        Opens, RInv, RowSound, InTable
  <1>2. CASE ActivateConnector(d, i)
    <2>1. PICK looked, set :
             /\ Sets(d, i, looked, set)
             /\ set = [status |-> "active", is_active |-> TRUE] /\ looked = {}
      BY <1>2 DEF ActivateConnector
    <2>2. Typed(Connectors, set)
      BY <2>1 DEF Typed, Merged, Connectors, FixedColumns
    <2>3. ASSUME NEW r \in Connectors, NEW s \in Connectors, s = Merged(r, set, DOMAIN set),
                 Match(r, Loaded(row[i], looked \cup DOMAIN set))
          PROVE  Keeps(r, s, 0)
      BY <2>1, <2>3, IntegrationKeeps DEF Match, Loaded, Merged, Connectors, IntegrationDated,
                                          IntegrationFinal, Settled
    <2> QED
      BY <1>1, <2>1, <2>2, <2>3, IntegrationTables, PlainStep
  <1>3. CASE DeactivateConnector(d, i)
    <2>1. PICK looked, set :
             /\ Sets(d, i, looked, set)
             /\ set = [status |-> "inactive", is_active |-> FALSE] /\ looked = {}
      BY <1>3 DEF DeactivateConnector
    <2>2. Typed(Connectors, set)
      BY <2>1 DEF Typed, Merged, Connectors, FixedColumns
    <2>3. ASSUME NEW r \in Connectors, NEW s \in Connectors, s = Merged(r, set, DOMAIN set),
                 Match(r, Loaded(row[i], looked \cup DOMAIN set))
          PROVE  Keeps(r, s, 0)
      BY <2>1, <2>3, IntegrationKeeps DEF Match, Loaded, Merged, Connectors, IntegrationDated,
                                          IntegrationFinal, Settled
    <2> QED
      BY <1>1, <2>1, <2>2, <2>3, IntegrationTables, PlainStep
  <1>4. CASE HealthCheck(d, i)
    <2>1. PICK t, looked, set :
             /\ Sets(d, i, looked, set)
             /\ t \in {"active", "error"}
             /\ set = [status |-> t] /\ looked = {}
      BY <1>4 DEF HealthCheck
    <2>2. Typed(Connectors, set)
      BY <2>1 DEF Typed, Merged, Connectors, FixedColumns
    <2>3. ASSUME NEW r \in Connectors, NEW s \in Connectors, s = Merged(r, set, DOMAIN set),
                 Match(r, Loaded(row[i], looked \cup DOMAIN set))
          PROVE  Keeps(r, s, 0)
      BY <2>1, <2>3, IntegrationKeeps DEF Match, Loaded, Merged, Connectors, IntegrationDated,
                                          IntegrationFinal, Settled
    <2> QED
      BY <1>1, <2>1, <2>2, <2>3, IntegrationTables, PlainStep
  <1> QED
    BY <1>2, <1>3, <1>4

\* The requests on a row of kind import.
LEMMA ImportSteps ==
    ASSUME RInv, NEW d \in Desks, NEW i \in Ids,
           ValidateCsv(d, i) \/ CompleteImport(d, i) \/ CancelImport(d, i)
    PROVE  SoundStep
  <1>1. row[i].kind = "import" /\ row[i] # NoRow /\ row[i] \in Imports
    BY NoRowKind, IntegrationTables DEF ValidateCsv, CompleteImport, CancelImport, Opens, RInv,
                                        RowSound, InTable
  <1>2. CASE ValidateCsv(d, i)
    <2>1. PICK t, looked, set :
             /\ Sets(d, i, looked, set)
             /\ t \in {"importing", "failed"}
             /\ set = [status |-> t, started_at |-> TRUE] /\ looked = {}
      BY <1>2 DEF ValidateCsv
    <2>2. Typed(Imports, set)
      BY <2>1 DEF Typed, Merged, Imports, FixedColumns
    <2>3. ASSUME NEW r \in Imports, NEW s \in Imports, s = Merged(r, set, DOMAIN set),
                 Match(r, Loaded(row[i], looked \cup DOMAIN set))
          PROVE  Keeps(r, s, 0)
      BY <2>1, <2>3, IntegrationKeeps DEF Match, Loaded, Merged, Imports, IntegrationDated,
                                          IntegrationFinal, Settled
    <2> QED
      BY <1>1, <2>1, <2>2, <2>3, IntegrationTables, PlainStep
  <1>3. CASE CompleteImport(d, i)
    <2>1. PICK t, looked, set :
             /\ Sets(d, i, looked, set)
             /\ t \in {"completed", "completed_with_errors", "failed"}
             /\ set = [status |-> t, completed_at |-> TRUE] /\ looked = {}
      BY <1>3 DEF CompleteImport
    <2>2. Typed(Imports, set)
      BY <2>1 DEF Typed, Merged, Imports, FixedColumns
    <2>3. ASSUME NEW r \in Imports, NEW s \in Imports, s = Merged(r, set, DOMAIN set),
                 Match(r, Loaded(row[i], looked \cup DOMAIN set))
          PROVE  Keeps(r, s, 0)
      BY <2>1, <2>3, IntegrationKeeps DEF Match, Loaded, Merged, Imports, IntegrationDated,
                                          IntegrationFinal, Settled
    <2> QED
      BY <1>1, <2>1, <2>2, <2>3, IntegrationTables, PlainStep
  <1>4. CASE CancelImport(d, i)
    <2>1. PICK looked, set :
             /\ Sets(d, i, looked, set)
             /\ set = [status |-> "cancelled"] /\ looked = {}
      BY <1>4 DEF CancelImport
    <2>2. Typed(Imports, set)
      BY <2>1 DEF Typed, Merged, Imports, FixedColumns
    <2>3. ASSUME NEW r \in Imports, NEW s \in Imports, s = Merged(r, set, DOMAIN set),
                 Match(r, Loaded(row[i], looked \cup DOMAIN set))
          PROVE  Keeps(r, s, 0)
      BY <2>1, <2>3, IntegrationKeeps DEF Match, Loaded, Merged, Imports, IntegrationDated,
                                          IntegrationFinal, Settled
    <2> QED
      BY <1>1, <2>1, <2>2, <2>3, IntegrationTables, PlainStep
  <1> QED
    BY <1>2, <1>3, <1>4

-----------------------------------------------------------------------------
(* The behaviours of all the domains *)

\* Every request of the domain.
LEMMA FbaStep ==
    ASSUME RInv, FbaNext
    PROVE  SoundStep
  BY FbaInserts, FbaShipmentSteps, BoxLabelSteps, FbaInventorySteps, ReplenishmentSteps,
     InboundPlanSteps, FbaExceptionSteps DEF FbaNext

\* Every request of the domain.
LEMMA CrmStep ==
    ASSUME RInv, CrmNext
    PROVE  SoundStep
  BY CrmInserts, CustomerSteps, ReviewSteps, TicketSteps, ReturnSteps, ComplaintSteps,
     TemplateSteps, ClassifyStep DEF CrmNext

\* Every request of the domain.
LEMMA SomStep ==
    ASSUME RInv, SomNext
    PROVE  SoundStep
  BY SomInserts, StoreSteps, ListingSteps, BatchJobSteps, OptimizationSteps, AlertRuleSteps,
     AlertSteps DEF SomNext

\* Every request of the domain.
LEMMA PdmStep ==
    ASSUME RInv, PdmNext
    PROVE  SoundStep
  BY PdmInserts, SpuSteps, SkuSteps, ProjectSteps, CollectionSteps, IssueSteps, UpcSteps
     DEF
         PdmNext

\* Every request of the domain.
LEMMA AdsStep ==
    ASSUME RInv, AdsNext
    PROVE  SoundStep
  BY AdsInserts, CampaignSteps, AdGroupSteps, KeywordSteps, BidSteps DEF AdsNext

\* Every request of the domain.
LEMMA TransfersStep ==
    ASSUME RInv, TransfersNext
    PROVE  SoundStep
  BY TransfersInserts, TransferSteps, FbaPlanSteps, StockAlertSteps, AlertInstanceSteps,
     BusinessAlertSteps DEF TransfersNext

\* Every request of the domain.
LEMMA PaperworkStep ==
    ASSUME RInv, PaperworkNext
    PROVE  SoundStep
  BY PaperworkInserts, VoucherTemplateSteps, VoucherSteps, RefundSteps, PromotionSteps,
     PmsActionSteps, ReviewTaskSteps, BatchApproveStep DEF PaperworkNext

\* Every request of the domain.
LEMMA IntegrationStep ==
    ASSUME RInv, IntegrationNext
    PROVE  SoundStep
  BY IntegrationInserts, SubscriptionSteps, DeliverySteps, SuggestionSteps, SwitchSteps,
     RolloutSteps, AdapterSteps, DraftSteps, StoreAuthSteps, SecretSteps, ConnectorSteps,
     ImportSteps, ProcessStep DEF IntegrationNext

\* A request that fails writes nothing.
LEMMA RollbackStep ==
    ASSUME RInv, NEW d \in Desks, RollbackWork(d)
    PROVE  SoundStep
  <1>1. ShapesOK'
    BY DEF RInv, ShapesOK, RollbackWork
  <1>2. \A i \in Ids : RowSound(i)'
    BY DEF RInv, RowSound, Refers, RollbackWork
  <1>3. \A i \in Ids \ mixed' : RowGood(i)'
    BY DEF RInv, RowGood, RollbackWork
  <1>4. ASSUME NEW e \in Desks, work'[e] # NoWork PROVE WorkSound(work[e])'
    <2>1. work'[e] = work[e] /\ UNCHANGED row
      BY <1>4 DEF RInv, ShapesOK, RollbackWork
    <2>2. PICK v : v = work[e]
      OBVIOUS
    <2>3. WorkSound(v)
      BY <1>4, <2>1, <2>2 DEF RInv
    <2>4. WorkSound(v)'
      BY <2>1, <2>3 DEF WorkSound, NewSound, Refers
    <2> QED
      BY <2>1, <2>2, <2>4 DEF WorkSound, NewSound, Refers, Gain
  <1>5. FinalKept /\ LivingOnly
    BY NoRowKind DEF FinalKept, LivingOnly, RollbackWork
  <1> QED
    BY <1>1, <1>2, <1>3, <1>4, <1>5 DEF SoundStep, RInv

\* Every step leaves RInv, final statuses and the details of what has ended alone.
LEMMA RecordsStep ==
    ASSUME RInv, RecordsNext
    PROVE  SoundStep
  BY FbaStep, CrmStep, SomStep, PdmStep, AdsStep, TransfersStep, PaperworkStep, IntegrationStep,
     CommitStep, RollbackStep DEF RecordsNext

LEMMA RecordsStutter ==
    ASSUME RInv, UNCHANGED recordVars
    PROVE  RInv'
  <1>1. ShapesOK'
    BY DEF RInv, ShapesOK, recordVars
  <1>2. \A i \in Ids : RowSound(i)'
    BY DEF RInv, RowSound, Refers, recordVars
  <1>3. \A i \in Ids \ mixed' : RowGood(i)'
    BY DEF RInv, RowGood, recordVars
  <1>4. ASSUME NEW e \in Desks, work'[e] # NoWork PROVE WorkSound(work[e])'
    BY <1>4 DEF RInv, WorkSound, NewSound, Refers, Gain, recordVars
  <1> QED
    BY <1>1, <1>2, <1>3, <1>4 DEF RInv

LEMMA RecordsStart ==
    ASSUME RecordsInit
    PROVE  RInv
  BY DEF RecordsInit, RInv, ShapesOK, RowSound, RowGood

\* The invariant of the rows and of what the requests are to write.
THEOREM RowsHold == RecordsSpec => []RInv
  <1>1. RecordsInit => RInv
    BY RecordsStart
  <1>2. RInv /\ [RecordsNext]_recordVars => RInv'
    BY RecordsStep, RecordsStutter DEF SoundStep
  <1> QED
    BY <1>1, <1>2, PTL DEF RecordsSpec

-----------------------------------------------------------------------------
(* What it implies *)

\* Rows are those of their tables, and requests write columns that there are.
LEMMA RowTyped ==
    ASSUME RInv
    PROVE  RowTypeOK
  <1>1. ASSUME NEW i \in Ids, row[i] # NoRow PROVE row[i] \in TableOfKind[row[i].kind]
    BY <1>1 DEF RInv, RowSound, InTable
  <1>2. ASSUME NEW d \in Desks, work[d] # NoWork, NEW i \in DOMAIN work[d].set
        PROVE  DOMAIN work[d].set[i] \subseteq DOMAIN row[i]
    <2>1. PICK w : w = work[d] /\ WorkSound(w)
      BY <1>2 DEF RInv
    <2>2. i \in Ids /\ row[i] # NoRow /\ Typed(TableOfKind[row[i].kind], w.set[i])
      BY <1>2, <2>1 DEF WorkSound, Fits
    <2> QED
      BY <1>1, <2>1, <2>2 DEF Typed
  <1> QED
    BY <1>1, <1>2 DEF RInv, ShapesOK, RowTypeOK

\* The rows that the backlog counts, one by one.
Counted(r) ==
    \/ r.kind = "fba_shipment" /\ ~r.deleted
       /\ r.status \in {"working", "shipped", "in_review", "submitted"}
    \/ r.kind = "replenishment" /\ r.status = "pending"
    \/ r.kind = "fba_exception" /\ r.status \in {"open", "investigating"}
    \/ r.kind = "alert" /\ r.status \in {"firing", "acknowledged"}
    \/ r.kind = "ticket" /\ r.status \in {"open", "in_progress", "pending_customer", "escalated"}
    \/ r.kind = "return" /\ r.status \in {"requested", "approved"}
    \/ r.kind = "complaint" /\ r.status \in {"open", "investigating", "escalated"}

\* The backlog, which the statistics collect, row by row.
LEMMA BacklogRows == Backlog = {i \in Ids : Counted(row[i])}
  <1>1. /\ FbaStatistics.active_shipments
             = Undeleted("fba_shipment")
               \cap With("fba_shipment", {"working", "shipped", "in_review", "submitted"})
        /\ FbaStatistics.pending_replenishment_plans = With("replenishment", {"pending"})
    BY DEF FbaStatistics
  <1>2. ExceptionStatistics.open_count = With("fba_exception", {"open", "investigating"})
    BY DEF ExceptionStatistics
  <1>3. /\ AlertSummary.firing = With("alert", {"firing"})
        /\ AlertSummary.acknowledged = With("alert", {"acknowledged"})
    BY DEF AlertSummary
  <1>4. /\ CrmStatistics.open_tickets
             = With("ticket", {"open", "in_progress", "pending_customer", "escalated"})
        /\ CrmStatistics.pending_returns = With("return", {"requested", "approved"})
        /\ CrmStatistics.open_complaints
             = With("complaint", {"open", "investigating", "escalated"})
    BY DEF CrmStatistics
  <1>5. Undeleted("fba_shipment") = {i \in Ids : row[i].kind = "fba_shipment" /\ ~row[i].deleted}
    BY DEF Undeleted, RowsOf
  <1>6. ASSUME NEW kind, NEW statuses
        PROVE  With(kind, statuses) = {i \in Ids : row[i].kind = kind /\ row[i].status \in statuses}
    BY DEF With, RowsOf
  <1> QED
    BY <1>1, <1>2, <1>3, <1>4, <1>5, <1>6 DEF Backlog, Counted

\* A row of a table is counted exactly while it is unsettled and not overlooked.
LEMMA CountedRow ==
    ASSUME NEW r, InTable(r)
    PROVE  Counted(r) <=> Unsettled(r) /\ ~Overlooked(r)
  <1>1. CASE r.kind = "fba_shipment"
    <2>1. r \in FbaShipments
      BY <1>1, FbaTables DEF InTable
    <2> QED
      BY <1>1, <2>1 DEF Counted, Unsettled, Overlooked, FbaShipments, FbaShipmentTable
  <1>2. CASE r.kind = "fba_exception"
    <2>1. r \in FbaExceptions
      BY <1>2, FbaTables DEF InTable
    <2> QED
      BY <1>2, <2>1 DEF Counted, Unsettled, Overlooked, FbaExceptions, ExceptionTable
  <1>3. CASE r.kind = "alert"
    <2>1. r \in Alerts
      BY <1>3, SomTables DEF InTable
    <2> QED
      BY <1>3, <2>1 DEF Counted, Unsettled, Overlooked, Alerts, AlertTable
  <1>4. CASE r.kind = "ticket"
    <2>1. r \in Tickets
      BY <1>4, CrmTables DEF InTable
    <2> QED
      BY <1>4, <2>1 DEF Counted, Unsettled, Overlooked, Tickets, TicketTable
  <1>5. CASE r.kind = "return"
    <2>1. r \in Returns
      BY <1>5, CrmTables DEF InTable
    <2> QED
      BY <1>5, <2>1 DEF Counted, Unsettled, Overlooked, Returns, ReturnTable, CrmFinal
  <1>6. CASE r.kind = "complaint"
    <2>1. r \in Complaints
      BY <1>6, CrmTables DEF InTable
    <2> QED
      BY <1>6, <2>1 DEF Counted, Unsettled, Overlooked, Complaints, ComplaintTable
  <1>7. CASE r.kind \notin {"fba_shipment", "fba_exception", "alert", "ticket", "return", "complaint"}
    BY <1>7 DEF Counted, Unsettled, Overlooked
  <1> QED
    BY <1>1, <1>2, <1>3, <1>4, <1>5, <1>6, <1>7

\* The figures of what is open, from the rows that they count.
LEMMA BacklogCounted ==
    ASSUME RInv
    PROVE  BacklogIsCounted
  <1>1. ASSUME NEW i \in Ids
        PROVE  Counted(row[i]) <=> row[i] # NoRow /\ Unsettled(row[i]) /\ ~Overlooked(row[i])
    <2>1. CASE row[i] = NoRow
      BY <2>1, NoRowKind DEF Counted
    <2>2. CASE row[i] # NoRow
      BY <2>2, CountedRow DEF RInv, RowSound
    <2> QED
      BY <2>1, <2>2
  <1>2. Backlog = {i \in Ids : row[i] # NoRow /\ Unsettled(row[i]) /\ ~Overlooked(row[i])}
    BY <1>1, BacklogRows
  <1>3. CsKpis = CrmStatistics.open_tickets
    BY DEF CsKpis, CrmStatistics
  <1>4. CsTodos \subseteq CsKpis
    BY DEF CsTodos, CsKpis, With
  <1>5. CrmStatistics.overdue_tickets = CsKpis \cup With("ticket", {"reopened"})
    <2>1. CrmStatistics.overdue_tickets
            = RowsOf("ticket") \ With("ticket", {"resolved", "closed", "cancelled"})
      BY DEF CrmStatistics
    <2>2. ASSUME NEW i \in RowsOf("ticket") PROVE row[i].status \in DOMAIN TicketTable
      <3>1. i \in Ids /\ row[i].kind = "ticket"
        BY <2>2 DEF RowsOf
      <3>2. row[i] \in Tickets
        BY <3>1, NoRowKind, CrmTables DEF RInv, RowSound, InTable
      <3> QED
        BY <3>2 DEF Tickets
    <2> QED
      BY <2>1, <2>2 DEF CsKpis, With, TicketTable
  <1> QED
    BY <1>2, <1>3, <1>4, <1>5 DEF BacklogIsCounted

\* What a date says is over is in no figure of what is open.
LEMMA NothingSettledIsOpen ==
    ASSUME RInv
    PROVE  SettledIsNotOpen
  <1>1. /\ ExceptionStatistics.averaged = {i \in RowsOf("fba_exception") : row[i].resolved_at}
        /\ ExceptionStatistics.open_count = With("fba_exception", {"open", "investigating"})
    BY DEF ExceptionStatistics
  <1>2. FbaStatistics.active_shipments
          = Undeleted("fba_shipment")
            \cap With("fba_shipment", {"working", "shipped", "in_review", "submitted"})
    BY DEF FbaStatistics
  <1>3. CrmStatistics.pending_returns = With("return", {"requested", "approved"})
    BY DEF CrmStatistics
  <1>4. ASSUME NEW i \in Ids \ mixed, row[i].kind # "none" PROVE Settled(row[i])
    BY <1>4, NoRowKind DEF RInv, RowGood, Good
  <1>5. ASSUME NEW i \in Ids \ mixed, i \in ExceptionStatistics.averaged
        PROVE  i \notin ExceptionStatistics.open_count
    <2>1. row[i].kind = "fba_exception" /\ row[i].resolved_at
      BY <1>1, <1>5 DEF RowsOf
    <2>2. row[i].status \in {"resolved", "closed"}
      BY <1>4, <2>1 DEF Settled
    <2> QED
      BY <1>1, <2>2 DEF With
  <1>6. ASSUME NEW i \in Ids \ mixed, i \in FbaStatistics.active_shipments
        PROVE  ~row[i].received_at
    <2>1. /\ row[i].kind = "fba_shipment"
          /\ row[i].status \in {"working", "shipped", "in_review", "submitted"}
      BY <1>2, <1>6 DEF With, RowsOf
    <2> QED
      BY <1>4, <2>1 DEF Settled
  <1>7. ASSUME NEW i \in Ids \ mixed, i \in CrmStatistics.pending_returns
        PROVE  ~row[i].refunded_at /\ ~row[i].received_at
    <2>1. row[i].kind = "return" /\ row[i].status \in {"requested", "approved"}
      BY <1>3, <1>7 DEF With, RowsOf
    <2> QED
      BY <1>4, <2>1 DEF Settled
  <1> QED
    BY <1>5, <1>6, <1>7 DEF SettledIsNotOpen

LEMMA NoRowDated ==
    /\ FbaDated(NoRow) /\ CrmDated(NoRow) /\ PdmDated(NoRow)
    /\ TransfersDated(NoRow) /\ PaperworkDated(NoRow) /\ IntegrationDated(NoRow)
  BY NoRowKind DEF FbaDated, CrmDated, PdmDated, TransfersDated, PaperworkDated, IntegrationDated

\* Rows are those of their tables, their dates go with their statuses, and what
\* the reports count as open is what is unsettled.
THEOREM RecordsHold == RecordsSpec => []RecordsAreSound
  <1>1. RInv => RecordsAreSound
    <2>1. RInv => DatesTellStatus
      BY NoRowDated DEF RInv, RowGood, Good, Dated, DatesTellStatus
    <2> QED
      BY <2>1, RowTyped, BacklogCounted, NothingSettledIsOpen DEF RecordsAreSound
  <1> QED
    BY <1>1, RowsHold, PTL

\* Counters are what requests added to them, but for those that overlapped.
THEOREM CountersHold == RecordsSpec => []CountersAreSound
  <1>1. RInv => AccumulatorsCount
    BY DEF RInv, RowGood, AccumulatorsCount
  <1>2. RInv => AveragesAgree
    <2>1. ASSUME RInv, NEW i \in RowsOf("customer") \ mixed
          PROVE  row[i].average = <<row[i].amount, row[i].count>>
      <3>1. i \in Ids \ mixed /\ row[i].kind = "customer" /\ row[i] # NoRow
        BY <2>1, NoRowKind DEF RowsOf
      <3>2. Settled(row[i])
        BY <2>1, <3>1 DEF RInv, RowGood, Good
      <3> QED
        BY <3>1, <3>2 DEF Settled
    <2> QED
      BY <2>1 DEF AveragesAgree
  <1>3. RInv => CountersAreSound
    BY <1>1, <1>2 DEF CountersAreSound
  <1> QED
    BY <1>3, RowsHold, PTL

\* A listing on its platform has a title, is not deleted and went there with a
\* price (a price rule alone may cut it to 0.0 afterwards), what is on sale is
\* complete, and a bar code names a SKU exactly while it is allocated.
THEOREM CatalogueHolds == RecordsSpec => []CatalogueIsSound
  <1>1. RInv => OfferedIsSound
    BY NoRowKind DEF RInv, RowGood, Good, Offered, OfferedIsSound, OnPlatform
  <1>2. ASSUME RInv, NEW i, row[i].kind \in {"spu", "upc"}, i \in Ids PROVE Lasting(row[i])
    BY <1>2, NoRowKind DEF RInv, RowSound
  <1>3. RInv => OnSaleIsComplete
    BY <1>2 DEF OnSaleIsComplete, RowsOf, Lasting, SpuComplete
  <1>4. RInv => BarCodesNameTheirSku
    BY <1>2 DEF BarCodesNameTheirSku, RowsOf, Lasting
  <1>5. RInv => CatalogueIsSound
    BY <1>1, <1>3, <1>4 DEF CatalogueIsSound
  <1> QED
    BY <1>5, RowsHold, PTL

\* A final status is kept by every request that had loaded it, and only what
\* lives gets details.
THEOREM FinishedStay == RecordsSpec => FinishedStays
  <1>1. RInv /\ [RecordsNext]_recordVars
        => [\A i \in Ids \ mixed' : Final(row[i]) => row'[i].status = row[i].status]_recordVars
    BY RecordsStep DEF SoundStep, FinalKept
  <1>2. RInv /\ [RecordsNext]_recordVars
        => [\A j \in Ids :
               row[j] = NoRow /\ row'[j].kind \in {"box_label", "sku", "ad_group", "voucher"}
               => row'[j].of \in mixed' \/ ~ClosedToDetails(row[row'[j].of])]_recordVars
    BY RecordsStep DEF SoundStep, LivingOnly
  <1> QED
    BY <1>1, <1>2, RowsHold, PTL DEF RecordsSpec, FinishedStays, FinalRecordsStay, DetailsOfTheLiving

-----------------------------------------------------------------------------
(* Codes that users choose *)

\* A creation under way has found no row: its lookup saw none.
KeyInv ==
    /\ KeyTypeOK
    /\ creating \in [KeySessions -> [tenant : Tenants, saw : {{}}] \cup {NoCreation}]
    /\ \A t \in Tenants : \A x, y \in Visible(t) \ overlapped : x = y

LEMMA KeysInitially == KeyInit => KeyInv
<1> SUFFICES ASSUME KeyInit PROVE KeyInv
  OBVIOUS
<1>1. Present = {}
  BY DEF KeyInit, Present
<1>2. \A t \in Tenants : Visible(t) = {}
  BY <1>1 DEF Visible
<1> QED
  BY <1>1, <1>2 DEF KeyInit, KeyInv, KeyTypeOK

\* A creation is refused unless its lookup finds no row.
LEMMA LookUpKeeps ==
    ASSUME KeyInv, NEW s \in KeySessions, NEW t \in Tenants, LookUp(s, t)
    PROVE  KeyInv'
<1>1. LookedUp(t) \in {"none", "duplicate", "failed"} /\ (LookedUp(t) = "none" => Visible(t) = {})
  BY DEF LookedUp
<1>2. outcome' = [outcome EXCEPT ![s] = LookedUp(t)] /\ outcome'[s] = LookedUp(t)
  BY DEF LookUp, KeyInv, KeyTypeOK
<1>3. outcome' \in [KeySessions -> {"none", "created", "duplicate", "failed"}]
  BY <1>1, <1>2 DEF KeyInv, KeyTypeOK
<1>4. creating' \in [KeySessions -> [tenant : Tenants, saw : {{}}] \cup {NoCreation}]
  <2>1. CASE outcome'[s] = "none"
    <3>1. Visible(t) \in {{}}
      BY <1>1, <1>2, <2>1
    <3>2. creating' = [creating EXCEPT ![s] = [tenant |-> t, saw |-> Visible(t)]]
      BY <2>1 DEF LookUp
    <3> QED
      BY <3>1, <3>2 DEF KeyInv
  <2>2. CASE outcome'[s] # "none"
    BY <2>2 DEF LookUp, KeyInv
  <2> QED
    BY <2>1, <2>2
<1>5. UNCHANGED <<key, owner, deleted, overlapped>>
  BY DEF LookUp
<1> QED
  BY <1>3, <1>4, <1>5 DEF KeyInv, KeyTypeOK, Present, Visible

\* A row that is inserted where its lookup would see another is one that
\* overlapped; otherwise it is the only one that is seen.
LEMMA InsertKeeps ==
    ASSUME KeyInv, NEW s \in KeySessions, InsertRow(s)
    PROVE  KeyInv'
<1> DEFINE t == creating[s].tenant
<1>1. t \in Tenants /\ creating[s].saw = {}
  BY DEF InsertRow, KeyInv
<1>2. creating' \in [KeySessions -> [tenant : Tenants, saw : {{}}] \cup {NoCreation}]
  BY DEF InsertRow, KeyInv
<1>3. UNCHANGED <<key, deleted>>
  BY DEF InsertRow
<1>4. CASE Clashing(t) # {}
  <2>1. outcome' = [outcome EXCEPT ![s] = "failed"] /\ UNCHANGED <<owner, overlapped>>
    BY <1>4 DEF InsertRow
  <2> QED
    BY <1>2, <1>3, <2>1 DEF KeyInv, KeyTypeOK, Present, Visible
<1>5. CASE Clashing(t) = {}
  <2>1. PICK r \in KeyRows \ Present :
            /\ owner' = [owner EXCEPT ![r] = t]
            /\ overlapped' = IF Visible(t) \subseteq creating[s].saw
                                THEN overlapped ELSE overlapped \cup {r}
            /\ outcome' = [outcome EXCEPT ![s] = "created"]
    BY <1>5 DEF InsertRow
  <2> HIDE DEF t
  <2>2. /\ owner' \in [KeyRows -> Tenants \cup {"none"}] /\ owner'[r] = t
        /\ \A x \in KeyRows : x # r => owner'[x] = owner[x]
    BY <1>1, <2>1 DEF KeyInv, KeyTypeOK
  <2>3. Present' = Present \cup {r}
    BY <1>1, <2>1, <2>2, KeysAssumption DEF Present
  <2>4. KeyTypeOK'
    BY <1>3, <2>1, <2>2, <2>3 DEF KeyInv, KeyTypeOK
  <2>5. ASSUME NEW u \in Tenants
        PROVE  /\ Visible(u)' \subseteq Visible(u) \cup {r}
               /\ r \in Visible(u)' => Visible(u) = Visible(t)
    <3>1. Visible(u)' \subseteq Visible(u) \cup {r}
      BY <1>3, <2>2, <2>3 DEF Visible, Present
    <3>2. r \in Visible(u)' => u = t \/ key.lookup \in {"anyone's", "anyone's live"}
      BY <1>3, <2>2 DEF Visible
    <3>3. key.lookup \in {"anyone's", "anyone's live"} => Visible(u) = Visible(t)
      BY DEF Visible
    <3> QED
      BY <3>1, <3>2, <3>3
  <2>6. ASSUME NEW u \in Tenants, NEW x \in (Visible(u) \ overlapped)',
               NEW y \in (Visible(u) \ overlapped)'
        PROVE  x = y
    <3>1. overlapped \subseteq overlapped'
      BY <2>1
    <3>2. CASE r \in (Visible(u) \ overlapped)'
      <4>1. Visible(t) = {}
        BY <1>1, <2>1, <3>2
      <4> QED
        BY <2>5, <2>6, <3>2, <4>1
    <3>3. CASE r \notin (Visible(u) \ overlapped)'
      BY <2>5, <2>6, <3>1, <3>3 DEF KeyInv
    <3> QED
      BY <3>2, <3>3
  <2>7. \A u \in Tenants : \A x, y \in (Visible(u) \ overlapped)' : x = y
    BY <2>6
  <2> QED
    BY <1>2, <2>4, <2>7 DEF KeyInv
<1> QED
  BY <1>4, <1>5

LEMMA DeleteKeeps ==
    ASSUME KeyInv, NEW r \in KeyRows, DeleteRow(r)
    PROVE  KeyInv'
<1>1. UNCHANGED <<key, creating, outcome>> /\ r \in Present \ deleted
  BY DEF DeleteRow
<1>2. /\ Present' \subseteq Present
      /\ KeyTypeOK'
      /\ \A u \in Tenants : (Visible(u) \ overlapped)' \subseteq Visible(u) \ overlapped
  <2>1. CASE deleted' = deleted \cup {r} /\ UNCHANGED <<owner, overlapped>>
    BY <1>1, <2>1 DEF KeyInv, KeyTypeOK, Present, Visible
  <2>2. CASE /\ owner' = [owner EXCEPT ![r] = "none"] /\ overlapped' = overlapped \ {r}
             /\ UNCHANGED deleted
    <3>1. /\ owner' \in [KeyRows -> Tenants \cup {"none"}] /\ owner'[r] = "none"
          /\ \A x \in KeyRows : x # r => owner'[x] = owner[x]
      BY <2>2 DEF KeyInv, KeyTypeOK
    <3>2. Present' = Present \ {r}
      BY <3>1 DEF Present
    <3>3. KeyTypeOK'
      BY <1>1, <2>2, <3>1, <3>2 DEF KeyInv, KeyTypeOK
    <3>4. \A u \in Tenants : (Visible(u) \ overlapped)' \subseteq Visible(u) \ overlapped
      BY <1>1, <2>2, <3>1, <3>2 DEF Visible, Present
    <3> QED
      BY <3>2, <3>3, <3>4
  <2> QED
    BY <2>1, <2>2 DEF DeleteRow
<1> QED
  BY <1>1, <1>2 DEF KeyInv

LEMMA KeysStep == KeyInv /\ [KeyNext]_keyVars => KeyInv'
<1> SUFFICES ASSUME KeyInv, [KeyNext]_keyVars PROVE KeyInv'
  OBVIOUS
<1>1. CASE UNCHANGED keyVars
  BY <1>1 DEF keyVars, KeyInv, KeyTypeOK, Present, Visible
<1> QED
  BY <1>1, LookUpKeeps, InsertKeeps, DeleteKeeps DEF KeyNext

\* Whatever the lookup sees, the database enforces and a deletion leaves, two
\* rows under one code come from creations that overlapped, for any number of
\* tenants, rows and sessions.
THEOREM KeysHold == KeySpec => [](KeyTypeOK /\ DuplicatesAreOverlaps)
<1>1. KeyInv => KeyTypeOK /\ DuplicatesAreOverlaps
  <2> SUFFICES ASSUME KeyInv, NEW t \in Tenants
               PROVE  Cardinality(Visible(t) \ overlapped) <= 1
    BY DEF KeyInv, DuplicatesAreOverlaps
  <2>1. CASE Visible(t) \ overlapped = {}
    BY <2>1, FS_EmptySet
  <2>2. CASE Visible(t) \ overlapped # {}
    <3>1. PICK x : x \in Visible(t) \ overlapped
      BY <2>2
    <3>2. Visible(t) \ overlapped = {x}
      BY <3>1 DEF KeyInv
    <3>3. Cardinality({x}) = 1
      BY FS_Singleton
    <3> QED
      BY <3>2, <3>3
  <2> QED
    BY <2>1, <2>2
<1> QED
  BY <1>1, KeysInitially, KeysStep, PTL DEF KeySpec

-----------------------------------------------------------------------------
(* Numbers of documents *)

NumberRules == [reset : {"daily", "monthly", "yearly", "never"},
                format : {"%Y%m%d", "%Y%m", "empty"},
                seq : 0..MaxSeq, last : {Never} \cup 0..LastDay]

\* Days of one period are those between which the sequence does not start again.
Period(rule, day) ==
    IF rule.reset = "daily" THEN day
    ELSE IF rule.reset = "monthly" THEN Month(day) ELSE 0

\* Every number has the date of some day until the last one, and those of the
\* period of the last one do not exceed the sequence.
IssuedBelow(rule, numbers) ==
    \A n \in numbers : \E day \in 0..rule.last : \E q \in Nat :
        /\ n = <<DatePart(rule.format, day), q>>
        /\ Period(rule, day) = Period(rule, rule.last) => q <= rule.seq

\* What a session loaded, and the number it made of it.
Issue(i) ==
    /\ i.day \in 0..today /\ i.rule.last <= i.day
    /\ i.seq = NextSeq(i.rule, i.day)
    /\ i.rule.reset = numberRule.reset /\ i.rule.format = numberRule.format

NumberInv ==
    /\ NumberTypeOK
    /\ issuing \in [NumberSessions ->
                       [rule : NumberRules, day : 0..LastDay, seq : 1..MaxSeq] \cup {NoNumber}]
    /\ numberRule.last <= today
    /\ \A s \in NumberSessions : issuing[s] # NoNumber => Issue(issuing[s])
    /\ ~numberRaced /\ DateTellsResets(numberRule) =>
          repeated = {} /\ IssuedBelow(numberRule, issued)

LEMMA RulesHold ==
    ASSUME NEW rule \in NumberRules
    PROVE  /\ rule.reset \in {"daily", "monthly", "yearly", "never"}
           /\ rule.format \in {"%Y%m%d", "%Y%m", "empty"}
           /\ rule.seq \in 0..MaxSeq /\ rule.seq \in Nat
           /\ rule.last \in {Never} \cup 0..LastDay /\ rule.last \in Int
           /\ Never \in Int /\ Never < 0
<1>1. /\ rule.reset \in {"daily", "monthly", "yearly", "never"}
      /\ rule.format \in {"%Y%m%d", "%Y%m", "empty"}
      /\ rule.seq \in 0..MaxSeq /\ rule.last \in {Never} \cup 0..LastDay
  BY DEF NumberRules
<1>2. Never \in Int /\ Never < 0
  BY DEF Never
<1>3. rule.seq \in Nat /\ rule.last \in Int
  BY <1>1, <1>2, DocNumbersAssumption
<1> QED
  BY <1>1, <1>2, <1>3

LEMMA MonthsAreOrdered ==
    ASSUME NEW a \in Nat, NEW b \in Nat, a <= b
    PROVE  Month(a) \in Int /\ Month(b) \in Int /\ Month(a) <= Month(b)
BY DocNumbersAssumption DEF Month

\* An earlier day of the period of a day shows that the sequence goes on.
LEMMA PeriodGoesOn ==
    ASSUME NEW rule \in NumberRules, NEW day \in Nat, rule.last <= day,
           NEW d \in 0..rule.last, Period(rule, d) = Period(rule, day)
    PROVE  ~ShouldReset(rule, day) /\ Period(rule, d) = Period(rule, rule.last)
<1>1. /\ rule.last \in Nat /\ d \in Nat /\ d <= rule.last /\ rule.last # Never
      /\ rule.reset \in {"daily", "monthly", "yearly", "never"}
  BY RulesHold
<1>2. /\ Month(d) \in Int /\ Month(rule.last) \in Int /\ Month(day) \in Int
      /\ Month(d) <= Month(rule.last) /\ Month(rule.last) <= Month(day)
  BY <1>1, MonthsAreOrdered
<1>3. CASE rule.reset = "daily"
  BY <1>1, <1>3 DEF ShouldReset, Period
<1>4. CASE rule.reset = "monthly"
  BY <1>1, <1>2, <1>4 DEF ShouldReset, Period
<1>5. CASE rule.reset \in {"yearly", "never"}
  BY <1>1, <1>5 DEF ShouldReset, Period
<1> QED
  BY <1>1, <1>3, <1>4, <1>5

\* Two days with one date are days of one period.
LEMMA DatesTellPeriods ==
    ASSUME NEW rule \in NumberRules, DateTellsResets(rule), NEW d \in Nat, NEW day \in Nat,
           DatePart(rule.format, d) = DatePart(rule.format, day)
    PROVE  Period(rule, d) = Period(rule, day)
<1>1. /\ rule.reset \in {"daily", "monthly", "yearly", "never"}
      /\ rule.format \in {"%Y%m%d", "%Y%m", "empty"}
  BY DEF NumberRules
<1>2. /\ rule.format = "%Y%m%d" => d = day
      /\ rule.format = "%Y%m" => Month(d) = Month(day)
  BY DEF DatePart
<1>3. CASE rule.reset = "daily"
  BY <1>2, <1>3 DEF DateTellsResets, Period
<1>4. CASE rule.reset = "monthly"
  BY <1>2, <1>4 DEF DateTellsResets, Period
<1>5. CASE rule.reset \in {"yearly", "never"}
  BY <1>5 DEF Period
<1> QED
  BY <1>1, <1>3, <1>4, <1>5

LEMMA SequencesCount ==
    ASSUME NEW rule \in NumberRules, NEW day
    PROVE  /\ NextSeq(rule, day) \in Nat \ {0}
           /\ ~ShouldReset(rule, day) => NextSeq(rule, day) = rule.seq + 1
           /\ rule.seq \in Nat
BY RulesHold DEF NextSeq

\* The next number of a rule is new, and it is the greatest of its period.
LEMMA NextIsNew ==
    ASSUME NEW rule \in NumberRules, NEW day \in Nat, rule.last <= day,
           NEW numbers, DateTellsResets(rule), IssuedBelow(rule, numbers),
           NEW next \in NumberRules,
           next.reset = rule.reset, next.format = rule.format,
           next.seq = NextSeq(rule, day), next.last = day,
           NEW number, number = <<DatePart(rule.format, day), NextSeq(rule, day)>>
    PROVE  number \notin numbers /\ IssuedBelow(next, numbers \cup {number})
<1>1. PICK seq \in Nat : seq = NextSeq(rule, day)
  BY SequencesCount
<1>2. \A d : Period(next, d) = Period(rule, d)
  BY DEF Period
<1>3. ASSUME NEW n \in numbers
      PROVE  /\ n # number
             /\ \E d \in 0..next.last : \E q \in Nat :
                    /\ n = <<DatePart(next.format, d), q>>
                    /\ Period(next, d) = Period(next, next.last) => q <= next.seq
  <2>1. PICK d \in 0..rule.last, q \in Nat :
            /\ n = <<DatePart(rule.format, d), q>>
            /\ Period(rule, d) = Period(rule, rule.last) => q <= rule.seq
    BY DEF IssuedBelow
  <2>2. d \in Nat /\ d \in 0..next.last
    <3>1. rule.last \in Int
      BY RulesHold
    <3> QED
      BY <3>1
  <2>3. Period(rule, d) = Period(rule, day) => q <= rule.seq /\ seq = rule.seq + 1 /\ rule.seq \in Nat
    BY <1>1, <2>1, PeriodGoesOn, SequencesCount
  <2>4. Period(next, d) = Period(next, next.last) => q <= next.seq
    BY <1>1, <1>2, <2>3
  <2>5. n # number
    <3> SUFFICES ASSUME n = number PROVE FALSE
      OBVIOUS
    <3>1. DatePart(rule.format, d) = DatePart(rule.format, day) /\ q = seq
      BY <1>1, <2>1
    <3>2. Period(rule, d) = Period(rule, day)
      BY <2>2, <3>1, DatesTellPeriods
    <3> QED
      BY <2>3, <3>1, <3>2
  <2> QED
    BY <2>1, <2>2, <2>4, <2>5
<1>4. \E d \in 0..next.last : \E q \in Nat :
          /\ number = <<DatePart(next.format, d), q>>
          /\ Period(next, d) = Period(next, next.last) => q <= next.seq
  <2>1. day \in 0..next.last
    OBVIOUS
  <2> QED
    BY <1>1, <2>1
<1> QED
  BY <1>3, <1>4 DEF IssuedBelow

LEMMA NumbersInitially == NumberInit => NumberInv
<1> SUFFICES ASSUME NumberInit PROVE NumberInv
  OBVIOUS
<1>1. PICK reset \in {"daily", "monthly", "yearly", "never"}, format \in {"%Y%m%d", "%Y%m", "empty"} :
          numberRule = DefineRule(reset, format)
  BY DEF NumberInit
<1>2. /\ numberRule \in NumberRules /\ numberRule.last = Never
      /\ 0 \in 0..LastDay /\ Never <= 0
  <2>1. 0 \in 0..MaxSeq /\ 0 \in 0..LastDay
    BY DocNumbersAssumption
  <2>2. Never <= 0
    BY DEF Never
  <2> QED
    BY <1>1, <2>1, <2>2 DEF DefineRule, NumberRules
<1>3. today = 0 /\ issued = {} /\ repeated = {} /\ numberRaced = FALSE
  BY DEF NumberInit
<1>4. NumberTypeOK
  BY <1>2, <1>3 DEF NumberTypeOK, NumberRules
<1>5. IssuedBelow(numberRule, issued)
  BY <1>3 DEF IssuedBelow
<1>6. \A s \in NumberSessions : issuing[s] = NoNumber
  BY DEF NumberInit
<1>7. issuing \in [NumberSessions ->
          [rule : NumberRules, day : 0..LastDay, seq : 1..MaxSeq] \cup {NoNumber}]
  BY DEF NumberInit
<1> QED
  BY <1>2, <1>3, <1>4, <1>5, <1>6, <1>7 DEF NumberInv

LEMMA GenerateKeeps ==
    ASSUME NumberInv, NEW s \in NumberSessions, Generate(s)
    PROVE  NumberInv'
<1> DEFINE i == [rule |-> numberRule, day |-> today, seq |-> NextSeq(numberRule, today)]
<1>1. /\ issuing' = [issuing EXCEPT ![s] = i]
      /\ NextSeq(numberRule, today) <= MaxSeq
      /\ UNCHANGED <<numberRule, today, issued, repeated, numberRaced>>
  BY DEF Generate
<1>2. numberRule \in NumberRules /\ today \in 0..LastDay
  BY DEF NumberInv, NumberTypeOK, NumberRules
<1>3. NextSeq(numberRule, today) \in 1..MaxSeq
  BY <1>1, <1>2, SequencesCount, DocNumbersAssumption
<1>4. i \in [rule : NumberRules, day : 0..LastDay, seq : 1..MaxSeq] /\ i.rule = numberRule
      /\ i.day = today /\ i.seq = NextSeq(numberRule, today)
  BY <1>2, <1>3
<1> HIDE DEF i
<1>5. Issue(i)
  BY <1>2, <1>4, DocNumbersAssumption DEF Issue, NumberInv
<1>6. /\ issuing' \in [NumberSessions ->
             [rule : NumberRules, day : 0..LastDay, seq : 1..MaxSeq] \cup {NoNumber}]
      /\ \A r \in NumberSessions : issuing'[r] = IF r = s THEN i ELSE issuing[r]
  BY <1>1, <1>4 DEF NumberInv
<1>7. \A r \in NumberSessions : issuing'[r] # NoNumber => Issue(issuing'[r])
  BY <1>5, <1>6 DEF NumberInv
<1>8. \A r \in NumberSessions : issuing'[r] # NoNumber => Issue(issuing[r])'
  BY <1>1, <1>7 DEF Issue
<1> QED
  BY <1>1, <1>6, <1>8 DEF NumberInv, NumberTypeOK

LEMMA CommitNumberKeeps ==
    ASSUME NumberInv, NEW s \in NumberSessions, CommitNumber(s)
    PROVE  NumberInv'
<1> DEFINE Claims == [rule : NumberRules, day : 0..LastDay, seq : 1..MaxSeq]
<1>1. PICK i \in Claims : i = issuing[s]
  BY DEF NumberInv, CommitNumber
<1>2. Issue(i)
  BY <1>1 DEF NumberInv, CommitNumber
<1> DEFINE number == <<DatePart(i.rule.format, i.day), i.seq>>
<1>3. /\ numberRule' = [numberRule EXCEPT !.seq = IF i.seq = i.rule.seq THEN @ ELSE i.seq,
                                          !.last = i.day]
      /\ issued' = issued \cup {number}
      /\ repeated' = repeated \cup (issued \cap {number})
      /\ numberRaced' = (numberRaced \/ numberRule # i.rule)
      /\ issuing' = [issuing EXCEPT ![s] = NoNumber] /\ UNCHANGED today
  BY <1>1 DEF CommitNumber
<1>4. /\ numberRule \in NumberRules /\ today \in 0..LastDay /\ i.rule \in NumberRules
      /\ i.day \in 0..LastDay /\ i.day \in Nat /\ i.seq \in 1..MaxSeq
      /\ i.day <= today
  <2>1. numberRule \in NumberRules /\ today \in 0..LastDay
    BY DEF NumberInv, NumberTypeOK, NumberRules
  <2>2. i.rule \in NumberRules /\ i.day \in 0..LastDay /\ i.seq \in 1..MaxSeq
    OBVIOUS
  <2> QED
    BY <1>2, <2>1, <2>2, DocNumbersAssumption DEF Issue
<1>5. PICK q \in 0..MaxSeq : q = IF i.seq = i.rule.seq THEN numberRule.seq ELSE i.seq
  <2>1. i.seq \in 0..MaxSeq /\ numberRule.seq \in 0..MaxSeq
    BY <1>4, RulesHold, DocNumbersAssumption
  <2> QED
    BY <2>1
<1>6. PICK next : next = [numberRule EXCEPT !.seq = q, !.last = i.day]
  OBVIOUS
<1>7. next \in NumberRules /\ next.seq = q /\ next.last = i.day
      /\ next.reset = numberRule.reset /\ next.format = numberRule.format
  BY <1>4, <1>5, <1>6 DEF NumberRules
<1>8. numberRule' = next
  BY <1>3, <1>5, <1>6
<1>9. NumberTypeOK'
  <2>1. numberRaced' \in BOOLEAN
    BY <1>3 DEF NumberInv, NumberTypeOK
  <2> QED
    BY <1>3, <1>4, <1>7, <1>8, <2>1 DEF NumberInv, NumberTypeOK, NumberRules
<1>10. /\ issuing' \in [NumberSessions -> Claims \cup {NoNumber}]
       /\ \A r \in NumberSessions : issuing'[r] # NoNumber => issuing[r] # NoNumber /\ issuing'[r] = issuing[r]
  BY <1>3 DEF NumberInv
<1>11. \A r \in NumberSessions : issuing'[r] # NoNumber => Issue(issuing[r])'
  <2> SUFFICES ASSUME NEW r \in NumberSessions, issuing'[r] # NoNumber
               PROVE  Issue(issuing[r])'
    OBVIOUS
  <2>1. Issue(issuing[r]) /\ issuing'[r] = issuing[r]
    BY <1>10 DEF NumberInv
  <2> QED
    BY <1>3, <1>7, <1>8, <2>1 DEF Issue
<1>12. ASSUME ~numberRaced', DateTellsResets(numberRule)'
       PROVE  repeated' = {} /\ IssuedBelow(numberRule, issued)'
  <2>1. ~numberRaced /\ i.rule = numberRule
    BY <1>3, <1>12
  <2>2. DateTellsResets(numberRule)
    BY <1>7, <1>8, <1>12 DEF DateTellsResets
  <2>3. repeated = {} /\ IssuedBelow(numberRule, issued)
    BY <2>1, <2>2 DEF NumberInv
  <2>4. i.seq = NextSeq(numberRule, i.day) /\ numberRule.last <= i.day
    BY <1>2, <2>1 DEF Issue
  <2>5. next.seq = NextSeq(numberRule, i.day)
    BY <1>5, <1>7, <2>1, <2>4
  <2>6. number = <<DatePart(numberRule.format, i.day), NextSeq(numberRule, i.day)>>
    BY <2>1, <2>4
  <2> HIDE DEF number
  <2>7. number \notin issued /\ IssuedBelow(next, issued \cup {number})
    <3>1. PICK n : n = number
      OBVIOUS
    <3>2. PICK numbers : numbers = issued
      OBVIOUS
    <3>3. PICK rule \in NumberRules : rule = numberRule
      BY <1>4
    <3>4. PICK day \in Nat : day = i.day
      BY <1>4
    <3> QED
      BY <1>7, <2>2, <2>3, <2>4, <2>5, <2>6, <3>1, <3>2, <3>3, <3>4, NextIsNew
  <2>8. IssuedBelow(numberRule, issued)'
    BY <1>3, <1>8, <2>7 DEF IssuedBelow
  <2> QED
    BY <1>3, <2>3, <2>7, <2>8
<1> QED
  BY <1>3, <1>4, <1>7, <1>8, <1>9, <1>10, <1>11, <1>12 DEF NumberInv

LEMMA NumbersStep == NumberInv /\ [NumberNext]_numberVars => NumberInv'
<1> SUFFICES ASSUME NumberInv, [NumberNext]_numberVars PROVE NumberInv'
  OBVIOUS
<1>1. CASE NextDay
  <2>1. today' = today + 1 /\ today < LastDay
        /\ UNCHANGED <<numberRule, issuing, issued, repeated, numberRaced>>
    BY <1>1 DEF NextDay
  <2>2. today \in 0..LastDay /\ today' \in 0..LastDay /\ numberRule.last <= today'
    <3>1. today \in 0..LastDay /\ numberRule \in NumberRules /\ numberRule.last <= today
      BY DEF NumberInv, NumberTypeOK, NumberRules
    <3>2. numberRule.last \in Int
      BY <3>1, RulesHold
    <3> QED
      BY <2>1, <3>1, <3>2, DocNumbersAssumption
  <2>3. \A r \in NumberSessions : issuing'[r] # NoNumber => Issue(issuing[r])'
    <3> SUFFICES ASSUME NEW r \in NumberSessions, issuing[r] # NoNumber
                 PROVE  Issue(issuing[r])'
      BY <2>1
    <3>1. Issue(issuing[r])
      BY DEF NumberInv
    <3> QED
      BY <2>1, <2>2, <3>1, DocNumbersAssumption DEF Issue
  <2> QED
    BY <2>1, <2>2, <2>3 DEF NumberInv, NumberTypeOK
<1>2. ASSUME NEW s \in NumberSessions, RollbackNumber(s) PROVE NumberInv'
  <2>1. /\ issuing' = [issuing EXCEPT ![s] = NoNumber]
        /\ UNCHANGED <<numberRule, today, issued, repeated, numberRaced>>
    BY <1>2 DEF RollbackNumber
  <2>2. \A r \in NumberSessions : issuing'[r] # NoNumber => Issue(issuing[r])'
    <3> SUFFICES ASSUME NEW r \in NumberSessions, issuing'[r] # NoNumber
                 PROVE  Issue(issuing[r])'
      OBVIOUS
    <3>1. issuing'[r] = issuing[r] /\ Issue(issuing[r])
      BY <2>1 DEF NumberInv
    <3> QED
      BY <2>1, <3>1 DEF Issue
  <2> QED
    BY <2>1, <2>2 DEF NumberInv, NumberTypeOK
<1>3. CASE UNCHANGED numberVars
  BY <1>3 DEF numberVars, NumberInv, NumberTypeOK, Issue, IssuedBelow, DateTellsResets
<1> QED
  BY <1>1, <1>2, <1>3, GenerateKeeps, CommitNumberKeeps DEF NumberNext

\* A number is handed out once across days, months and resets, unless two
\* requests raced for it or the date part of the rule does not tell the periods
\* of its sequence apart: DocNumberService, however long the months, with any
\* number of sessions.
THEOREM NumbersHold == NumberSpec => [](NumberTypeOK /\ NumbersAreUnique)
<1>1. NumberInv => NumberTypeOK /\ NumbersAreUnique
  BY DEF NumberInv, NumbersAreUnique
<1> QED
  BY <1>1, NumbersInitially, NumbersStep, PTL DEF NumberSpec

\* Codes that users choose and numbers that the system issues name one document.
THEOREM IdentifiersHold == KeySpec /\ NumberSpec => []IdentifiersAreUnique
<1>1. /\ KeyTypeOK /\ DuplicatesAreOverlaps /\ NumberTypeOK /\ NumbersAreUnique
          => IdentifiersAreUnique
  BY DEF IdentifiersAreUnique
<1> QED
  BY <1>1, KeysHold, NumbersHold, PTL

-----------------------------------------------------------------------------
(* Instances and their tasks *)

\* OneOpenTask for one instance.
Open(i) ==
    instance[i].status # "none" =>
        /\ Len(task[i]) = instance[i].node + 1
        /\ \A k \in 1..Len(task[i]) :
              /\ task[i][k].node + 1 = k
              /\ task[i][k].action = "none"
                   <=> (k = Len(task[i]) /\ instance[i].status \notin Decisions)

\* DecisionsAnnounced for one instance.
Announced(i) ==
    /\ announced[i] = IF instance[i].status \in Decisions THEN <<instance[i].status>> ELSE <<>>
    /\ instance[i].status = "rejected" <=>
          \E k \in 1..Len(task[i]) : task[i][k].action = "reject"

EngineInv == TypeOK /\ \A i \in Instances : Open(i) /\ Announced(i)

LEMMA EngineInvImplies == EngineInv => TypeOK /\ OneOpenTask /\ DecisionsAnnounced
  BY DEF EngineInv, Open, Announced, OneOpenTask, DecisionsAnnounced, NextNode, Decided

-----------------------------------------------------------------------------
(* Lemmas about the data *)

LEMMA OpenTaskType == ASSUME NEW n \in Nat PROVE OpenTask(n) \in Task
  BY DEF OpenTask, Task

\* Settling task k writes its action and nothing else.
LEMMA CompletedType ==
    ASSUME TypeOK, NEW i \in Instances, NEW k \in 1..Len(task[i]), NEW action \in Actions
    PROVE  /\ Completed(i, k, action) \in Seq(Task)
           /\ Len(Completed(i, k, action)) = Len(task[i])
           /\ \A j \in 1..Len(task[i]) :
                 /\ Completed(i, k, action)[j].node = task[i][j].node
                 /\ Completed(i, k, action)[j].action = IF j = k THEN action ELSE task[i][j].action
  <1>1. task[i] \in Seq(Task)
    BY DEF TypeOK
  <1>2. task[i][k] \in Task
    BY <1>1, ElementOfSeq
  <1> DEFINE e == [node |-> task[i][k].node, action |-> action]
  <1>3. e \in Task
    BY <1>2 DEF Task
  <1>4. e.node = task[i][k].node /\ e.action = action
    OBVIOUS
  <1>5. Completed(i, k, action) = [task[i] EXCEPT ![k] = e]
    BY DEF Completed
  <1> HIDE DEF e
  <1>6. /\ [task[i] EXCEPT ![k] = e] \in Seq(Task)
        /\ Len([task[i] EXCEPT ![k] = e]) = Len(task[i])
        /\ \A j \in 1..Len(task[i]) :
              [task[i] EXCEPT ![k] = e][j] = IF j = k THEN e ELSE task[i][j]
    BY <1>1, <1>3, ExceptSeq
  <1> QED
    BY <1>4, <1>5, <1>6

\* An open task of a pending instance is the last one.
LEMMA ActionableLast ==
    ASSUME EngineInv, NEW i \in Instances, NEW k, Actionable(i, k)
    PROVE  /\ k \in 1..Len(task[i]) /\ k = Len(task[i])
           /\ Len(task[i]) = instance[i].node + 1
           /\ announced[i] = <<>>
           /\ \A j \in 1..Len(task[i]) : task[i][j].node + 1 = j
           /\ \A j \in 1..Len(task[i]) : j # k => task[i][j].action # "none"
           /\ \A j \in 1..Len(task[i]) : task[i][j].action # "reject"
  BY DEF EngineInv, Actionable, Open, Announced, Decisions

LEMMA InstanceType ==
    ASSUME TypeOK, NEW i \in Instances
    PROVE  /\ instance[i].flow \in Flows \cup {Nil}
           /\ instance[i].target \in Targets \cup {Nil}
           /\ instance[i].node \in Nat
           /\ Len(task[i]) \in Nat
  BY DEF TypeOK, Instance

LEMMA MovedType ==
    ASSUME TypeOK, NEW i \in Instances, NEW status \in {"pending"} \cup Decisions, NEW n \in Nat
    PROVE  /\ Moved(i, status, n) \in Instance
           /\ Moved(i, status, n).status = status
           /\ Moved(i, status, n).node = n
  BY InstanceType DEF Moved, Instance

\* An action on instance i leaves every other instance as it was.
Untouched(j) ==
    instance'[j] = instance[j] /\ task'[j] = task[j] /\ announced'[j] = announced[j]

LEMMA Frame ==
    ASSUME NEW i \in Instances, EngineInv, \A j \in Instances \ {i} : Untouched(j),
           Open(i)', Announced(i)', TypeOK'
    PROVE  EngineInv'
  <1>1. \A j \in Instances \ {i} : Open(j)' /\ Announced(j)'
    BY DEF EngineInv, Open, Announced, Untouched
  <1> QED
    BY <1>1 DEF EngineInv

-----------------------------------------------------------------------------
(* The initial state and the steps *)

LEMMA InitInv == Init => EngineInv
  <1> SUFFICES ASSUME Init PROVE EngineInv
    OBVIOUS
  <1>1. NoFlow \in Flow
    BY VersionAssumption DEF NoFlow, Flow
  <1>2. NoInstance \in Instance
    BY DEF NoInstance, Instance
  <1>3. TypeOK
    BY <1>1, <1>2, VersionAssumption DEF Init, TypeOK
  <1>4. \A i \in Instances : Open(i) /\ Announced(i)
    BY DEF Init, Open, Announced, NoInstance, Decisions
  <1> QED
    BY <1>3, <1>4 DEF EngineInv

\* Editing flows leaves the instances alone.
LEMMA FlowStepInv ==
    ASSUME EngineInv, NEW f \in Flows, FlowStep(f)
    PROVE  EngineInv'
  <1>1. UNCHANGED <<instance, task, announced, submitted>>
    BY DEF FlowStep, define_flow, update_flow, deactivate_flow, activate_flow
  <1>t. /\ flow \in [Flows -> Flow] /\ flow[f] \in Flow
    BY DEF EngineInv, TypeOK
  <1>2. flow' \in [Flows -> Flow]
    <2>1. CASE \E code \in Codes, nodes \in Chains : define_flow(f, code, nodes)
      <3>1. PICK code \in Codes, nodes \in Chains : define_flow(f, code, nodes)
        BY <2>1
      <3>2. [code |-> code, nodes |-> nodes, status |-> "active", version |-> 1] \in Flow
        BY <3>1, ChainsAssumption, VersionAssumption DEF Flow, define_flow
      <3> QED
        BY <3>1, <3>2, <1>t DEF define_flow
    <2>2. CASE \E nodes \in Chains : update_flow(f, nodes)
      <3>1. PICK nodes \in Chains : update_flow(f, nodes)
        BY <2>2
      <3> DEFINE edited == [code |-> flow[f].code, nodes |-> nodes, status |-> flow[f].status,
                            version |-> flow[f].version + 1]
      <3>2. edited \in Flow
        BY <3>1, <1>t, ChainsAssumption, VersionAssumption DEF Flow, update_flow
      <3>3. flow' = [flow EXCEPT ![f] = edited]
        BY <3>1, <1>t DEF update_flow
      <3> HIDE DEF edited
      <3> QED
        BY <3>2, <3>3, <1>t
    <2>3. CASE deactivate_flow(f)
      <3>1. [flow[f] EXCEPT !.status = "inactive"] \in Flow
        BY <1>t DEF Flow
      <3> QED
        BY <2>3, <3>1, <1>t DEF deactivate_flow
    <2>4. CASE activate_flow(f)
      <3>1. [flow[f] EXCEPT !.status = "active"] \in Flow
        BY <1>t DEF Flow
      <3> QED
        BY <2>4, <3>1, <1>t DEF activate_flow
    <2> QED
      BY <2>1, <2>2, <2>3, <2>4 DEF FlowStep
  <1>3. TypeOK'
    BY <1>1, <1>2 DEF EngineInv, TypeOK
  <1>4. \A i \in Instances : Open(i)' /\ Announced(i)'
    BY <1>1 DEF EngineInv, Open, Announced
  <1> QED
    BY <1>3, <1>4 DEF EngineInv

LEMMA SubmitInv ==
    ASSUME EngineInv, NEW i \in Instances, NEW f \in Flows, NEW target \in Targets, submit(i, f, target)
    PROVE  EngineInv'
  <1> DEFINE new == [flow |-> f, target |-> target, status |-> "pending", node |-> 0]
  <1>1. new \in Instance /\ new.status = "pending" /\ new.node = 0
    BY DEF Instance
  <1>2. instance' = [instance EXCEPT ![i] = new]
    BY DEF submit
  <1> HIDE DEF new
  <1>3. <<OpenTask(0)>> \in Seq(Task)
    BY OpenTaskType
  <1>4. /\ task' = [task EXCEPT ![i] = <<OpenTask(0)>>]
        /\ submitted' = [submitted EXCEPT ![i] = flow[f].version]
        /\ flow' = flow /\ announced' = announced
        /\ instance[i].status = "none"
    BY DEF submit
  <1>5. flow[f].version \in 0..MaxVersion
    BY DEF EngineInv, TypeOK, Flow
  <1>6. TypeOK'
    BY <1>1, <1>2, <1>3, <1>4, <1>5 DEF EngineInv, TypeOK
  <1>7. instance'[i] = new /\ task'[i] = <<OpenTask(0)>> /\ announced'[i] = announced[i]
    BY <1>2, <1>4 DEF EngineInv, TypeOK
  <1>8. Open(i)'
    BY <1>1, <1>7 DEF Open, OpenTask, Decisions
  <1>9. Announced(i)'
    <2>1. announced[i] = <<>>
      BY <1>4 DEF EngineInv, Announced, Decisions
    <2>2. \A j \in 1..Len(task'[i]) : task'[i][j].action = "none"
      BY <1>7 DEF OpenTask
    <2> QED
      BY <1>1, <1>7, <2>1, <2>2 DEF Announced, Decisions
  <1>10. \A j \in Instances \ {i} : Untouched(j)
    BY <1>2, <1>4 DEF EngineInv, TypeOK, Untouched
  <1> QED
    BY <1>6, <1>8, <1>9, <1>10, Frame

\* reject and finish settle the open task and decide the instance.
LEMMA DecideInv ==
    ASSUME EngineInv, NEW i \in Instances, NEW k, Actionable(i, k), NEW action \in Actions,
           action # "none",
           NEW decision \in Decisions, decision = "rejected" <=> action = "reject",
           task' = [task EXCEPT ![i] = Completed(i, k, action)],
           instance' = [instance EXCEPT ![i] = Moved(i, decision, instance[i].node)],
           announced' = [announced EXCEPT ![i] = Append(@, decision)],
           UNCHANGED <<flow, submitted>>
    PROVE  EngineInv'
  <1> USE DEF EngineInv
  <1>0. TypeOK /\ k \in 1..Len(task[i]) /\ instance[i].node \in Nat
    BY ActionableLast, InstanceType
  <1> DEFINE done == Completed(i, k, action)
             moved == Moved(i, decision, instance[i].node)
  <1>1. /\ done \in Seq(Task)
        /\ Len(done) = Len(task[i])
        /\ \A j \in 1..Len(task[i]) :
              /\ done[j].node = task[i][j].node
              /\ done[j].action = IF j = k THEN action ELSE task[i][j].action
    BY <1>0, CompletedType
  <1>2. moved \in Instance /\ moved.status = decision /\ moved.node = instance[i].node
    <2>1. decision \in {"pending"} \cup Decisions
      OBVIOUS
    <2> QED
      BY <1>0, <2>1, MovedType
  <1>3. announced[i] = <<>>
    BY ActionableLast
  <1>4. announced' = [announced EXCEPT ![i] = <<decision>>]
    BY <1>3 DEF TypeOK
  <1>5. task' = [task EXCEPT ![i] = done] /\ instance' = [instance EXCEPT ![i] = moved]
    OBVIOUS
  <1> HIDE DEF done, moved, EngineInv
  <1>6. TypeOK'
    BY <1>1, <1>2, <1>4, <1>5 DEF EngineInv, TypeOK
  <1>7. instance'[i] = moved /\ task'[i] = done /\ announced'[i] = <<decision>>
    BY <1>4, <1>5 DEF EngineInv, TypeOK
  <1>8. Open(i)'
    BY <1>1, <1>2, <1>7, ActionableLast DEF Open
  <1>9. Announced(i)'
    <2>1. \A j \in 1..Len(task[i]) : done[j].action = "reject" <=> (j = k /\ action = "reject")
      BY <1>1, ActionableLast
    <2> QED
      BY <1>0, <1>1, <1>2, <1>7, <2>1 DEF Announced
  <1>10. \A j \in Instances \ {i} : Untouched(j)
    BY <1>4, <1>5 DEF EngineInv, TypeOK, Untouched
  <1> QED
    BY <1>6, <1>8, <1>9, <1>10, Frame

\* advance settles the open task and opens the task of the next node.
LEMMA AdvanceInv ==
    ASSUME EngineInv, NEW i \in Instances, NEW k, NEW action \in Actions, advance(i, k, action)
    PROVE  EngineInv'
  <1> USE DEF EngineInv
  <1>0. /\ TypeOK /\ Actionable(i, k) /\ action # "reject" /\ action # "none"
        /\ instance[i].node \in Nat /\ NextNode(i) \in Nat /\ NextNode(i) = instance[i].node + 1
    BY InstanceType DEF advance, NextNode, Actions
  <1> DEFINE done == Completed(i, k, action)
             new == OpenTask(NextNode(i))
             moved == Moved(i, "pending", NextNode(i))
  <1>1. /\ done \in Seq(Task)
        /\ Len(done) = Len(task[i])
        /\ \A j \in 1..Len(task[i]) :
              /\ done[j].node = task[i][j].node
              /\ done[j].action = IF j = k THEN action ELSE task[i][j].action
    BY <1>0, ActionableLast, CompletedType
  <1>2. moved \in Instance /\ moved.status = "pending" /\ moved.node = NextNode(i)
    BY <1>0, MovedType
  <1>3. new \in Task /\ new.node = NextNode(i) /\ new.action = "none"
    BY <1>0, OpenTaskType DEF OpenTask
  <1>4. /\ task' = [task EXCEPT ![i] = Append(done, new)]
        /\ instance' = [instance EXCEPT ![i] = moved]
        /\ announced' = announced /\ flow' = flow /\ submitted' = submitted
    BY DEF advance
  <1> HIDE DEF done, new, moved, EngineInv
  <1>5. /\ Append(done, new) \in Seq(Task)
        /\ Len(Append(done, new)) = Len(task[i]) + 1
        /\ \A j \in 1..Len(task[i]) : Append(done, new)[j] = done[j]
        /\ Append(done, new)[Len(task[i]) + 1] = new
    BY <1>1, <1>3, AppendProperties
  <1>6. TypeOK'
    BY <1>2, <1>4, <1>5 DEF EngineInv, TypeOK
  <1>7. instance'[i] = moved /\ task'[i] = Append(done, new) /\ announced'[i] = announced[i]
    BY <1>4 DEF EngineInv, TypeOK
  <1>l. /\ k = Len(task[i]) /\ Len(task[i]) = instance[i].node + 1 /\ Len(task[i]) \in Nat
        /\ announced[i] = <<>>
        /\ \A j \in 1..Len(task[i]) : task[i][j].node + 1 = j
        /\ \A j \in 1..Len(task[i]) : j # k => task[i][j].action # "none"
        /\ \A j \in 1..Len(task[i]) : task[i][j].action # "reject"
    BY <1>0, ActionableLast, InstanceType
  <1>e. \A j \in 1..Len(task[i]) + 1 : j \in 1..Len(task[i]) \/ j = Len(task[i]) + 1
    BY <1>l
  <1>n. \A j \in 1..Len(task[i]) + 1 :
           /\ Append(done, new)[j].node + 1 = j
           /\ Append(done, new)[j].action = "none" <=> j = Len(task[i]) + 1
           /\ Append(done, new)[j].action # "reject"
    BY <1>0, <1>1, <1>3, <1>5, <1>l, <1>e
  <1>8. Open(i)'
    BY <1>0, <1>2, <1>5, <1>7, <1>l, <1>n DEF Open, Decisions
  <1>9. Announced(i)'
    BY <1>2, <1>5, <1>7, <1>l, <1>n DEF Announced, Decisions
  <1>10. \A j \in Instances \ {i} : Untouched(j)
    BY <1>4 DEF EngineInv, TypeOK, Untouched
  <1> QED
    BY <1>6, <1>8, <1>9, <1>10, Frame

LEMMA NextInv == EngineInv /\ [Next]_vars => EngineInv'
  <1> SUFFICES ASSUME EngineInv, [Next]_vars PROVE EngineInv'
    OBVIOUS
  <1>1. CASE \E f \in Flows : FlowStep(f)
    BY <1>1, FlowStepInv
  <1>2. CASE \E i \in Instances, f \in Flows, target \in Targets : submit(i, f, target)
    BY <1>2, SubmitInv
  <1>3. CASE \E i \in Instances : approve(i)
    <2>0. PICK i \in Instances : approve(i)
      BY <1>3
    <2>1. PICK k \in 1..Len(task[i]), action \in Actions :
             (action = "reject" /\ reject(i, k)) \/ advance(i, k, action) \/ finish(i, k, action)
      BY <2>0 DEF approve
    <2>2. CASE action = "reject" /\ reject(i, k)
      <3>1. "rejected" \in Decisions /\ action # "none"
        BY <2>2 DEF Decisions
      <3> QED
        BY <2>2, <3>1, DecideInv DEF reject
    <2>3. CASE advance(i, k, action)
      BY <2>3, AdvanceInv
    <2>4. CASE finish(i, k, action)
      <3>1. "approved" \in Decisions /\ action # "none" /\ action # "reject"
        BY <2>4 DEF Decisions, Actions, finish
      <3> QED
        BY <2>4, <3>1, DecideInv DEF finish
    <2> QED
      BY <2>1, <2>2, <2>3, <2>4
  <1>4. CASE UNCHANGED vars
    <2>1. TypeOK'
      BY <1>4 DEF vars, EngineInv, TypeOK
    <2>2. \A i \in Instances : Open(i)' /\ Announced(i)'
      BY <1>4 DEF vars, EngineInv, Open, Announced
    <2> QED
      BY <2>1, <2>2 DEF EngineInv
  <1> QED
    BY <1>1, <1>2, <1>3, <1>4 DEF Next

LEMMA InvHolds == Spec => []EngineInv
  BY InitInv, NextInv, PTL DEF Spec

-----------------------------------------------------------------------------
(* Signatures against the chain *)

\* What ties an instance to its flow: the flow still exists, its version never
\* goes back, and while it is the version of the submission the instance is
\* inside the chain, and at its end when it is approved.
Signed(i) ==
    instance[i].status # "none" =>
        /\ instance[i].flow \in Flows
        /\ flow[instance[i].flow].status # "none"
        /\ submitted[i] <= flow[instance[i].flow].version
        /\ submitted[i] = flow[instance[i].flow].version =>
              /\ instance[i].status = "pending" =>
                    instance[i].node < Len(flow[instance[i].flow].nodes)
              /\ instance[i].status = "approved" =>
                    instance[i].node + 1 = Len(flow[instance[i].flow].nodes)

SignedInv == EngineInv /\ \A i \in Instances : Signed(i)

LEMMA FlowTypes ==
    ASSUME TypeOK, NEW f \in Flows
    PROVE  flow[f].version \in Nat /\ Len(flow[f].nodes) \in Nat
  BY VersionAssumption DEF TypeOK, Flow

\* An edit of flow f keeps every instance tied: the flow does not go away, and
\* a new chain has a new version.
LEMMA FlowStepSigned ==
    ASSUME SignedInv, NEW f \in Flows, FlowStep(f), NEW i \in Instances
    PROVE  Signed(i)'
  <1> SUFFICES ASSUME instance[i].status # "none" PROVE Signed(i)'
    BY DEF Signed, FlowStep, define_flow, update_flow, deactivate_flow, activate_flow
  <1> DEFINE g == instance[i].flow
  <1>1. /\ TypeOK /\ flow \in [Flows -> Flow]
        /\ g \in Flows /\ flow[g].status # "none" /\ submitted[i] <= flow[g].version
        /\ submitted[i] \in Nat /\ flow[g].version \in Nat
    BY FlowTypes, VersionAssumption DEF SignedInv, EngineInv, Signed, TypeOK
  <1>2. UNCHANGED <<instance, submitted>>
    BY DEF FlowStep, define_flow, update_flow, deactivate_flow, activate_flow
  <1>3. \/ flow'[g] = flow[g]
        \/ flow'[g].status # "none" /\ flow'[g].version = flow[g].version
             /\ flow'[g].nodes = flow[g].nodes
        \/ flow'[g].status # "none" /\ flow'[g].version = flow[g].version + 1
    BY <1>1 DEF FlowStep, define_flow, update_flow, deactivate_flow, activate_flow, Flow
  <1> QED
    BY <1>1, <1>2, <1>3 DEF SignedInv, Signed

LEMMA SubmitSigned ==
    ASSUME SignedInv, NEW i \in Instances, NEW f \in Flows, NEW target \in Targets,
           submit(i, f, target), NEW j \in Instances
    PROVE  Signed(j)'
  <1>1. /\ instance \in [Instances -> Instance] /\ submitted \in [Instances -> 0..MaxVersion]
        /\ flow[f].version \in Nat /\ flow[f].nodes \in Seq(Nat)
    BY VersionAssumption DEF SignedInv, EngineInv, TypeOK, Flow
  <1>2. CASE j = i
    <2>1. instance'[i] = [flow |-> f, target |-> target, status |-> "pending", node |-> 0]
      BY <1>1 DEF submit
    <2>2. submitted'[i] = flow[f].version /\ flow' = flow
      BY <1>1 DEF submit
    <2>3. f \in Active(flow[f].code) /\ flow[f].nodes # <<>>
      BY DEF submit
    <2>4. flow[f].status # "none" /\ 0 < Len(flow[f].nodes)
      BY <1>1, <2>3, EmptySeq DEF Active
    <2> QED
      BY <1>1, <1>2, <2>1, <2>2, <2>4 DEF Signed
  <1>3. CASE j # i
    <2>1. instance'[j] = instance[j] /\ submitted'[j] = submitted[j] /\ flow' = flow
      BY <1>1, <1>3 DEF submit
    <2> QED
      BY <2>1 DEF SignedInv, Signed
  <1> QED
    BY <1>2, <1>3

LEMMA ApproveSigned ==
    ASSUME SignedInv, NEW i \in Instances, approve(i), NEW j \in Instances
    PROVE  Signed(j)'
  <1>1. /\ TypeOK /\ instance \in [Instances -> Instance] /\ instance[i].node \in Nat
        /\ instance[i].status = "pending" /\ Signed(i) /\ Signed(j)
    BY InstanceType DEF SignedInv, EngineInv, TypeOK, approve, reject, advance, finish, Actionable
  <1>2. instance[i].flow \in Flows
    BY <1>1 DEF Signed
  <1>3. Len(flow[instance[i].flow].nodes) \in Nat
    BY <1>1, <1>2, FlowTypes
  <1>4. UNCHANGED <<flow, submitted>>
    BY DEF approve, reject, advance, finish
  <1>5. CASE j # i
    <2>1. instance'[j] = instance[j]
      BY <1>1, <1>5 DEF approve, reject, advance, finish
    <2> QED
      BY <1>1, <1>4, <2>1 DEF Signed
  <1>6. CASE j = i
    <2>1. /\ instance'[i].flow = instance[i].flow
          /\ \/ instance'[i].status = "rejected"
             \/ instance'[i].status = "pending" /\ HasNextNode(i)
                  /\ instance'[i].node = instance[i].node + 1
             \/ instance'[i].status = "approved" /\ ~HasNextNode(i)
                  /\ instance'[i].node = instance[i].node
      BY <1>1 DEF approve, reject, advance, finish, Moved, NextNode
    <2> QED
      BY <1>1, <1>3, <1>4, <1>6, <2>1 DEF Signed, HasNextNode, NextNode
  <1> QED
    BY <1>5, <1>6

LEMMA SignedHolds == Spec => []SignedInv
  <1>1. Init => SignedInv
    BY InitInv DEF Init, SignedInv, Signed, NoInstance
  <1>2. SignedInv /\ [Next]_vars => SignedInv'
    <2> SUFFICES ASSUME SignedInv, [Next]_vars PROVE SignedInv'
      OBVIOUS
    <2>1. EngineInv'
      BY NextInv DEF SignedInv
    <2>2. ASSUME NEW j \in Instances PROVE Signed(j)'
      <3>1. CASE \E f \in Flows : FlowStep(f)
        BY <3>1, FlowStepSigned
      <3>2. CASE \E i \in Instances, f \in Flows, target \in Targets : submit(i, f, target)
        BY <3>2, SubmitSigned
      <3>3. CASE \E i \in Instances : approve(i)
        BY <3>3, ApproveSigned
      <3>4. CASE UNCHANGED vars
        BY <3>4 DEF vars, SignedInv, Signed
      <3> QED
        BY <3>1, <3>2, <3>3, <3>4 DEF Next
    <2> QED
      BY <2>1, <2>2 DEF SignedInv
  <1> QED
    BY <1>1, <1>2, PTL DEF Spec

LEMMA SignedImplies == SignedInv => EveryNodeSigned
  <1> SUFFICES ASSUME SignedInv, NEW i \in Instances, instance[i].status = "approved",
                      submitted[i] = flow[instance[i].flow].version
               PROVE  Len(task[i]) = Len(flow[instance[i].flow].nodes)
    BY DEF EveryNodeSigned
  <1>1. Len(task[i]) = instance[i].node + 1
    BY DEF SignedInv, EngineInv, Open
  <1> QED
    BY <1>1 DEF SignedInv, Signed

-----------------------------------------------------------------------------
(* Theorems *)

\* Every reachable state of the engine is well typed.
THEOREM TypeCorrect == Spec => []TypeOK
  BY InvHolds, EngineInvImplies, PTL

\* Whatever happens to the flows, a pending instance has exactly one open task
\* and a decided one has none (approve() closes the task it acts on before it
\* opens the next).
THEOREM OpenTaskHolds == Spec => []OneOpenTask
  BY InvHolds, EngineInvImplies, PTL

\* The ApprovalCompleted event, the instance and its last task tell the same
\* decision, and the event is published once.
THEOREM DecisionsHold == Spec => []DecisionsAnnounced
  BY InvHolds, EngineInvImplies, PTL

\* An approved instance has a settled task for each node of its chain, unless
\* the chain was edited under it; activating and deactivating flows, or editing
\* other flows, never lets an instance end early.
THEOREM NodesSigned == Spec => []EveryNodeSigned
  BY SignedHolds, SignedImplies, PTL

-----------------------------------------------------------------------------
(* Recommendations *)

RecTypes ==
    /\ rec \in [Targets -> RecStatuses]
    /\ published \in [Targets -> Seq(Announces \cup {"accepted"})]
    /\ change \in [PmsSessions -> Change \cup {NoChange}]
    /\ slips \in [Targets -> Nat]

\* The statuses that the transition table leads to.
LEMMA AllowedStatuses ==
    ASSUME NEW status \in RecStatuses
    PROVE  /\ Allowed(status) \subseteq RecStatuses
           /\ status \notin PastApproval => Allowed(status) \cap PastApproval
                                              \subseteq {"pending_approval"}
  BY DEF Allowed, RecStatuses, PastApproval

Opened(r) == \E i \in Instances : instance[i].status # "none" /\ instance[i].target = r

\* An opened instance stays, with its target.
LEMMA InstancesStay ==
    ASSUME EngineInv, [Next]_vars, NEW r \in Targets, Opened(r)
    PROVE  Opened(r)'
  <1>0. PICK i \in Instances : instance[i].status # "none" /\ instance[i].target = r
    BY DEF Opened
  <1>1. instance \in [Instances -> Instance]
    BY DEF EngineInv, TypeOK
  <1>2. CASE UNCHANGED instance
    BY <1>0, <1>2 DEF Opened
  <1>3. ASSUME NEW j \in Instances, NEW f \in Flows, NEW target \in Targets,
               submit(j, f, target)
        PROVE  instance'[i] = instance[i]
    BY <1>0, <1>1, <1>3 DEF submit
  <1>4. ASSUME NEW j \in Instances, approve(j)
        PROVE  instance'[i].status # "none" /\ instance'[i].target = instance[i].target
    BY <1>0, <1>1, <1>4 DEF approve, reject, advance, finish, Moved
  <1> QED
    BY <1>0, <1>2, <1>3, <1>4
       DEF Next, vars, FlowStep, define_flow, update_flow, deactivate_flow, activate_flow,
           Opened

\* What a transition under way relies on: the table allowed it when the row was
\* loaded, a recommendation that was past acceptance had its instance, and only
\* one session holds a row.
ChangesAllowed ==
    \A s \in PmsSessions, r \in Targets : change[s] # NoChange /\ change[s].on = r =>
        /\ change[s].to \in Allowed(change[s].from)
        /\ change[s].from \in PastApproval => Opened(r)

OneHolder ==
    \A r \in Targets, s, t \in PmsSessions : Holds(s, r) /\ Holds(t, r) => s = t

RecInv == EngineInv /\ RecTypes /\ ChangesAllowed /\ OneHolder /\ SubmittedToApproval

\* What a session is at, in every reachable state.
LEMMA ChangeIs ==
    ASSUME RecTypes, NEW s \in PmsSessions, change[s] # NoChange
    PROVE  /\ change[s] \in Change
           /\ change[s].on \in Targets /\ change[s].from \in RecStatuses
           /\ change[s].to \in RecStatuses /\ change[s].flushed \in BOOLEAN
  BY DEF RecTypes, Change

LEMMA RecTypesNext ==
    ASSUME RecTypes, [RecNext]_<<vars, recVars>>
    PROVE  RecTypes'
  <1>1. /\ {"submitted"} \subseteq RecStatuses
        /\ \A status \in RecStatuses : Allowed(status) \subseteq RecStatuses
    BY AllowedStatuses DEF RecStatuses
  <1>2. CASE UNCHANGED recVars
    BY <1>2 DEF RecTypes, recVars
  <1>3. ASSUME NEW r \in Targets, receive_recommendation(r) PROVE RecTypes'
    <2>1. /\ published[r] \in Seq(Announces \cup {"accepted"})
          /\ Append(published[r], "accepted") \in Seq(Announces \cup {"accepted"})
      BY DEF RecTypes
    <2> QED BY <1>1, <1>3, <2>1 DEF RecTypes, receive_recommendation
  <1>4. ASSUME NEW s \in PmsSessions, NEW r \in Targets, NEW new \in RecStatuses,
               load_status(s, r, new)
        PROVE  RecTypes'
    <2>1. [on |-> r, from |-> rec[r], to |-> new, flushed |-> FALSE] \in Change
      BY DEF RecTypes, Change
    <2> QED BY <1>4, <2>1 DEF RecTypes, load_status
  <1>5. ASSUME NEW s \in PmsSessions, flush_status(s) PROVE RecTypes'
    <2> DEFINE c == change[s]
    <2>1. c \in Change /\ c.on \in Targets
      BY <1>5, ChangeIs DEF flush_status
    <2>2. [c EXCEPT !.flushed = TRUE] \in Change
      BY <2>1 DEF Change
    <2>3. change' = [change EXCEPT ![s] = [c EXCEPT !.flushed = TRUE]]
      BY <1>5 DEF flush_status
    <2>4. change' \in [PmsSessions -> Change \cup {NoChange}]
      BY <2>2, <2>3 DEF RecTypes
    <2>5. published' \in [Targets -> Seq(Announces \cup {"accepted"})]
      <3>1. CASE c.to \in Announces
        <4>1. Append(published[c.on], c.to) \in Seq(Announces \cup {"accepted"})
          BY <2>1, <3>1 DEF RecTypes
        <4>2. published' = [published EXCEPT ![c.on] = Append(@, c.to)]
          BY <1>5, <3>1 DEF flush_status
        <4> QED BY <4>1, <4>2 DEF RecTypes
      <3>2. CASE c.to \notin Announces
        BY <1>5, <3>2 DEF flush_status, RecTypes
      <3> QED BY <3>1, <3>2
    <2>6. slips' \in [Targets -> Nat]
      BY <1>5, <2>1 DEF flush_status, RecTypes
    <2> QED BY <1>5, <2>4, <2>5, <2>6 DEF flush_status, RecTypes
  <1>6. ASSUME NEW s \in PmsSessions, EndsChange(s)
        PROVE  /\ change' \in [PmsSessions -> Change \cup {NoChange}]
               /\ published' = published
               /\ change[s].on \in Targets /\ change[s].to \in RecStatuses
    BY <1>6, ChangeIs DEF EndsChange, RecTypes
  <1>7. ASSUME NEW s \in PmsSessions, commit_status(s) PROVE RecTypes'
    BY <1>6, <1>7 DEF commit_status, RecTypes
  <1>8. ASSUME NEW s \in PmsSessions, NEW i \in Instances, NEW f \in Flows,
               commit_approval(s, i, f)
        PROVE  RecTypes'
    BY <1>6, <1>8 DEF commit_approval, RecTypes
  <1>9. ASSUME NEW s \in PmsSessions, fail_status(s) PROVE RecTypes'
    BY <1>6, <1>9 DEF fail_status, RecTypes
  <1> QED
    BY <1>2, <1>3, <1>4, <1>5, <1>7, <1>8, <1>9 DEF RecNext, ChangeNext

\* What the PMS does to the engine is to submit.
LEMMA EngineStep ==
    ASSUME RecTypes, [RecNext]_<<vars, recVars>>
    PROVE  [Next]_vars
  <1>1. ASSUME NEW s \in PmsSessions, NEW i \in Instances, NEW f \in Flows,
               commit_approval(s, i, f)
        PROVE  Next
    <2>1. change[s].on \in Targets /\ submit(i, f, change[s].on)
      BY <1>1, ChangeIs DEF commit_approval, EndsChange
    <2> QED BY <2>1 DEF Next
  <1>2. ASSUME NEW s \in PmsSessions,
               \/ \E r \in Targets, new \in RecStatuses : load_status(s, r, new)
               \/ flush_status(s) \/ commit_status(s) \/ fail_status(s)
        PROVE  UNCHANGED vars
    BY <1>2 DEF load_status, flush_status, commit_status, fail_status
  <1>3. ASSUME NEW r \in Targets, receive_recommendation(r) PROVE UNCHANGED vars
    BY <1>3 DEF receive_recommendation
  <1> QED
    BY <1>1, <1>2, <1>3 DEF RecNext, ChangeNext

\* Whatever the PMS sends, the approval engine under its recommendations keeps
\* to its own specification, and so has all its properties: commit_approval
\* is a submission, and nothing else touches the engine's tables.
THEOREM RecommendationsUseApproval == RecSpec => Spec
  <1>1. RecInit => Init
    BY DEF RecInit
  <1>2. RecInit => RecTypes
    BY DEF RecInit, RecTypes, RecStatuses
  <1> QED
    BY <1>1, <1>2, RecTypesNext, EngineStep, PTL DEF RecSpec, Spec

\* A step of the PMS, by what it does to one recommendation: it is received, a
\* session flushes a transition of it, or commits it, or loses it; or nothing
\* of it changes but the transitions that are not flushed.
Kept(r) == \A s \in PmsSessions :
               /\ Holds(s, r)' <=> Holds(s, r)
               /\ Holds(s, r) => change'[s] = change[s]

Flushes(s, r) ==
    /\ change[s] # NoChange /\ change[s].on = r
    /\ \A t \in PmsSessions : ~Holds(t, r)
    /\ Holds(s, r)' /\ change'[s].to = change[s].to
    /\ \A t \in PmsSessions : Holds(t, r)' => t = s
    /\ rec'[r] = rec[r]
    /\ published'[r] = IF change[s].to \in Announces
                       THEN Append(published[r], change[s].to) ELSE published[r]
    /\ slips'[r] = slips[r] + IF rec[r] # change[s].from THEN 1 ELSE 0

Releases(s, r) ==
    /\ Holds(s, r)
    /\ \A t \in PmsSessions : ~Holds(t, r)'
    /\ published'[r] = published[r]

RecStep(r) ==
    \/ rec'[r] = rec[r] /\ published'[r] = published[r] /\ slips'[r] = slips[r] /\ Kept(r)
    \/ /\ rec[r] = "none" /\ rec'[r] = "submitted" /\ slips'[r] = slips[r] /\ Kept(r)
       /\ published'[r] = Append(published[r], "accepted")
    \/ \E s \in PmsSessions : Flushes(s, r)
    \/ \E s \in PmsSessions :
          /\ Releases(s, r)
          /\ rec'[r] = change[s].to /\ slips'[r] = slips[r]
          /\ rec'[r] = "pending_approval" => Opened(r)'
    \/ \E s \in PmsSessions :
          /\ Releases(s, r)
          /\ rec'[r] = rec[r]
          /\ slips'[r] = slips[r] + IF change[s].to \in Announces THEN 1 ELSE 0

LEMMA RecSteps ==
    ASSUME EngineInv, RecTypes, OneHolder, [RecNext]_<<vars, recVars>>, NEW r \in Targets
    PROVE  RecStep(r)
  <1> USE DEF RecTypes
  <1>1. CASE UNCHANGED recVars
    BY <1>1 DEF recVars, RecStep, Kept, Holds
  <1>2. ASSUME NEW x \in Targets, receive_recommendation(x) PROVE RecStep(r)
    <2>1. Kept(r)
      BY <1>2 DEF receive_recommendation, Kept, Holds
    <2> QED BY <1>2, <2>1 DEF receive_recommendation, RecStep
  <1>3. ASSUME NEW s \in PmsSessions, NEW x \in Targets, NEW new \in RecStatuses,
               load_status(s, x, new)
        PROVE  RecStep(r)
    <2>1. Kept(r)
      BY <1>3 DEF load_status, Kept, Holds
    <2> QED BY <1>3, <2>1 DEF load_status, RecStep
  <1>4. ASSUME NEW s \in PmsSessions, flush_status(s) PROVE RecStep(r)
    <2> DEFINE c == change[s]
    <2>1. c # NoChange /\ c \in Change /\ c.on \in Targets /\ ~c.flushed
      BY <1>4, ChangeIs DEF flush_status
    <2>2. /\ change'[s] = [c EXCEPT !.flushed = TRUE]
          /\ \A t \in PmsSessions \ {s} : change'[t] = change[t]
      BY <1>4 DEF flush_status
    <2>3. change'[s].on = c.on /\ change'[s].to = c.to /\ change'[s].flushed
      BY <2>1, <2>2 DEF Change
    <2>4. CASE c.on # r
      <3>1. Kept(r)
        BY <2>1, <2>2, <2>3, <2>4 DEF Kept, Holds
      <3>2. rec'[r] = rec[r] /\ published'[r] = published[r] /\ slips'[r] = slips[r]
        BY <1>4, <2>1, <2>4 DEF flush_status
      <3> QED BY <3>1, <3>2 DEF RecStep
    <2>5. CASE c.on = r
      <3>1. \A t \in PmsSessions : ~Holds(t, r)
        BY <1>4, <2>5 DEF flush_status
      <3>2. CASE change'[s] # NoChange
        <4>1. Holds(s, r)' /\ \A t \in PmsSessions : Holds(t, r)' => t = s
          BY <2>2, <2>3, <2>5, <3>1, <3>2 DEF Holds
        <4>2. /\ rec'[r] = rec[r]
              /\ published'[r] = IF c.to \in Announces
                                 THEN Append(published[r], c.to) ELSE published[r]
              /\ slips'[r] = slips[r] + IF rec[r] # c.from THEN 1 ELSE 0
          BY <1>4, <2>5 DEF flush_status
        <4> QED BY <2>1, <2>3, <2>5, <3>1, <4>1, <4>2 DEF RecStep, Flushes
      <3>3. CASE change'[s] = NoChange
        BY <2>1, <2>2, <3>3, NoChangeAssumption DEF Change
      <3> QED BY <3>2, <3>3
    <2> QED BY <2>4, <2>5
  <1>5. ASSUME NEW s \in PmsSessions, EndsChange(s)
        PROVE  /\ change[s].on # r => Kept(r) /\ published'[r] = published[r]
               /\ change[s].on = r /\ change[s].flushed => Releases(s, r)
               /\ change[s].on = r /\ ~change[s].flushed => Kept(r) /\ published'[r] = published[r]
    <2>1. /\ change'[s] = NoChange /\ change[s] # NoChange /\ published' = published
          /\ \A t \in PmsSessions \ {s} : change'[t] = change[t]
      BY <1>5 DEF EndsChange
    <2>2. CASE change[s].on # r \/ ~change[s].flushed
      <3>1. ~Holds(s, r) /\ ~Holds(s, r)'
        BY <2>1, <2>2 DEF Holds
      <3>2. \A t \in PmsSessions \ {s} : Holds(t, r)' <=> Holds(t, r)
        BY <2>1 DEF Holds
      <3>3. Kept(r)
        BY <2>1, <3>1, <3>2 DEF Kept
      <3> QED BY <2>1, <2>2, <3>3
    <2>3. CASE change[s].on = r /\ change[s].flushed
      <3>1. Holds(s, r) /\ ~Holds(s, r)'
        BY <2>1, <2>3 DEF Holds
      <3>2. \A t \in PmsSessions \ {s} : ~Holds(t, r)
        BY <3>1 DEF OneHolder
      <3>3. \A t \in PmsSessions \ {s} : ~Holds(t, r)'
        BY <2>1, <3>2 DEF Holds
      <3> QED BY <2>1, <2>3, <3>1, <3>3 DEF Releases
    <2> QED BY <2>2, <2>3
  <1>6. ASSUME NEW s \in PmsSessions, commit_status(s) PROVE RecStep(r)
    <2>1. EndsChange(s) /\ change[s].on \in Targets /\ change[s].flushed
      BY <1>6, ChangeIs DEF commit_status, EndsChange
    <2>2. CASE change[s].on # r
      BY <1>5, <1>6, <2>1, <2>2 DEF commit_status, RecStep
    <2>3. CASE change[s].on = r
      <3>1. Releases(s, r)
        BY <1>5, <2>1, <2>3
      <3>2. rec'[r] = change[s].to /\ slips'[r] = slips[r] /\ rec'[r] # "pending_approval"
        BY <1>6, <2>3 DEF commit_status
      <3> QED BY <3>1, <3>2 DEF RecStep
    <2> QED BY <2>2, <2>3
  <1>7. ASSUME NEW s \in PmsSessions, NEW i \in Instances, NEW f \in Flows,
               commit_approval(s, i, f)
        PROVE  RecStep(r)
    <2>1. EndsChange(s) /\ change[s].on \in Targets /\ change[s].flushed
      BY <1>7, ChangeIs DEF commit_approval, EndsChange
    <2>2. CASE change[s].on # r
      BY <1>5, <1>7, <2>1, <2>2 DEF commit_approval, RecStep
    <2>3. CASE change[s].on = r
      <3>1. Releases(s, r)
        BY <1>5, <2>1, <2>3
      <3>2. rec'[r] = change[s].to /\ slips'[r] = slips[r]
        BY <1>7, <2>3 DEF commit_approval
      <3>3. instance \in [Instances -> Instance]
        BY DEF EngineInv, TypeOK
      <3>4. instance'[i].status = "pending" /\ instance'[i].target = r
        BY <1>7, <2>3, <3>3 DEF commit_approval, submit
      <3>5. Opened(r)'
        BY <3>4 DEF Opened
      <3> QED BY <3>1, <3>2, <3>5 DEF RecStep
    <2> QED BY <2>2, <2>3
  <1>8. ASSUME NEW s \in PmsSessions, fail_status(s) PROVE RecStep(r)
    <2>1. EndsChange(s) /\ change[s].on \in Targets /\ change[s].flushed \in BOOLEAN
      BY <1>8, ChangeIs DEF fail_status, EndsChange
    <2>2. CASE change[s].on # r \/ ~change[s].flushed
      <3>1. Kept(r) /\ published'[r] = published[r]
        BY <1>5, <2>1, <2>2
      <3>2. rec'[r] = rec[r] /\ slips'[r] = slips[r]
        BY <1>8, <2>1, <2>2 DEF fail_status
      <3> QED BY <3>1, <3>2 DEF RecStep
    <2>3. CASE change[s].on = r /\ change[s].flushed
      <3>1. Releases(s, r)
        BY <1>5, <2>1, <2>3
      <3>2. rec'[r] = rec[r] /\ slips'[r] = slips[r] + IF change[s].to \in Announces THEN 1 ELSE 0
        BY <1>8, <2>3 DEF fail_status
      <3> QED BY <3>1, <3>2 DEF RecStep
    <2> QED BY <2>1, <2>2, <2>3
  <1>9. CASE Next /\ UNCHANGED recVars
    BY <1>1, <1>9
  <1> QED
    BY <1>1, <1>2, <1>3, <1>4, <1>6, <1>7, <1>8, <1>9 DEF RecNext, ChangeNext

LEMMA RecInvNext == RecInv /\ [RecNext]_<<vars, recVars>> => RecInv'
  <1> SUFFICES ASSUME RecInv, [RecNext]_<<vars, recVars>> PROVE RecInv'
    OBVIOUS
  <1>0. EngineInv /\ RecTypes /\ ChangesAllowed /\ OneHolder /\ SubmittedToApproval
    BY DEF RecInv
  <1>1. [Next]_vars
    BY <1>0, EngineStep
  <1>2. EngineInv'
    BY <1>0, <1>1, NextInv
  <1>3. RecTypes'
    BY <1>0, RecTypesNext
  <1>4. \A r \in Targets : RecStep(r)
    BY <1>0, RecSteps
  <1>5. \A r \in Targets : Opened(r) => Opened(r)'
    BY <1>0, <1>1, InstancesStay
  <1>6. ASSUME NEW r \in Targets, rec'[r] \in PastApproval
        PROVE  Opened(r)'
    <2>1. CASE rec[r] \in PastApproval
      BY <1>0, <1>5, <2>1 DEF SubmittedToApproval, Opened
    <2>2. CASE rec[r] \notin PastApproval
      <3>1. "submitted" \notin PastApproval
        BY DEF PastApproval
      <3>2. PICK s \in PmsSessions : /\ Releases(s, r)
                                     /\ rec'[r] = change[s].to
                                     /\ rec'[r] = "pending_approval" => Opened(r)'
        BY <1>4, <1>6, <2>2, <3>1 DEF RecStep, Flushes
      <3>3. change[s] # NoChange /\ change[s].on = r
        BY <3>2 DEF Releases, Holds
      <3>4. change[s].from \in RecStatuses /\ change[s].to \in Allowed(change[s].from)
        BY <1>0, <3>3, ChangeIs DEF ChangesAllowed
      <3>5. CASE change[s].from \in PastApproval
        BY <1>0, <1>5, <3>3, <3>5 DEF ChangesAllowed
      <3>6. CASE change[s].from \notin PastApproval
        BY <1>6, <3>2, <3>4, <3>6, AllowedStatuses
      <3> QED BY <3>5, <3>6
    <2> QED BY <2>1, <2>2
  <1>7. SubmittedToApproval'
    BY <1>6 DEF SubmittedToApproval, Opened
  <1>8. ASSUME NEW s \in PmsSessions, change'[s] # NoChange
        PROVE  \/ /\ change[s] # NoChange /\ change'[s].on = change[s].on
                  /\ change'[s].from = change[s].from /\ change'[s].to = change[s].to
               \/ \E r \in Targets, new \in RecStatuses : load_status(s, r, new)
    <2> USE <1>0 DEF RecTypes
    <2>1. CASE UNCHANGED change
      BY <1>8, <2>1
    <2>2. ASSUME NEW t \in PmsSessions, NEW r \in Targets, NEW new \in RecStatuses,
                 load_status(t, r, new), t # s
          PROVE  change'[s] = change[s]
      BY <2>2 DEF load_status
    <2>3. ASSUME NEW t \in PmsSessions, flush_status(t)
          PROVE  /\ change[s] # NoChange /\ change'[s].on = change[s].on
                 /\ change'[s].from = change[s].from /\ change'[s].to = change[s].to
      <3>1. CASE s = t
        <4>1. change[s] \in Change /\ change'[s] = [change[s] EXCEPT !.flushed = TRUE]
          BY <2>3, <3>1, ChangeIs DEF flush_status
        <4> QED BY <2>3, <3>1, <4>1 DEF flush_status, Change
      <3>2. CASE s # t
        BY <1>8, <2>3, <3>2 DEF flush_status
      <3> QED BY <3>1, <3>2
    <2>4. ASSUME NEW t \in PmsSessions, EndsChange(t)
          PROVE  change[s] # NoChange /\ change'[s] = change[s]
      BY <1>8, <2>4 DEF EndsChange
    <2> QED
      BY <1>8, <2>1, <2>2, <2>3, <2>4
         DEF RecNext, ChangeNext, receive_recommendation, commit_status, commit_approval,
             fail_status, recVars
  <1>9. ChangesAllowed'
    <2> SUFFICES ASSUME NEW s \in PmsSessions, NEW r \in Targets,
                        change'[s] # NoChange, change'[s].on = r
                 PROVE  /\ change'[s].to \in Allowed(change'[s].from)
                        /\ change'[s].from \in PastApproval => Opened(r)'
      BY DEF ChangesAllowed
    <2>1. CASE /\ change[s] # NoChange /\ change'[s].on = change[s].on
               /\ change'[s].from = change[s].from /\ change'[s].to = change[s].to
      BY <1>0, <1>5, <2>1 DEF ChangesAllowed
    <2>2. ASSUME NEW x \in Targets, NEW new \in RecStatuses, load_status(s, x, new)
          PROVE  /\ change'[s].to \in Allowed(change'[s].from)
                 /\ change'[s].from \in PastApproval => Opened(r)'
      <3>1. /\ change'[s] = [on |-> x, from |-> rec[x], to |-> new, flushed |-> FALSE]
            /\ new \in Allowed(rec[x])
        BY <1>0, <2>2 DEF load_status, RecTypes
      <3> QED BY <1>0, <1>5, <3>1 DEF SubmittedToApproval, Opened
    <2> QED BY <1>8, <2>1, <2>2
  <1>10. OneHolder'
    <2> SUFFICES ASSUME NEW r \in Targets, NEW s \in PmsSessions, NEW t \in PmsSessions,
                        Holds(s, r)', Holds(t, r)'
                 PROVE  s = t
      BY DEF OneHolder
    <2> QED BY <1>0, <1>4 DEF RecStep, Kept, Flushes, Releases, OneHolder
  <1> QED
    BY <1>2, <1>3, <1>7, <1>9, <1>10 DEF RecInv

LEMMA RecInvHolds == RecSpec => []RecInv
  <1>1. RecInit => RecInv
    <2> SUFFICES ASSUME RecInit PROVE RecInv
      OBVIOUS
    <2>1. EngineInv
      BY InitInv DEF RecInit
    <2>2. RecTypes /\ ChangesAllowed /\ OneHolder /\ SubmittedToApproval
      BY DEF RecInit, RecTypes, RecStatuses, ChangesAllowed, OneHolder, Holds,
             SubmittedToApproval, PastApproval
    <2> QED BY <2>1, <2>2 DEF RecInv
  <1> QED
    BY <1>1, RecInvNext, PTL DEF RecSpec

\* Recommendations, the transitions under way and what is published of them are
\* well typed: the transition table leads to known statuses only.
THEOREM RecommendationTypes == RecSpec => []RecTypeOK
  <1>1. RecInv => RecTypeOK
    BY EngineInvImplies DEF RecInv, RecTypes, RecTypeOK
  <1> QED
    BY <1>1, RecInvHolds, PTL

\* No recommendation gets past acceptance unless an approval instance was opened
\* for it, whatever the PMS asks for, however its requests overlap, and whatever
\* happens to flows and instances.
THEOREM SubmissionHolds == RecSpec => []SubmittedToApproval
  <1>1. RecInv => SubmittedToApproval
    BY DEF RecInv
  <1> QED
    BY <1>1, RecInvHolds, PTL

-----------------------------------------------------------------------------
(* Events of executions *)

\* How many events of a sequence have one of the names.
Among(s, names) == {n \in 1..Len(s) : s[n] \in names}

\* One more event adds one to the count of its names.
LEMMA CountAppended ==
    ASSUME NEW S, NEW s \in Seq(S), NEW e \in S, NEW names
    PROVE  /\ Cardinality(Among(s, names)) \in Nat
           /\ Cardinality(Among(Append(s, e), names))
                = Cardinality(Among(s, names)) + IF e \in names THEN 1 ELSE 0
  <1> DEFINE n == Len(s)
  <1>1. n \in Nat
    OBVIOUS
  <1>2. /\ Len(Append(s, e)) = n + 1
        /\ \A k \in 1..n : Append(s, e)[k] = s[k]
        /\ Append(s, e)[n + 1] = e
    OBVIOUS
  <1>3. IsFiniteSet(1..n) /\ Among(s, names) \in SUBSET (1..n)
    BY <1>1, FS_Interval DEF Among
  <1>4. IsFiniteSet(Among(s, names)) /\ Cardinality(Among(s, names)) \in Nat
    BY <1>3, FS_Subset, FS_CardinalityType
  <1>5. n + 1 \notin Among(s, names)
    BY <1>1, <1>3
  <1>6. 1..(n + 1) = 1..n \cup {n + 1}
    BY <1>1
  <1>7. Among(Append(s, e), names)
          = IF e \in names THEN Among(s, names) \cup {n + 1} ELSE Among(s, names)
    BY <1>1, <1>2, <1>6 DEF Among
  <1>8. Cardinality(Among(s, names) \cup {n + 1}) = Cardinality(Among(s, names)) + 1
    BY <1>4, <1>5, FS_AddElement
  <1> QED
    BY <1>4, <1>7, <1>8

Started(r) == Cardinality(Among(published[r], {"executing"}))
Ended(r) == Cardinality(Among(published[r], {"executed", "failed"}))
UnderWayNow(r) == Started(r) - Ended(r)

\* What the event of a status adds to the executions under way.
Effect(status) ==
    IF status = "executing" THEN 1 ELSE IF status \in {"executed", "failed"} THEN -1 ELSE 0

\* d executions are under way with this status, up to k slips.
Near(d, status, k) == \E n \in UnderWay(status) : d - n \in -k..k

\* A transition that starts where the row is leads from what its old status
\* tells to what the new one does.
LEMMA NearStep ==
    ASSUME NEW from \in RecStatuses, NEW to \in Allowed(from), NEW d \in Int, NEW k \in Nat,
           Near(d, from, k)
    PROVE  Near(d + Effect(to), to, k)
  <1>1. /\ to = "executing" => from \in {"approved", "failed"}
        /\ to = "partially_executed" => from = "executing"
        /\ to \in {"executed", "failed"} => from \in {"executing", "partially_executed"}
        /\ to = "rolled_back" => from \in {"partially_executed", "executed", "failed"}
        /\ to \notin {"executing", "partially_executed", "executed", "failed", "rolled_back"}
              => from \notin {"executing", "partially_executed", "rolled_back"}
    BY DEF Allowed, RecStatuses
  <1>2. PICK n \in UnderWay(from) : d - n \in -k..k
    BY DEF Near
  <1>3. CASE to = "executing"
    <2>1. n = 0 /\ 1 \in UnderWay(to) /\ Effect(to) = 1
      BY <1>1, <1>2, <1>3 DEF UnderWay, Effect
    <2> QED BY <1>2, <2>1 DEF Near
  <1>4. CASE to = "partially_executed"
    <2>1. n = 1 /\ 1 \in UnderWay(to) /\ Effect(to) = 0
      BY <1>1, <1>2, <1>4 DEF UnderWay, Effect
    <2> QED BY <1>2, <2>1 DEF Near
  <1>5. CASE to \in {"executed", "failed"}
    <2>1. n = 1 /\ 0 \in UnderWay(to) /\ Effect(to) = -1
      BY <1>1, <1>2, <1>5 DEF UnderWay, Effect
    <2> QED BY <1>2, <2>1 DEF Near
  <1>6. CASE to = "rolled_back"
    <2>1. n \in {0, 1} /\ {0, 1} \subseteq UnderWay(to) /\ Effect(to) = 0
      BY <1>1, <1>2, <1>6 DEF UnderWay, Effect
    <2> QED BY <1>2, <2>1 DEF Near
  <1>7. CASE to \notin {"executing", "partially_executed", "executed", "failed", "rolled_back"}
    <2>1. n = 0 /\ 0 \in UnderWay(to) /\ Effect(to) = 0
      BY <1>1, <1>2, <1>7 DEF UnderWay, Effect
    <2> QED BY <1>2, <2>1 DEF Near
  <1> QED
    BY <1>3, <1>4, <1>5, <1>6, <1>7

\* One that starts elsewhere may be one execution off.
LEMMA NearOverlap ==
    ASSUME NEW now \in RecStatuses, NEW from \in RecStatuses, NEW to \in Allowed(from),
           NEW d \in Int, NEW k \in Nat, Near(d, now, k)
    PROVE  Near(d + Effect(to), to, k + 1)
  <1>1. PICK n \in UnderWay(now) : d - n \in -k..k
    BY DEF Near
  <1>2. n \in {0, 1}
    BY DEF UnderWay
  <1>3. from # "rolled_back"
    BY DEF Allowed
  <1>4. PICK m \in {0, 1} : UnderWay(from) = {m}
    BY <1>3 DEF UnderWay
  <1>5. Near(m, from, 0)
    BY <1>4 DEF Near
  <1>6. Near(m + Effect(to), to, 0)
    BY <1>5, NearStep
  <1>7. PICK x \in UnderWay(to) : m + Effect(to) = x
    BY <1>6 DEF Near, UnderWay, Effect
  <1>8. x \in {0, 1} /\ Effect(to) \in {-1, 0, 1}
    BY DEF UnderWay, Effect
  <1>9. (d + Effect(to)) - x \in -(k + 1)..(k + 1)
    BY <1>1, <1>2, <1>7, <1>8
  <1> QED
    BY <1>9 DEF Near

\* One that is lost leaves its event behind, if it has one.
LEMMA NearLost ==
    ASSUME NEW now \in RecStatuses, NEW to \in RecStatuses, NEW d \in Int, NEW k \in Nat,
           Near(d - Effect(to), now, k)
    PROVE  Near(d, now, k + IF to \in Announces THEN 1 ELSE 0)
  <1>1. PICK n \in UnderWay(now) : (d - Effect(to)) - n \in -k..k
    BY DEF Near
  <1>2. n \in {0, 1} /\ Effect(to) \in {-1, 0, 1}
    BY DEF UnderWay, Effect
  <1>3. to \notin Announces => Effect(to) = 0
    BY DEF Announces, Effect
  <1>4. d - n \in -(k + IF to \in Announces THEN 1 ELSE 0)..(k + IF to \in Announces THEN 1 ELSE 0)
    BY <1>1, <1>2, <1>3
  <1> QED
    BY <1>4 DEF Near

\* OutcomesMatchExecutions speaks of the status that stands; while a session
\* holds the row, what its transition found is preserved too, should it be lost.
Outcomes(r) ==
    /\ (\A s \in PmsSessions : ~Holds(s, r)) => Near(UnderWayNow(r), rec[r], slips[r])
    /\ \A s \in PmsSessions : Holds(s, r) =>
          /\ Near(UnderWayNow(r), change[s].to, slips[r])
          /\ Near(UnderWayNow(r) - Effect(change[s].to), rec[r], slips[r])

ExecInv == RecInv /\ \A r \in Targets : Outcomes(r)

LEMMA ExecInvNext == ExecInv /\ [RecNext]_<<vars, recVars>> => ExecInv'
  <1> SUFFICES ASSUME ExecInv, [RecNext]_<<vars, recVars>>, NEW r \in Targets
               PROVE  Outcomes(r)'
    BY RecInvNext DEF ExecInv
  <1> DEFINE names == Announces \cup {"accepted"}
             d == UnderWayNow(r)
  <1>1. /\ RecInv /\ RecInv' /\ EngineInv /\ RecTypes /\ RecTypes' /\ OneHolder /\ ChangesAllowed
        /\ Outcomes(r) /\ rec[r] \in RecStatuses /\ slips[r] \in Nat
        /\ published[r] \in Seq(names)
    BY RecInvNext DEF ExecInv, RecInv, RecTypes
  <1>2. Started(r) \in Nat /\ Ended(r) \in Nat /\ d \in Int
    BY <1>1, CountAppended, "accepted" \in names DEF Started, Ended, UnderWayNow
  <1>3. ASSUME NEW e \in names, published'[r] = Append(published[r], e)
        PROVE  UnderWayNow(r)' = d + Effect(e)
    <2>1. /\ Started(r)' = Started(r) + IF e = "executing" THEN 1 ELSE 0
          /\ Ended(r)' = Ended(r) + IF e \in {"executed", "failed"} THEN 1 ELSE 0
      BY <1>1, <1>3, CountAppended DEF Started, Ended
    <2> QED BY <1>2, <2>1 DEF UnderWayNow, Effect
  <1>4. published'[r] = published[r] => UnderWayNow(r)' = d
    BY DEF UnderWayNow, Started, Ended
  <1> HIDE DEF d
  <1>5. RecStep(r)
    BY <1>1, RecSteps
  <1>6. CASE rec'[r] = rec[r] /\ published'[r] = published[r] /\ slips'[r] = slips[r] /\ Kept(r)
    BY <1>1, <1>4, <1>6 DEF Outcomes, Kept, d
  <1>7. CASE /\ rec[r] = "none" /\ rec'[r] = "submitted" /\ slips'[r] = slips[r] /\ Kept(r)
             /\ published'[r] = Append(published[r], "accepted")
    <2>1. UnderWayNow(r)' = d + Effect("accepted") /\ Effect("accepted") = 0
      BY <1>3, <1>7 DEF Effect
    <2>2. UnderWayNow(r)' = d
      BY <1>2, <2>1
    <2>3. UnderWay("none") = {0} /\ UnderWay("submitted") = {0}
      BY DEF UnderWay
    <2> QED BY <1>1, <1>7, <2>2, <2>3 DEF Outcomes, Kept, Near, d
  <1>8. ASSUME NEW s \in PmsSessions, Flushes(s, r) PROVE Outcomes(r)'
    <2> DEFINE from == change[s].from
               to == change[s].to
    <2>1. /\ change[s] # NoChange /\ change[s].on = r /\ Near(d, rec[r], slips[r])
          /\ rec'[r] = rec[r] /\ Holds(s, r)' /\ change'[s].to = to
          /\ \A t \in PmsSessions : Holds(t, r)' => t = s
          /\ slips'[r] = slips[r] + IF rec[r] # from THEN 1 ELSE 0
      BY <1>1, <1>8 DEF Flushes, Outcomes, d
    <2>2. from \in RecStatuses /\ to \in Allowed(from) /\ to \in RecStatuses
      BY <1>1, <2>1, ChangeIs DEF ChangesAllowed
    <2>3. UnderWayNow(r)' = d + Effect(to) /\ Effect(to) \in {-1, 0, 1}
      <3>1. CASE to \in Announces
        BY <1>3, <1>8, <3>1 DEF Flushes, Effect
      <3>2. CASE to \notin Announces
        <4>1. Effect(to) = 0 /\ UnderWayNow(r)' = d
          BY <1>4, <1>8, <3>2 DEF Flushes, Effect, Announces
        <4> QED BY <1>2, <4>1 DEF d
      <3> QED BY <3>1, <3>2
    <2>4. Near(d + Effect(to), to, slips'[r])
      <3>1. CASE rec[r] = from
        <4>1. slips'[r] = slips[r]
          BY <1>1, <2>1, <3>1
        <4> QED BY <1>1, <1>2, <2>1, <2>2, <3>1, <4>1, NearStep DEF d
      <3>2. CASE rec[r] # from
        <4>1. slips'[r] = slips[r] + 1
          BY <2>1, <3>2
        <4> QED BY <1>1, <1>2, <2>1, <2>2, <4>1, NearOverlap DEF d
      <3> QED BY <3>1, <3>2
    <2>5. Near((d + Effect(to)) - Effect(to), rec[r], slips'[r])
      <3>1. (d + Effect(to)) - Effect(to) = d
        BY <1>2, <2>3 DEF d
      <3>2. slips'[r] \in Nat /\ slips[r] <= slips'[r]
        BY <1>1, <2>1
      <3>3. PICK n \in UnderWay(rec[r]) : d - n \in -slips[r]..slips[r]
        BY <2>1 DEF Near
      <3>4. n \in {0, 1}
        BY DEF UnderWay
      <3>5. d - n \in -slips'[r]..slips'[r]
        BY <1>1, <1>2, <3>2, <3>3, <3>4 DEF d
      <3> QED BY <3>1, <3>5 DEF Near
    <2> HIDE DEF to
    <2> QED BY <2>1, <2>3, <2>4, <2>5 DEF Outcomes
  <1>9. ASSUME NEW s \in PmsSessions, Releases(s, r),
               rec'[r] = change[s].to, slips'[r] = slips[r]
        PROVE  Outcomes(r)'
    BY <1>1, <1>4, <1>9 DEF Releases, Outcomes, d
  <1>10. ASSUME NEW s \in PmsSessions, Releases(s, r), rec'[r] = rec[r],
                slips'[r] = slips[r] + IF change[s].to \in Announces THEN 1 ELSE 0
         PROVE  Outcomes(r)'
    <2>1. Holds(s, r) /\ \A t \in PmsSessions : ~Holds(t, r)'
      BY <1>10 DEF Releases
    <2>2. UnderWayNow(r)' = d /\ Near(d - Effect(change[s].to), rec[r], slips[r])
      BY <1>1, <1>4, <1>10, <2>1 DEF Releases, Outcomes, d
    <2>3. change[s].to \in RecStatuses
      BY <1>1, <2>1, ChangeIs DEF Holds
    <2>4. Near(d, rec[r], slips'[r])
      BY <1>1, <1>2, <1>10, <2>2, <2>3, NearLost DEF d
    <2> QED BY <1>10, <2>1, <2>2, <2>4 DEF Outcomes
  <1> QED
    BY <1>5, <1>6, <1>7, <1>8, <1>9, <1>10 DEF RecStep

LEMMA ExecInvHolds == RecSpec => []ExecInv
  <1>1. RecInit => ExecInv
    <2> SUFFICES ASSUME RecInit PROVE ExecInv
      OBVIOUS
    <2>1. EngineInv /\ RecTypes /\ ChangesAllowed /\ OneHolder /\ SubmittedToApproval
      BY InitInv DEF RecInit, RecTypes, RecStatuses, ChangesAllowed, OneHolder, Holds,
                     SubmittedToApproval, PastApproval
    <2>2. ASSUME NEW r \in Targets PROVE Outcomes(r)
      <3>1. /\ rec[r] = "none" /\ published[r] = <<>> /\ slips[r] = 0
            /\ \A s \in PmsSessions : ~Holds(s, r)
        BY DEF RecInit, Holds
      <3>2. Among(published[r], {"executing"}) = {}
            /\ Among(published[r], {"executed", "failed"}) = {}
        BY <3>1 DEF Among
      <3>3. UnderWayNow(r) = 0
        BY <3>2, FS_EmptySet DEF Started, Ended, UnderWayNow
      <3>4. Near(0, "none", 0)
        BY DEF Near, UnderWay
      <3> QED
        BY <3>1, <3>3, <3>4 DEF Outcomes
    <2> QED
      BY <2>1, <2>2 DEF ExecInv, RecInv
  <1> QED
    BY <1>1, ExecInvNext, PTL DEF RecSpec

\* A consumer of the events can pair outcomes with executions, over failures,
\* retries and rollbacks: how many "executing" events still wait for an outcome
\* is what the status tells, up to one for each transition that was written over
\* another or lost after its event.  Without such slips each execution has one
\* outcome, however many recommendations and requests there are.
THEOREM OutcomesHold == RecSpec => []OutcomesMatchExecutions
  <1>1. ASSUME ExecInv PROVE OutcomesMatchExecutions
    <2> SUFFICES ASSUME NEW r \in Targets
                 PROVE  Near(UnderWayNow(r), Standing(r), slips[r])
      BY DEF OutcomesMatchExecutions, Near, UnderWayNow, Count, Started, Ended, Among
    <2>1. Outcomes(r)
      BY <1>1 DEF ExecInv
    <2>2. CASE \E s \in PmsSessions : Holds(s, r)
      <3> DEFINE h == CHOOSE s \in PmsSessions : Holds(s, r)
      <3>1. h \in PmsSessions /\ Holds(h, r)
        BY <2>2
      <3>2. Standing(r) = change[h].to
        BY <2>2 DEF Standing
      <3> QED BY <2>1, <3>1, <3>2 DEF Outcomes
    <2>3. CASE ~\E s \in PmsSessions : Holds(s, r)
      BY <2>1, <2>3 DEF Outcomes, Standing
    <2> QED
      BY <2>2, <2>3
  <1> QED
    BY <1>1, ExecInvHolds, PTL

=============================================================================
