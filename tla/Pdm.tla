-------------------------------- MODULE Pdm --------------------------------
(***************************************************************************)
(* PDM: products (SPU) and their variants (SKU), development projects,     *)
(* collected products, the pool of bar codes, issues.                      *)
(***************************************************************************)
EXTENDS Records

SpuTable ==
    [draft          |-> {"pending_review", "cancelled"},
     pending_review |-> {"approved", "rejected", "cancelled"},
     rejected       |-> {"draft", "cancelled"},
     approved       |-> {"listed", "cancelled"},
     listed         |-> {"delisted", "discontinued", "cancelled"},
     delisted       |-> {"listed", "discontinued", "cancelled"},
     discontinued   |-> {}, cancelled |-> {}]

ProjectTable ==
    [proposing       |-> {"researching", "cancelled"},
     researching     |-> {"designing", "proposing", "cancelled"},
     designing       |-> {"sourcing", "researching", "cancelled"},
     sourcing        |-> {"sampling", "designing", "cancelled"},
     sampling        |-> {"testing", "sourcing", "cancelled"},
     testing         |-> {"pre_production", "sampling", "cancelled"},
     pre_production  |-> {"mass_production", "testing", "cancelled"},
     mass_production |-> {"launched", "pre_production", "cancelled"},
     launched        |-> {"completed", "cancelled"},
     completed       |-> {}, cancelled |-> {}]

CollectionTable ==
    [collected  |-> {"analyzing", "ignored"},
     analyzing  |-> {"selected", "ignored"},
     selected   |-> {"converting", "ignored"},
     converting |-> {"converted", "failed"},
     converted  |-> {},
     failed     |-> {"converting"},
     ignored    |-> {"collected"}]

IssueStatuses == {"open", "in_progress", "resolved", "closed"}

-----------------------------------------------------------------------------
(* Products; categorised, pictured: with a category, with a main image.    *)
(* Both are given when the product is created; no request changes them.    *)

SpuRow(categorised, pictured) ==
    [kind |-> "spu", status |-> "draft", categorised |-> categorised, pictured |-> pictured]

SpuCreate == \E categorised, pictured \in BOOLEAN : Inserts(SpuRow(categorised, pictured))

\* Mutant of SpuReady: a product is approved without a category.
SpuReadyUncategorised(r, t) == t = "listed" => r.pictured

SpuReady(r, t) ==
    /\ t = "approved" => r.categorised
    /\ t = "listed" => r.pictured

SpuUpdateStatus(d, i) ==
    /\ Opens(d, i, "spu")
    /\ \E t \in SpuTable[row[i].status] :
          /\ SpuReady(row[i], t)
          /\ Sets(d, i, {"status"}, [status |-> t])

\* Mutant of SkuCreate: whatever the status of the product.
SkuCreateAnytime(d, i) ==
    /\ Opens(d, i, "spu")
    /\ Adds(d, i, {"status"}, [kind |-> "sku", status |-> "active", deleted |-> FALSE, of |-> i])

SkuCreate(d, i) ==
    /\ Opens(d, i, "spu")
    /\ row[i].status \notin {"cancelled", "discontinued"}
    /\ Adds(d, i, {"status"}, [kind |-> "sku", status |-> "active", deleted |-> FALSE, of |-> i])

\* The columns that the route updates are not modelled.
SkuUpdate(d, i) ==
    /\ Opens(d, i, "sku")
    /\ ~row[i].deleted
    /\ Sets(d, i, {"deleted"}, None)

SkuDelete(d, i) ==
    /\ Opens(d, i, "sku")
    /\ ~row[i].deleted
    /\ Sets(d, i, {}, [deleted |-> TRUE, status |-> "discontinued"])

-----------------------------------------------------------------------------
(* Projects, collected products, issues *)

ProjectCreate == Inserts([kind |-> "project", status |-> "proposing"])

UpdateStage(d, i) ==
    /\ Opens(d, i, "project")
    /\ Follows(d, i, "status", ProjectTable, DOMAIN ProjectTable)

CollectionCreate ==
    \E pictured \in BOOLEAN :
        Inserts([kind |-> "collection", status |-> "collected", pictured |-> pictured])

\* 'converted' may be set without a product.
CollectionUpdateStatus(d, i) ==
    /\ Opens(d, i, "collection")
    /\ Follows(d, i, "status", CollectionTable, DOMAIN CollectionTable)

CollectionAnalyze(d, i) ==
    /\ Opens(d, i, "collection")
    /\ row[i].status = "collected"
    /\ Sets(d, i, {}, [status |-> "analyzing"])

\* The id of the new product is read before the flush that gives it one: the
\* collection never refers to the product.
ConvertToSpu(d, i) ==
    /\ Opens(d, i, "collection")
    /\ row[i].status = "selected"
    /\ \E j \in Ids : Free(j, "spu")
    /\ Takes(d, Only(i, {"status", "pictured"}), Only(i, [status |-> "converted"]),
             SpuRow(FALSE, row[i].pictured), None)

IssueCreate == Inserts([kind |-> "issue", status |-> "open", resolved_at |-> FALSE])

\* Any status from any status.
IssueUpdate(d, i) ==
    /\ Opens(d, i, "issue")
    /\ \E t \in IssueStatuses :
          Sets(d, i, {"status"}, IF t = "resolved" THEN [status |-> t, resolved_at |-> TRUE]
                                                   ELSE [status |-> t])

-----------------------------------------------------------------------------
(* Bar codes *)

UpcCreate == Inserts([kind |-> "upc", status |-> "available", sku |-> "none", allocated_at |-> FALSE])

UpcAllocate(d, i) ==
    /\ Opens(d, i, "upc")
    /\ row[i].status = "available"
    /\ \E sku \in {"A", "B"} :
          Sets(d, i, {}, [sku |-> sku, status |-> "allocated", allocated_at |-> TRUE])

\* Mutant of UpcRelease: the SKU stays on the code.
UpcReleaseKeepsSku(d, i) ==
    /\ Opens(d, i, "upc")
    /\ row[i].status = "allocated"
    /\ Sets(d, i, {}, [status |-> "available", allocated_at |-> FALSE])

UpcRelease(d, i) ==
    /\ Opens(d, i, "upc")
    /\ row[i].status = "allocated"
    /\ Sets(d, i, {}, [sku |-> "none", status |-> "available", allocated_at |-> FALSE])

PdmNext ==
    \/ SpuCreate \/ ProjectCreate \/ CollectionCreate \/ IssueCreate \/ UpcCreate
    \/ \E d \in Desks, i \in Ids :
        \/ SpuUpdateStatus(d, i) \/ SkuCreate(d, i) \/ SkuUpdate(d, i) \/ SkuDelete(d, i)
        \/ UpdateStage(d, i)
        \/ CollectionUpdateStatus(d, i) \/ CollectionAnalyze(d, i) \/ ConvertToSpu(d, i)
        \/ IssueUpdate(d, i)
        \/ UpcAllocate(d, i) \/ UpcRelease(d, i)

-----------------------------------------------------------------------------
(* Properties *)

PdmFinal(r) ==
    CASE r.kind = "spu"        -> r.status \in {"discontinued", "cancelled"}
      [] r.kind = "project"    -> r.status \in {"completed", "cancelled"}
      [] r.kind = "collection" -> r.status = "converted"
      [] OTHER                 -> FALSE

PdmDated(r) ==
    CASE r.kind = "issue" -> r.status = "resolved" => r.resolved_at
      [] r.kind = "upc"   -> (r.status = "allocated") = r.allocated_at
      [] OTHER            -> TRUE

\* A product that was ever approved has a category, one that was ever listed a
\* picture: a converted one, which gets no category, ends in review.
OnSaleIsComplete ==
    \A i \in RowsOf("spu") :
        /\ row[i].status \in {"approved", "listed", "delisted", "discontinued"} => row[i].categorised
        /\ row[i].status \in {"listed", "delisted", "discontinued"} => row[i].pictured

\* A bar code names a SKU exactly while it is allocated, whatever allocations
\* and releases overlap.
BarCodesNameTheirSku ==
    \A i \in RowsOf("upc") : (row[i].status = "allocated") = (row[i].sku # "none")
=============================================================================
