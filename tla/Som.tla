-------------------------------- MODULE Som --------------------------------
(***************************************************************************)
(* SOM: stores and their authorisation, listings, batch jobs over          *)
(* listings, optimisation tasks, alert rules and the alerts they raise.    *)
(***************************************************************************)
EXTENDS Records

ListingTable ==
    [draft          |-> {"pending_review", "cancelled"},
     pending_review |-> {"approved", "rejected", "cancelled"},
     approved       |-> {"publishing", "cancelled"},
     publishing     |-> {"active", "publish_failed"},
     publish_failed |-> {"approved", "cancelled"},
     active         |-> {"inactive", "out_of_stock", "discontinued", "cancelled"},
     inactive       |-> {"active", "discontinued", "cancelled"},
     out_of_stock   |-> {"active", "discontinued", "cancelled"},
     discontinued   |-> {}, cancelled |-> {}, rejected |-> {}]

PlatformTable ==
    [not_listed    |-> {"listing", "list_failed"},
     listing       |-> {"listed", "list_failed"},
     list_failed   |-> {"not_listed"},
     listed        |-> {"delisting", "list_failed"},
     delisting     |-> {"delisted", "delist_failed"},
     delisted      |-> {"listing"},
     delist_failed |-> {"listed", "delisted"}]

StoreAuthTable ==
    [unauthorized |-> {"authorizing", "cancelled"},
     authorizing  |-> {"authorized", "auth_failed"},
     auth_failed  |-> {"authorizing", "cancelled"},
     authorized   |-> {"expiring", "revoked"},
     expiring     |-> {"authorized", "auth_failed"},
     revoked      |-> {"authorizing"},
     cancelled    |-> {"authorizing"}]

OptimizationTable ==
    [pending         |-> {"analyzing", "cancelled"},
     analyzing       |-> {"suggested", "failed"},
     suggested       |-> {"applying", "cancelled"},
     applying        |-> {"applied", "partial_applied", "failed"},
     applied         |-> {},
     partial_applied |-> {"applying", "cancelled"},
     failed          |-> {"analyzing"},
     cancelled       |-> {}]

AlertTable ==
    [firing |-> {"acknowledged", "resolved"}, acknowledged |-> {"resolved"}, resolved |-> {}]

-----------------------------------------------------------------------------
(* Stores *)

StoreCreate ==
    Inserts([kind |-> "store", auth_status |-> "unauthorized", token |-> FALSE,
                deleted |-> FALSE])

OpensLive(d, i, kind) == Opens(d, i, kind) /\ ~row[i].deleted

\* The token goes with a revocation or a cancellation, not with an
\* authorisation that fails or expires.
UpdateAuthStatus(d, i) ==
    /\ OpensLive(d, i, "store")
    /\ \E t \in StoreAuthTable[row[i].auth_status] :
          Sets(d, i, {"auth_status", "deleted"},
               CASE t = "authorized"               -> [auth_status |-> t, token |-> TRUE]
                 [] t \in {"revoked", "cancelled"} -> [auth_status |-> t, token |-> FALSE]
                 [] OTHER                          -> [auth_status |-> t])

\* Mutant of StoreDelete: authorised stores are deleted too.
StoreDeleteAuthorized(d, i) ==
    /\ OpensLive(d, i, "store")
    /\ Sets(d, i, {"auth_status"}, [deleted |-> TRUE])

StoreDelete(d, i) ==
    /\ OpensLive(d, i, "store")
    /\ row[i].auth_status # "authorized"
    /\ Sets(d, i, {"auth_status"}, [deleted |-> TRUE])

-----------------------------------------------------------------------------
(* Listings; titled and stocked: a title, a positive quantity.  The price  *)
(* is positive ("set") or 0.0: "none" from the start, "cut" by a rule.     *)

ListingRow(price, titled, stocked) ==
    [kind |-> "listing", status |-> "draft", listing_status |-> "not_listed",
     price |-> price, titled |-> titled, stocked |-> stocked, deleted |-> FALSE]

ListingCreate ==
    \E price \in {"none", "set"}, titled, stocked \in BOOLEAN :
        Inserts(ListingRow(price, titled, stocked))

\* Refused below the lowest price.
UpdatePrice(d, i) ==
    /\ OpensLive(d, i, "listing")
    /\ Sets(d, i, {"deleted"}, [price |-> "set"])

\* The rule's result is raised to the lowest price, then cut at the rule's own
\* limits and rounded to cents: one below half a cent leaves 0.0.
ApplyPriceRule(d, i) ==
    /\ OpensLive(d, i, "listing")
    /\ \E price \in {"set", "cut"} : Sets(d, i, {"deleted"}, [price |-> price])

\* Finds deleted listings too; refused unless the price is positive.
ExecutePriceChange(d, i) ==
    /\ Opens(d, i, "listing")
    /\ Sets(d, i, {}, [price |-> "set"])

\* What a status update does to listing r.
ListingMoves(r, t) ==
    CASE t = "active" /\ ~r.stocked -> [status |-> "out_of_stock", listing_status |-> "listed"]
      [] t = "active" /\ r.stocked  -> [status |-> t, listing_status |-> "listed"]
      [] t = "out_of_stock"         -> [status |-> t, listing_status |-> "listed"]
      [] t \in {"inactive", "cancelled"} -> [status |-> t, listing_status |-> "delisted"]
      [] OTHER                      -> [status |-> t]

\* Mutant of MayMove: nothing is asked for publishing.
MayMoveUnpriced(r, t) == t \in ListingTable[r.status]

MayMove(r, t) ==
    t \in ListingTable[r.status] /\ (t = "publishing" => r.price = "set" /\ r.titled)

\* Also each listing of batch_update_status, those that may not move left out.
ListingUpdateStatus(d, i) ==
    /\ OpensLive(d, i, "listing")
    /\ \E t \in {x \in DOMAIN ListingTable : MayMove(row[i], x)} :
          Sets(d, i, {"status", "price", "titled", "stocked", "deleted"},
               ListingMoves(row[i], t))

UpdateListingStatus(d, i) ==
    /\ OpensLive(d, i, "listing")
    /\ Follows(d, i, "listing_status", PlatformTable, DOMAIN PlatformTable)

ListingUpdate(d, i) ==
    /\ OpensLive(d, i, "listing")
    /\ row[i].status \in {"draft", "rejected", "pending_review"}
    /\ \E titled, stocked \in BOOLEAN :
          Sets(d, i, {"status", "deleted"}, [titled |-> titled, stocked |-> stocked])

ListingDelete(d, i) ==
    /\ OpensLive(d, i, "listing")
    /\ row[i].status \in {"draft", "cancelled", "discontinued"}
    /\ Sets(d, i, {"status"}, [deleted |-> TRUE])

ListingDuplicate(d, i) ==
    /\ OpensLive(d, i, "listing")
    /\ \E price \in {"none", IF row[i].price = "set" THEN "set" ELSE "none"}, titled \in BOOLEAN :
          Adds(d, i, {"price", "stocked", "deleted"}, ListingRow(price, titled, row[i].stocked))

-----------------------------------------------------------------------------
(* Batch jobs over the listings on *)

\* 0 stands for a listing that is not found.  What a job is on matters only
\* when it publishes.
JobCreate ==
    \E publish \in BOOLEAN, on \in SUBSET (RowsOf("listing") \cup {0}) :
        Inserts([kind |-> "batch_job", status |-> "pending", publish |-> publish,
                 on |-> IF publish THEN on ELSE {}])

\* The listings of a job that it can handle: a publication moves the listing,
\* the other types do nothing.
Handles(r) ==
    IF r.publish
    THEN {l \in r.on \cap RowsOf("listing") : ~row[l].deleted /\ MayMove(row[l], "publishing")}
    ELSE r.on

\* 'processing' is written and overwritten in one transaction.
JobExecute(d, i) ==
    /\ Opens(d, i, "batch_job")
    /\ row[i].status = "pending"
    /\ LET done  == Handles(row[i])
           moved == IF row[i].publish THEN done ELSE {}
           status == IF done = row[i].on THEN "completed"
                     ELSE IF done # {} THEN "partial" ELSE "failed"
       IN Takes(d, Both(Only(i, {"status"}), [l \in moved |-> DOMAIN row[l]]),
                Both(Only(i, [status |-> status]), [l \in moved |-> [status |-> "publishing"]]),
                NoRow, None)

JobCancel(d, i) ==
    /\ Opens(d, i, "batch_job")
    /\ row[i].status \in {"pending", "processing"}
    /\ Sets(d, i, {}, [status |-> "cancelled"])

-----------------------------------------------------------------------------
(* Optimisation tasks *)

Analyze(d, i) ==
    /\ OpensLive(d, i, "listing")
    /\ row[i].status \in {"draft", "active", "inactive", "out_of_stock"}
    /\ Adds(d, i, {"status", "deleted"},
            [kind |-> "optimization", status |-> "suggested", listing |-> i])

\* Suggestions change the title of a listing in any status; 'failed' is rolled
\* back with the request that sets it.
ApplySuggestions(d, i) ==
    /\ Opens(d, i, "optimization")
    /\ "applying" \in OptimizationTable[row[i].status]
    /\ LET l == row[i].listing IN
       /\ ~row[l].deleted
       /\ \/ Takes(d, Both(Only(i, {"status"}), Only(l, {"titled", "deleted"})),
                   Both(Only(i, [status |-> "applied"]), Only(l, [titled |-> TRUE])), NoRow, None)
          \/ Sets(d, i, {}, [status |-> "partial_applied"])

OptimizationCancel(d, i) ==
    /\ Opens(d, i, "optimization")
    /\ Follows(d, i, "status", OptimizationTable, {"cancelled"})

-----------------------------------------------------------------------------
(* Alert rules and alerts *)

AlertRuleCreate == Inserts([kind |-> "alert_rule", status |-> "active"])

\* Also brings a deleted rule back.
AlertRuleToggle(d, i) ==
    /\ Opens(d, i, "alert_rule")
    /\ Sets(d, i, {}, [status |-> IF row[i].status = "active" THEN "disabled" ELSE "active"])

AlertRuleDelete(d, i) ==
    /\ Opens(d, i, "alert_rule")
    /\ Sets(d, i, {}, [status |-> "deleted"])

FiringOf(rule) == {j \in RowsOf("alert") : row[j].rule = rule /\ row[j].status = "firing"}

\* Within the cooldown after the rule's last alert nothing is raised: as the
\* clock is not modelled, TriggerAlert may always be refused.
TriggerAlert(d, i) ==
    /\ Opens(d, i, "alert_rule")
    /\ row[i].status = "active"
    /\ FiringOf(i) = {}
    /\ Adds(d, i, {"status"}, [kind |-> "alert", status |-> "firing", rule |-> i])

AlertAcknowledge(d, i) ==
    /\ Opens(d, i, "alert")
    /\ Follows(d, i, "status", AlertTable, {"acknowledged"})

AlertResolve(d, i) ==
    /\ Opens(d, i, "alert")
    /\ Follows(d, i, "status", AlertTable, {"resolved"})

SomNext ==
    \/ StoreCreate \/ ListingCreate \/ JobCreate \/ AlertRuleCreate
    \/ \E d \in Desks, i \in Ids :
        \/ UpdateAuthStatus(d, i) \/ StoreDelete(d, i)
        \/ UpdatePrice(d, i) \/ ApplyPriceRule(d, i) \/ ExecutePriceChange(d, i)
        \/ ListingUpdateStatus(d, i) \/ UpdateListingStatus(d, i) \/ ListingUpdate(d, i)
        \/ ListingDelete(d, i)
        \/ JobExecute(d, i) \/ JobCancel(d, i)
        \/ ApplySuggestions(d, i) \/ OptimizationCancel(d, i)
        \/ AlertRuleToggle(d, i) \/ AlertRuleDelete(d, i)
        \/ AlertAcknowledge(d, i) \/ AlertResolve(d, i)
        \/ ListingDuplicate(d, i) \/ Analyze(d, i) \/ TriggerAlert(d, i)

-----------------------------------------------------------------------------
(* Properties *)

SomFinal(r) ==
    CASE r.kind = "listing"      -> r.status \in {"discontinued", "cancelled", "rejected"}
      [] r.kind = "batch_job"    -> r.status \in {"completed", "partial", "failed", "cancelled"}
      [] r.kind = "optimization" -> r.status \in {"applied", "cancelled"}
      [] r.kind = "alert"        -> r.status = "resolved"
      [] OTHER                   -> FALSE

OnPlatform(r) ==
    r.kind = "listing" /\ r.status \in {"publishing", "active", "inactive", "out_of_stock"}

\* A store whose authorisation is in force is never a deleted one, and a
\* listing that is on its way to the platform or on it is neither deleted nor
\* without a title, nor without a price unless a price rule cut it away after
\* the publication, whichever of the price, status, batch and edit requests
\* came before; only overlapping requests get past the checks.
OfferedIsSound ==
    \A i \in Ids \ mixed :
        /\ row[i].kind = "store" /\ row[i].deleted => row[i].auth_status # "authorized"
        /\ OnPlatform(row[i]) => row[i].price # "none" /\ row[i].titled /\ ~row[i].deleted
=============================================================================
