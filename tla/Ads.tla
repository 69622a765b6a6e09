-------------------------------- MODULE Ads --------------------------------
(***************************************************************************)
(* ADS: campaigns, ad groups, keywords and bid adjustments.                *)
(***************************************************************************)
EXTENDS Records

CampaignTable ==
    [draft    |-> {"pending", "cancelled"},
     pending  |-> {"active", "rejected", "cancelled"},
     active   |-> {"paused", "completed", "cancelled"},
     paused   |-> {"active", "completed", "cancelled"},
     rejected |-> {"draft"},
     completed |-> {}, cancelled |-> {}, deleted |-> {}]

AdGroupTable ==
    [enabled |-> {"paused", "archived"}, paused |-> {"enabled", "archived"}, archived |-> {}]

-----------------------------------------------------------------------------
(* Campaigns; funded: the daily budget reaches the minimum.  The figures   *)
(* of update_metrics, which nothing calls, are not modelled.               *)

CampaignCreate ==
    \E funded \in BOOLEAN :
        Inserts([kind |-> "campaign", status |-> "draft", funded |-> funded, started |-> FALSE,
                 deleted |-> FALSE])

OpensCampaign(d, i) == Opens(d, i, "campaign") /\ ~row[i].deleted

\* Also each campaign of batch_update_status, which fails as a whole.
CampaignUpdateStatus(d, i) ==
    /\ OpensCampaign(d, i)
    /\ \E t \in CampaignTable[row[i].status] :
          /\ t = "active" => row[i].funded
          /\ Sets(d, i, {"status", "funded", "started", "deleted"},
                  IF t = "active" THEN [status |-> t, started |-> TRUE] ELSE [status |-> t])

UpdateBudget(d, i) ==
    /\ OpensCampaign(d, i)
    /\ Sets(d, i, {"deleted"}, [funded |-> TRUE])

\* Mutant of CampaignUpdate: in any status.
CampaignUpdateAnytime(d, i) ==
    /\ OpensCampaign(d, i)
    /\ \E funded \in BOOLEAN, t \in {"draft", "pending", "active", "paused", "completed", "cancelled"} :
          Sets(d, i, {}, [funded |-> funded, status |-> t])

\* The request may hold a status, which is assigned as it is, and a budget.
CampaignUpdate(d, i) ==
    /\ OpensCampaign(d, i)
    /\ row[i].status \in {"draft", "paused"}
    /\ \E funded \in BOOLEAN, t \in {"draft", "pending", "active", "paused", "completed", "cancelled"} :
          Sets(d, i, {"deleted"}, [funded |-> funded, status |-> t])

CampaignDelete(d, i) ==
    /\ OpensCampaign(d, i)
    /\ row[i].status \in {"draft", "paused"}
    /\ Sets(d, i, {}, [deleted |-> TRUE, status |-> "deleted"])

-----------------------------------------------------------------------------
(* Ad groups, keywords, bid adjustments *)

\* Mutant of AdGroupCreate: the deletion of the campaign is not looked at.
AdGroupCreateAnytime(d, i) ==
    /\ Opens(d, i, "campaign")
    /\ Adds(d, i, {"status", "deleted"}, [kind |-> "ad_group", status |-> "enabled", of |-> i])

AdGroupCreate(d, i) ==
    /\ OpensCampaign(d, i)
    /\ Adds(d, i, {"status", "deleted"}, [kind |-> "ad_group", status |-> "enabled", of |-> i])

AdGroupUpdate(d, i) ==
    /\ Opens(d, i, "ad_group")
    /\ Follows(d, i, "status", AdGroupTable, DOMAIN AdGroupTable)

\* bounded: the bid lies between the minimum and the maximum.
KeywordCreate == Inserts([kind |-> "keyword", status |-> "enabled", bounded |-> TRUE])

UpdateBid(d, i) ==
    /\ Opens(d, i, "keyword")
    /\ Sets(d, i, {}, [bounded |-> TRUE])

\* The edit route and the adjustment the PMS sends assign the bid unchecked.
EditBid(d, i) ==
    /\ Opens(d, i, "keyword")
    /\ \E bounded \in BOOLEAN : Sets(d, i, {}, [bounded |-> bounded])

KeywordUpdateStatus(d, i) ==
    /\ Opens(d, i, "keyword")
    /\ \E t \in {"enabled", "paused", "archived"} : Sets(d, i, {}, [status |-> t])

CalculateBid == Inserts([kind |-> "bid_adjustment", applied |-> FALSE])

\* Marks the adjustment; the keyword's bid stays as it is.
ApplyBid(d, i) ==
    /\ Opens(d, i, "bid_adjustment")
    /\ Sets(d, i, {}, [applied |-> TRUE])

AdsNext ==
    \/ CampaignCreate \/ KeywordCreate \/ CalculateBid
    \/ \E d \in Desks, i \in Ids :
        \/ CampaignUpdateStatus(d, i) \/ UpdateBudget(d, i) \/ CampaignUpdate(d, i)
        \/ CampaignDelete(d, i)
        \/ AdGroupCreate(d, i) \/ AdGroupUpdate(d, i)
        \/ UpdateBid(d, i) \/ EditBid(d, i) \/ KeywordUpdateStatus(d, i)
        \/ ApplyBid(d, i)

-----------------------------------------------------------------------------
(* Properties *)

AdsFinal(r) ==
    CASE r.kind = "campaign" -> r.status \in {"completed", "cancelled", "deleted"}
      [] r.kind = "ad_group" -> r.status = "archived"
      [] OTHER               -> FALSE
=============================================================================
