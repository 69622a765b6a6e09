------------------------------ MODULE Shipments ------------------------------
(***************************************************************************)
(* TMS: shipments and their carrier events (ShipmentService,               *)
(* TrackingService), shipping batches, carrier connectors with their       *)
(* tracking records and dispatches.                                        *)
(*                                                                         *)
(* The events of a shipment are one JSON column: every event is added by   *)
(* loading the list, appending and writing the list back.                  *)
(***************************************************************************)
EXTENDS Integers, Sequences, FiniteSets, Rows

CONSTANTS
    ShipmentIds,   \* ids of shipments
    CarrierEvents, \* bound: the kinds of events the carrier sends
    TrackingRows,  \* ids of the tracking records of one tracking number
    TmsSessions,   \* requests that may be in flight together
    MaxEvents,     \* bound: of the events accepted for a shipment
    MaxSyncs,      \* bound: of the synchronisations of a tracking number
    NoTmsRequest   \* a session without a request

ASSUME TmsAssumption ==
    /\ CarrierEvents \subseteq {"label", "picked_up", "in_transit", "out_for_delivery",
                               "delivered", "signed", "exception", "customs_hold", "returned"}
    /\ MaxEvents \in Nat /\ MaxSyncs \in Nat
    /\ IsFiniteSet(ShipmentIds) /\ "tracking" \notin ShipmentIds

VARIABLES
    shp,         \* shipment rows: status and events
    batch,       \* status of the one batch and its shipments
    tracking,    \* sync_count of each tracking record, 0: no row
    connector,   \* is_active of the carrier's connector
    dispatch,    \* dispatch_status of the one dispatch
    carrierSaid, \* history: the events accepted for each shipment
    replaced,    \* history: shipments whose list a client's update replaced
    tmsRequest,  \* what each session loaded and is about to flush
    tmsStale,    \* history: shipments committed from an out-of-date load
    doubled      \* history: tracking records inserted beside another one's insert

tmsVars == <<shp, batch, tracking, connector, dispatch, carrierSaid, replaced,
             tmsRequest, tmsStale, doubled>>

-----------------------------------------------------------------------------
(* Shipments *)

ShipmentTransitions ==
    [pending          |-> {"picked_up", "cancelled"},
     picked_up        |-> {"in_transit", "cancelled"},
     in_transit       |-> {"out_for_delivery", "exception"},
     out_for_delivery |-> {"delivered", "exception"},
     delivered        |-> {"completed"},
     exception        |-> {"in_transit", "returned", "cancelled"},
     returned         |-> {},
     completed        |-> {},
     cancelled        |-> {}]

ShipmentStatuses == DOMAIN ShipmentTransitions

\* 'signed' is stored as delivered, 'customs_hold' as exception; any other
\* event, here 'label', leaves the status alone.
EventStatus ==
    [label |-> "none", picked_up |-> "picked_up", in_transit |-> "in_transit",
     out_for_delivery |-> "out_for_delivery", delivered |-> "delivered",
     signed |-> "delivered", exception |-> "exception",
     customs_hold |-> "exception", returned |-> "returned"]

NoShipment == [status |-> "none", events |-> <<>>]

NewShipment == [status |-> "pending", events |-> <<>>]

Sent(o) == shp[o] # NoShipment

\* said: the event that a request adds to the list.
TmsChange(o, read, set, said) == [on |-> o, read |-> read, set |-> set, said |-> said]

\* Mutant of AddTrackingEvent: the transition table is not asked.
AddTrackingEventAnyStatus(o) ==
    {TmsChange(o, shp[o],
               [status |-> IF EventStatus[e] = "none" THEN shp[o].status ELSE EventStatus[e],
                events |-> Append(shp[o].events, e)], <<e>>) :
        e \in {x \in CarrierEvents : Len(carrierSaid[o]) < MaxEvents}}

\* Mutant of AddTrackingEvent: the list holds the new event only.
AddTrackingEventLast(o) ==
    {TmsChange(o, shp[o], [status |-> shp[o].status, events |-> <<e>>], <<e>>) :
        e \in {x \in CarrierEvents : Len(carrierSaid[o]) < MaxEvents}}

\* An event that the table does not allow after the present status is kept in
\* the list only: later events do not bring it back.
AddTrackingEvent(o) ==
    {TmsChange(o, shp[o],
               [status |-> IF EventStatus[e] \in ShipmentTransitions[shp[o].status]
                           THEN EventStatus[e] ELSE shp[o].status,
                events |-> Append(shp[o].events, e)], <<e>>) :
        e \in {x \in CarrierEvents : Len(carrierSaid[o]) < MaxEvents}}

\* A client's list replaces the whole recorded one, whatever it held.
UpdateTracking(o) ==
    {TmsChange(o, [events |-> shp[o].events], [events |-> <<e>>], <<>>) :
        e \in CarrierEvents}

UpdateShipmentStatus(o) ==
    {TmsChange(o, [status |-> shp[o].status], [status |-> t], <<>>) :
        t \in ShipmentTransitions[shp[o].status]}

TmsHandled(o) == AddTrackingEvent(o) \cup UpdateTracking(o) \cup UpdateShipmentStatus(o)

CreateShipment(o) ==
    /\ ~Sent(o)
    /\ shp' = [shp EXCEPT ![o] = NewShipment]
    /\ UNCHANGED <<batch, tracking, connector, dispatch, carrierSaid, replaced, tmsRequest,
                   tmsStale, doubled>>

LoadShipment(s, o) ==
    /\ tmsRequest[s] = NoTmsRequest
    /\ Sent(o)
    /\ \E c \in TmsHandled(o) : tmsRequest' = [tmsRequest EXCEPT ![s] = c]
    /\ UNCHANGED <<shp, batch, tracking, connector, dispatch, carrierSaid, replaced,
                   tmsStale, doubled>>

\* A request that writes a list of its own.
Replaces(c) == "events" \in DOMAIN c.set /\ c.said = <<>>

CommitShipment(s) ==
    /\ tmsRequest[s] # NoTmsRequest
    /\ tmsRequest[s].on \in ShipmentIds
    /\ LET c == tmsRequest[s]
           o == c.on
       IN /\ shp' = [shp EXCEPT ![o] = Flushed(@, c.read, c.set)]
          /\ carrierSaid' = [carrierSaid EXCEPT ![o] = @ \o c.said]
          /\ replaced' = IF Replaces(c) THEN replaced \cup {o} ELSE replaced
          /\ tmsStale' = IF \E f \in DOMAIN c.read : c.read[f] # shp[o][f]
                            THEN tmsStale \cup {o} ELSE tmsStale
    /\ tmsRequest' = [tmsRequest EXCEPT ![s] = NoTmsRequest]
    /\ UNCHANGED <<batch, tracking, connector, dispatch, doubled>>

\* Each shipment in a try of its own: what can move moves, the rest stays.
BatchUpdateStatus(S, t) ==
    /\ t \in ShipmentStatuses
    /\ \E o \in S : Sent(o) /\ t \in ShipmentTransitions[shp[o].status]
    /\ shp' = [o \in ShipmentIds |->
                  IF o \in S /\ Sent(o) /\ t \in ShipmentTransitions[shp[o].status]
                  THEN [shp[o] EXCEPT !.status = t] ELSE shp[o]]
    /\ UNCHANGED <<batch, tracking, connector, dispatch, carrierSaid, replaced, tmsRequest,
                   tmsStale, doubled>>

-----------------------------------------------------------------------------
(* Batches: their status and their shipments' do not know of each other *)

BatchTransitions ==
    [created |-> {"picking", "cancelled"}, picking |-> {"shipped", "cancelled"},
     shipped |-> {"completed"}, completed |-> {}, cancelled |-> {}]

\* Ids without a shipment are counted too.
CreateBatch(S) ==
    /\ batch.status = "none"
    /\ batch' = [status |-> "created", count |-> Cardinality(S)]
    /\ UNCHANGED <<shp, tracking, connector, dispatch, carrierSaid, replaced,
                   tmsRequest, tmsStale, doubled>>

UpdateBatchStatus ==
    /\ batch.status \in DOMAIN BatchTransitions
    /\ \E t \in BatchTransitions[batch.status] : batch' = [batch EXCEPT !.status = t]
    /\ UNCHANGED <<shp, tracking, connector, dispatch, carrierSaid, replaced,
                   tmsRequest, tmsStale, doubled>>

-----------------------------------------------------------------------------
(* Carrier connectors: one connector, one tracking number, one dispatch *)

Records == {r \in TrackingRows : tracking[r] > 0}

\* Mutant of QueryTracking: every query inserts a record.
QueryTrackingInserts(s) ==
    /\ connector
    /\ tmsRequest' = [tmsRequest EXCEPT ![s] =
                         [on |-> "tracking", saw |-> {}, syncs |-> 1]]

\* scalar_one_or_none: with two records the number cannot be queried any more.
QueryTracking(s) ==
    /\ connector
    /\ Cardinality(Records) <= 1
    /\ \A r \in Records : tracking[r] < MaxSyncs
    /\ tmsRequest' = [tmsRequest EXCEPT ![s] =
                         [on |-> "tracking", saw |-> Records,
                          syncs |-> 1 + (IF Records = {} THEN 0
                                         ELSE tracking[CHOOSE r \in Records : TRUE])]]

LoadTracking(s) ==
    /\ tmsRequest[s] = NoTmsRequest
    /\ QueryTracking(s)
    /\ UNCHANGED <<shp, batch, tracking, connector, dispatch, carrierSaid, replaced,
                   tmsStale, doubled>>

CommitTracking(s) ==
    /\ tmsRequest[s] # NoTmsRequest
    /\ tmsRequest[s].on = "tracking"
    /\ LET q == tmsRequest[s] IN
       \E r \in IF q.saw = {} THEN TrackingRows \ Records ELSE q.saw :
          /\ tracking' = [tracking EXCEPT ![r] = q.syncs]
          /\ doubled' = IF q.saw = {} /\ Records # {} THEN doubled \cup {r} ELSE doubled
    /\ tmsRequest' = [tmsRequest EXCEPT ![s] = NoTmsRequest]
    /\ UNCHANGED <<shp, batch, connector, dispatch, carrierSaid, replaced, tmsStale>>

UpdateConnector ==
    /\ connector' = ~connector
    /\ UNCHANGED <<shp, batch, tracking, dispatch, carrierSaid, replaced,
                   tmsRequest, tmsStale, doubled>>

CreateDispatch ==
    /\ connector
    /\ dispatch = "none"
    /\ dispatch' = "pending"
    /\ UNCHANGED <<shp, batch, tracking, connector, carrierSaid, replaced,
                   tmsRequest, tmsStale, doubled>>

\* No service ever submits a dispatch.
CancelDispatch ==
    /\ dispatch \in {"pending", "submitted"}
    /\ dispatch' = "cancelled"
    /\ UNCHANGED <<shp, batch, tracking, connector, carrierSaid, replaced,
                   tmsRequest, tmsStale, doubled>>

TmsRollback(s) ==
    /\ tmsRequest[s] # NoTmsRequest
    /\ tmsRequest' = [tmsRequest EXCEPT ![s] = NoTmsRequest]
    /\ UNCHANGED <<shp, batch, tracking, connector, dispatch, carrierSaid, replaced,
                   tmsStale, doubled>>

-----------------------------------------------------------------------------

TmsInit ==
    /\ shp = [o \in ShipmentIds |-> NoShipment]
    /\ batch = [status |-> "none", count |-> 0]
    /\ tracking = [r \in TrackingRows |-> 0]
    /\ connector = TRUE
    /\ dispatch = "none"
    /\ carrierSaid = [o \in ShipmentIds |-> <<>>]
    /\ replaced = {}
    /\ tmsRequest = [s \in TmsSessions |-> NoTmsRequest]
    /\ tmsStale = {}
    /\ doubled = {}

\* Shipments alone, and what the carrier's connector keeps.
ShipmentNext ==
    \/ \E o \in ShipmentIds : CreateShipment(o) \/ \E s \in TmsSessions : LoadShipment(s, o)
    \/ \E s \in TmsSessions : CommitShipment(s) \/ TmsRollback(s)
    \/ \E S \in SUBSET ShipmentIds, t \in ShipmentStatuses : BatchUpdateStatus(S, t)

CarrierNext ==
    \/ \E S \in SUBSET ShipmentIds : CreateBatch(S)
    \/ UpdateBatchStatus \/ UpdateConnector \/ CreateDispatch \/ CancelDispatch
    \/ \E s \in TmsSessions : LoadTracking(s) \/ CommitTracking(s) \/ TmsRollback(s)

TmsNext == ShipmentNext \/ CarrierNext

TmsSpec == TmsInit /\ [][TmsNext]_tmsVars

-----------------------------------------------------------------------------
(* Properties *)

TmsTypeOK ==
    /\ shp \in [ShipmentIds -> [status : ShipmentStatuses, events : Seq(CarrierEvents)]
                              \cup {NoShipment}]
    /\ batch \in [status : DOMAIN BatchTransitions \cup {"none"}, count : Nat]
    /\ tracking \in [TrackingRows -> Nat]
    /\ connector \in BOOLEAN
    /\ dispatch \in {"none", "pending", "submitted", "cancelled"}
    /\ carrierSaid \in [ShipmentIds -> Seq(CarrierEvents)]
    /\ tmsStale \subseteq ShipmentIds /\ replaced \subseteq ShipmentIds
    /\ doubled \subseteq TrackingRows

\* A shipment that was returned, completed or cancelled stays so, however late
\* the carrier's events arrive and in whatever order.
FinalShipmentsStay ==
    [][\A o \in ShipmentIds \ tmsStale' :
          shp[o].status \in {"returned", "completed", "cancelled"}
              => shp'[o].status = shp[o].status]_tmsVars

\* The list of a shipment holds every event that was accepted, in the order in
\* which they were, also those whose status could not follow.  Events are lost
\* in two ways only: a client's update_tracking puts its own list in the place
\* of the recorded one, and two requests that overlap overwrite one another.
EventsAreKept ==
    \A o \in ShipmentIds \ (tmsStale \cup replaced) : shp[o].events = carrierSaid[o]

\* A tracking number has two records only if two first queries overlapped.
OneTrackingRecord == Cardinality(Records \ doubled) <= 1

\* What the carrier said is kept where no client replaced it, and kept once.
TrackingIsSound == TmsTypeOK /\ EventsAreKept /\ OneTrackingRecord
=============================================================================
