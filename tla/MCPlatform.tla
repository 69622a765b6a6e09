------------------------------ MODULE MCPlatform ------------------------------
(***************************************************************************)
(* What the domains stand on: the intake of the PMS, the tree of           *)
(* organisations, the event bus, sagas and workflows, the helpers against  *)
(* overload and repetition, and calculations.  They share no state, so one *)
(* of them, the focus, moves in a behaviour; a calculation is a behaviour  *)
(* of one state.                                                           *)
(***************************************************************************)
EXTENDS PmsIntake, Organizations, EventBus, Orchestration, Resilience,
        Accounts, Decisions

CONSTANTS s1, s2, t1, t2, k1, k2, r1, o1, o2, o3, a1, a2, p1, p2, c1, c2, c3, h1, m1

VARIABLE focus

platformVars ==
    <<focus, vars, orgVars, eventVars, sagaVars, workflowVars, limiterVars, breakerVars, guardVars,
      cacheVars, accountVars, figureVars>>

NoFigure == [of |-> "none"]

MCInit ==
    /\ focus \in {"intake", "orgs", "accounts", "events", "saga", "workflow", "limiter", "breaker", "guard",
                  "cache", "figures"}
    /\ Init /\ OrgInit /\ EventInit /\ SagaInit /\ WorkflowInit /\ LimiterInit
    /\ BreakerInit /\ GuardInit /\ CacheInit /\ AccountInit
    /\ focus # "accounts" => table = "user_position"
    /\ IF focus = "figures" THEN figure \in Calculations \cup Assessed \cup Judged ELSE figure = NoFigure
    /\ focus # "saga" => saga = [s \in Instances |-> NotStarted(0)]

MCNext ==
    /\ UNCHANGED focus
    /\ IF focus = "intake" THEN Next ELSE UNCHANGED vars
    /\ IF focus = "orgs" THEN OrgNext ELSE UNCHANGED orgVars
    /\ IF focus = "accounts" THEN AccountNext ELSE UNCHANGED accountVars
    /\ IF focus = "events" THEN EventNext ELSE UNCHANGED eventVars
    /\ IF focus = "saga" THEN SagaNext ELSE UNCHANGED sagaVars
    /\ IF focus = "workflow" THEN WorkflowNext ELSE UNCHANGED workflowVars
    /\ IF focus = "limiter" THEN LimiterNext ELSE UNCHANGED limiterVars
    /\ IF focus = "breaker" THEN BreakerNext ELSE UNCHANGED breakerVars
    /\ IF focus = "guard" THEN GuardNext ELSE UNCHANGED guardVars
    /\ IF focus = "cache" THEN CacheNext ELSE UNCHANGED cacheVars
    /\ UNCHANGED figureVars

\* The fairness of each component that has some; the focus only spares TLC work.
MCFairness ==
    /\ \A s \in Sessions : WF_vars(focus = "intake" /\ Step(s))
    /\ \A n \in 1..MaxDeliveries : WF_eventVars(focus = "events" /\ Delivers(n))
    /\ \A s \in Instances : WF_sagaVars(focus = "saga" /\ Proceed(s))

MCSpec == MCInit /\ [][MCNext]_platformVars /\ MCFairness

\* Events reach their handlers, sagas and workflows end as they may, and what
\* has ended stays so.
FlowsAreSound == EventsAreDelivered /\ SagasAreSound /\ []FlowsGoOn /\ OutcomesStay

UpToFour == 0..4
FiveRates == {0, 10, 30, 50, 80}

TwoSessions == {s1, s2}
TwoTenants == {t1, t2}
TwoKeys == {k1, k2}
OneRec == {r1}
ThreeOrgs == {o1, o2, o3}
TwoAdmins == {a1, a2}
TwoTypes == {"approval", "recommendation"}
NamedByType == [approval |-> <<"start_saga", "notify">>, recommendation |-> <<>>]
\* Two nodes of one assignee each, and three nodes of which the first has two.
ChainAndTwo == [f \in TwoSessions |-> IF f = s1 THEN <<<<"a">>, <<"b">>>>
                                      ELSE <<<<"a", "b">>, <<"a">>, <<"b">>>>]
ThreeCallers == {c1, c2, c3}
TwoProcesses == {p1, p2}
OneGrantee == {h1}
OneHeld == {m1}
\* Two requests repeat each other, the third brings other data under their key.
TwoAlike == [c \in ThreeCallers |-> IF c = c3 THEN "other" ELSE "same"]
=============================================================================
