------------------------------ MODULE AlertViews ------------------------------
(***************************************************************************)
(* The alerts screen of the mobile app and the list it is filled from.     *)
(* load puts the spinner on, fetches, shows what came and takes the        *)
(* spinner off; the screen starts a load when it opens and again at every  *)
(* pull, without waiting for the one before.  A fetch that fails in any    *)
(* way answers with alerts made up for demonstrations.                     *)
(***************************************************************************)
EXTENDS Integers

CONSTANTS
    ViewAlerts,    \* the alerts of the tenant
    MadeUp,        \* MOCK of mobile/src/api.ts
    MaxLoads       \* bound on the loads that are started

ASSUME ViewsAssumption == MadeUp \cap ViewAlerts = {}

VARIABLES
    openAlerts,    \* alerts whose row is in state open
    loads,         \* loads in progress
    started,       \* loads begun so far
    items,         \* what the screen shows
    loading,       \* the spinner is on
    shownBy        \* the load that filled the screen

viewVars == <<openAlerts, loads, started, items, loading, shownBy>>
------------------------------------------------------------------------------
NoLoad == [phase |-> "none", answer |-> {}, openBefore |-> {}, served |-> FALSE]

LoadSlots == 1..2

InProgress == {i \in LoadSlots : loads[i] # NoLoad}

StartLoad(i) ==
    /\ started < MaxLoads /\ loads[i] = NoLoad
    /\ loads' = [loads EXCEPT ![i] = [NoLoad EXCEPT !.phase = "asked", !.openBefore = openAlerts]]
    /\ started' = started + 1
    /\ loading' = TRUE
    /\ UNCHANGED <<openAlerts, items, shownBy>>

MutantListOpen == ViewAlerts

(* The alerts of the tenant that are open when the server reads them.       *)
ListOpen == openAlerts

Served(i) ==
    /\ loads[i].phase = "asked"
    /\ loads' = [loads EXCEPT ![i].phase = "answered", ![i].answer = ListOpen, ![i].served = TRUE]
    /\ UNCHANGED <<openAlerts, started, items, loading, shownBy>>

(* No network, a refused token, a failing database, a body that is no JSON. *)
FetchFails(i) ==
    /\ loads[i].phase = "asked"
    /\ loads' = [loads EXCEPT ![i].phase = "answered", ![i].answer = MadeUp]
    /\ UNCHANGED <<openAlerts, started, items, loading, shownBy>>

Show(i) ==
    /\ loads[i].phase = "answered"
    /\ items' = loads[i].answer
    /\ shownBy' = loads[i]
    /\ loading' = FALSE
    /\ loads' = [loads EXCEPT ![i] = NoLoad]
    /\ UNCHANGED <<openAlerts, started>>

(* Somebody acknowledges or resolves an alert.  The screen cannot: what the *)
(* buttons of the detail screen do stays in the app.  No alert is added     *)
(* while the service runs: only the seed script calls AlertRepo.add, and no *)
(* update opens an alert again.                                             *)
Close(a) ==
    /\ a \in openAlerts
    /\ openAlerts' = openAlerts \ {a}
    /\ UNCHANGED <<loads, started, items, loading, shownBy>>

ViewInit ==
    /\ openAlerts \in SUBSET ViewAlerts
    /\ loads = [i \in LoadSlots |-> NoLoad]
    /\ started = 0 /\ items = {} /\ loading = FALSE /\ shownBy = NoLoad

ViewNext ==
    \/ \E i \in LoadSlots : StartLoad(i) \/ Served(i) \/ FetchFails(i) \/ Show(i)
    \/ \E a \in ViewAlerts : Close(a)

ViewSpec == ViewInit /\ [][ViewNext]_viewVars
------------------------------------------------------------------------------
(* A served load leaves a true screen, whatever overlaps it: everything on  *)
(* it was open when the load began, and nothing that is open now is missing *)
(* (the alerts only close, so an older answer that comes last has more on   *)
(* it, never less; a failed load shows alerts that do not exist).  And the  *)
(* spinner never turns without a load behind it.                            *)
ServedLoadShowsTheTruth ==
    /\ shownBy.served => items \subseteq shownBy.openBefore /\ openAlerts \subseteq items
    /\ loading => InProgress # {}
    /\ items \subseteq ViewAlerts \/ items = MadeUp
==============================================================================
