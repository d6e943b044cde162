---------------------------- MODULE DurableCell ----------------------------
(***************************************************************************)
(* What commit_durable and load_committed promise (apc-core durability.rs) *)
(* whatever the backend: one cell that holds a complete state.             *)
(*                                                                         *)
(* "possible" is the set of states a power loss may leave.  It has one     *)
(* member except after a publication that no barrier has followed, when    *)
(* the old states and the new one are all still possible.  Acknowledgement *)
(* is the moment at which the new state is the only one.                   *)
(***************************************************************************)
CONSTANTS
    State,        \* the states callers commit
    NoState,      \* load_committed's None
    NoCommit      \* no commit_durable call is running

VARIABLES
    visible,      \* what load_committed returns now
    possible,     \* what it may return after a power loss
    inflight,     \* the state commit_durable is committing
    reply         \* what the last call returned: none yet, ok, err

cellVars == <<visible, possible, inflight, reply>>

CellInit ==
    /\ visible = NoState
    /\ possible = {NoState}
    /\ inflight = NoCommit
    /\ reply = "none"

CellBegin(state) ==
    /\ inflight = NoCommit
    /\ inflight' = state
    /\ reply' = "none"
    /\ UNCHANGED <<visible, possible>>

CellPublish ==
    /\ inflight \in State
    /\ visible' = inflight
    /\ possible' = possible \cup {inflight}
    /\ UNCHANGED <<inflight, reply>>

\* Ok(()) is returned.
CellAcknowledge ==
    /\ inflight \in State
    /\ visible = inflight
    /\ possible' = {inflight}
    /\ inflight' = NoCommit
    /\ reply' = "ok"
    /\ UNCHANGED visible

\* Err is returned, or the process ends: neither says whether it committed.
CellAbandon ==
    /\ inflight' = NoCommit
    /\ reply' \in {"none", "err"}
    /\ UNCHANGED <<visible, possible>>

CellPowerLoss ==
    \E state \in possible :
        /\ visible' = state
        /\ possible' = {state}
        /\ inflight' = NoCommit
        /\ reply' = "none"

CellNext ==
    \/ \E state \in State : CellBegin(state)
    \/ CellPublish
    \/ CellAcknowledge
    \/ CellAbandon
    \/ CellPowerLoss

CellSpec == CellInit /\ [][CellNext]_cellVars

=============================================================================
