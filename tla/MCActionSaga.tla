---------------------------- MODULE MCActionSaga ----------------------------
(* ActionSaga with every call that may go wrong, and what of it keeps a    *)
(* request from being settled.                                             *)
EXTENDS ActionSaga

AllFaults == FaultKinds

VARIABLE abandoned  \* approvals a record of which the engine gave up
mcVars == <<vars, abandoned>>

(* The engine gives up the record in hand: _fetch_writeback_dataset fails  *)
(* or finds no writeback, a statement of its database fails before the     *)
(* outcome is recorded, or Knowledge is not told.                          *)
GivesUp ==
    \/ Fetch /\ pc' # "insert"
    \/ DatabaseFails /\ pc # "announce"
    \/ Callback /\ status[Cur] = "approved" /\ status'[Cur] = "approved"

MCInit == Init /\ abandoned = {}
MCNext == /\ Next
          /\ abandoned' = IF GivesUp THEN abandoned \cup {Cur} ELSE abandoned
MCSpec == MCInit /\ [][MCNext]_mcVars
MCFairSpec ==
    /\ MCSpec
    /\ WF_vars(Engine)
    /\ \A a \in Approvals : WF_vars(Relay(a) /\ \A o \in DOMAIN log : log[o] # a)

(* Every approved request is one day settled: the source has it and an     *)
(* execution says so, or Knowledge has undone it, whatever fails, unless   *)
(* the engine gave up a record of it or stopped.                           *)
SettlesUnlessAbandoned ==
    \A a \in Approvals :
        (status[a] = "approved") ~>
            (Execs(a, "completed") # {} \/ status[a] = "failed" \/ a \in abandoned \/ pc = "dead")
=============================================================================
