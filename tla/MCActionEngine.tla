--------------------------- MODULE MCActionEngine ---------------------------
(* Model-checking instances of ActionEngine.                               *)
EXTENDS ActionEngine, TLC

CONSTANTS close, tag, p1, p2

Def(edits, risk, writeback) ==
    [edits |-> edits, function |-> edits = {}, risk |-> risk, writeback |-> writeback]

\* closeAccount writes back to its source system; tag is a low-risk edit.
Close == Def({p1}, "high", TRUE)
Tag == Def({p1}, "low", FALSE)
TwoActions == (close :> Close) @@ (tag :> Tag)
Fixed == [n \in Actions |-> {InitDef[n]}]

\* Both may be redefined, to write what a function computes, which may be less than before.
Redefined == (close :> {InitDef[close], Def({}, "high", TRUE)}) @@ (tag :> {Tag, Def({}, "low", FALSE)})

\* closeAccount writes two properties, tag one of them.
WideActions == (close :> Def({p1, p2}, "high", TRUE)) @@ (tag :> Tag)

CONSTANT MaxFew  \* bound: action_invocation rows when handlers run at once or closeAccount is redefined

(* Handlers at once under fixed definitions; or one at a time while tag,   *)
(* or both actions, are redefined.                                         *)
VARIABLE mode
mcVars == <<vars, mode>>

Busy == {w \in Workers : job[w].pc # "idle"}

MCInit == Init /\ mode \in {"concurrent", "serial", "redefined"}
MCNext ==
    /\ Next /\ UNCHANGED mode
    /\ mode = "concurrent" => def' = def
    /\ mode = "serial" => def'[close] = def[close]
    /\ IF mode = "concurrent" THEN TRUE ELSE Cardinality(Busy') <= 1
    /\ IF mode = "serial" THEN TRUE ELSE Len(invs') + Cardinality(Pending') <= MaxFew
MCSpec == MCInit /\ [][MCNext]_mcVars

Symmetry == Permutations(Approvals) \cup Permutations(Workers) \cup Permutations(Users)

(* One handler at a time, reverts undo exactly: see ActionEngine.          *)
SerialReplay == mode # "concurrent" => OverlayIsReplay
(* One handler at a time, a compensated approval leaves none of its values *)
(* unless its action wrote fewer properties since: see ActionEngine.       *)
SerialCompensation == mode # "concurrent" => CompensatedEditIsGone
=============================================================================
