---------------------------- MODULE AgentSession ----------------------------
(***************************************************************************)
(* One session of the agent runtime: its row, its transcript, the turns    *)
(* that drive it (each a loop of language model and tool calls), the sweep *)
(* of expired sessions, and the accounting of what was spent.              *)
(***************************************************************************)
EXTENDS Naturals, Sequences

CONSTANTS Drivers,       \* requests in flight at once
          Tokens,        \* what one answer of the language model may cost
          MaxUses,       \* tool calls one answer may ask for
          Budget,        \* [iterations, tools, tokens]: the session's budget
          Quota, Rpm,    \* tokens of a day, requests of a minute
          None,
          MaxTurns, MaxFaults  \* bounds

VARIABLES session,     \* None or [status, chain, consumed, expired]
          linked,      \* SpiceDB: parent_workspace of the session
          transcript,  \* rows of agent_turn
          turn,        \* per driver, None or [pc, consumed, messages, left, own]
          day, window, \* intelligence_token_day, intelligence_request_window
          completions, \* session_completed events
          actual,      \* ghost: what the session really spent
          returned,    \* ghost: tokens of the requests that returned
          unbilled,    \* ghost: those of evaluations and replays
          overlapped,  \* ghost: two turns ran at once
          lossy,       \* ghost: a turn died after it had read the session
          swept,       \* ghost: the sweep closed the session
          malformed,   \* ghost: the model was sent a tool call without its result
          turns, faults

vars == <<session, linked, transcript, turn, day, window, completions, actual, returned, unbilled,
          overlapped, lossy, swept, malformed, turns, faults>>

Counts == [iterations : Nat, tools : Nat, tokens : Nat]
SessionRow == [status : {"running", "completed", "aborted"}, chain : BOOLEAN, consumed : Counts,
               expired : BOOLEAN]
Messages == [role : {"user", "assistant", "tool"}, uses : 0..MaxUses]
TurnState == [pc : {"seed", "load", "expire", "user", "loop", "tools", "end", "finish", "ask",
                    "evaluate", "bill"},
              consumed : Counts, messages : Seq(Messages), left : 0..MaxUses, own : Nat]

accounts == <<actual, returned, unbilled>>
ghosts == <<overlapped, lossy, swept, malformed>>
Zero == [iterations |-> 0, tools |-> 0, tokens |-> 0]
Max(S) == CHOOSE x \in S : \A y \in S : y <= x

Init ==
  /\ session = None /\ linked = FALSE /\ transcript = <<>>
  /\ turn = [d \in Drivers |-> None]
  /\ day = 0 /\ window = 0 /\ completions = <<>>
  /\ actual = Zero /\ returned = 0 /\ unbilled = 0
  /\ overlapped = FALSE /\ lossy = FALSE /\ swept = FALSE /\ malformed = FALSE
  /\ turns = 0 /\ faults = 0

Message(role, uses) == [role |-> role, uses |-> uses]
(* every tool call an answer asked for is followed by its result *)
Paired(ms) ==
  \A i \in DOMAIN ms : \A k \in 1..ms[i].uses : i + k \in DOMAIN ms /\ ms[i + k].role = "tool"

Go(d, pc) == turn' = [turn EXCEPT ![d].pc = pc]
Stop(d) == turn' = [turn EXCEPT ![d] = None]

(***************************************************************************)
(* Spend limits                                                            *)
(***************************************************************************)
(* enforce_before_spend: the request counts even when it is refused *)
WithinLimits == window < Rpm /\ day < Quota
Spend(d, next) ==
  /\ window' = window + 1
  /\ IF WithinLimits
     THEN turn' = [turn EXCEPT ![d] =
            [pc |-> next, consumed |-> Zero, messages |-> <<>>, left |-> 0, own |-> 0]]
     ELSE UNCHANGED turn

(* create_agent_session: spend, insert, then the SpiceDB edge; a failure of *)
(* the edge deletes the row again                                           *)
Create(d, chain) ==
  /\ session = None /\ turn[d] = None /\ turns < MaxTurns
  /\ turns' = turns + 1 /\ window' = window + 1
  /\ IF WithinLimits
     THEN /\ session' = [status |-> "running", chain |-> chain, consumed |-> Zero, expired |-> FALSE]
          /\ turn' = [turn EXCEPT ![d] =
               [pc |-> "seed", consumed |-> Zero, messages |-> <<>>, left |-> 0, own |-> 0]]
     ELSE UNCHANGED <<session, turn>>
  /\ UNCHANGED <<linked, transcript, day, completions, accounts, ghosts, faults>>

Seed(d) ==
  /\ turn[d] # None /\ turn[d].pc = "seed"
  /\ \/ linked' = TRUE /\ UNCHANGED <<session, faults>>
     \/ faults < MaxFaults /\ faults' = faults + 1 /\ session' = None /\ UNCHANGED linked
  /\ Stop(d)
  /\ UNCHANGED <<transcript, day, window, completions, accounts, ghosts, turns>>

(***************************************************************************)
(* A turn                                                                  *)
(***************************************************************************)
(* run_agent_turn: an unlinked session is not readable *)
Begin(d) ==
  /\ turn[d] = None /\ turns < MaxTurns
  /\ session # None /\ linked
  /\ turns' = turns + 1
  /\ Spend(d, "load")
  /\ UNCHANGED <<session, linked, transcript, day, completions, accounts, ghosts, faults>>

(* _finish_session: the row, whatever its status, and the event in one *)
(* transaction                                                         *)
FinishSession(status, consumed) ==
  /\ session' = [session EXCEPT !.status = status, !.consumed = consumed]
  /\ completions' = Append(completions, status)

Running ==
  {d \in Drivers : turn[d] # None /\ turn[d].pc \notin {"seed", "load", "ask", "evaluate", "bill"}}

(* get_session and the early returns; the transcript, of no use to an *)
(* expired session                                                    *)
Load(d) ==
  /\ turn[d] # None /\ turn[d].pc = "load"
  /\ \/ /\ session.status # "running"
        /\ Stop(d) /\ UNCHANGED overlapped
     \/ /\ session.status = "running"
        /\ turn' = [turn EXCEPT ![d].pc = IF session.expired THEN "expire" ELSE "user",
                                ![d].consumed = session.consumed, ![d].messages = transcript]
        /\ overlapped' = (overlapped \/ Running # {})
  /\ UNCHANGED <<session, completions, linked, transcript, day, window, accounts,
                 lossy, swept, malformed, turns, faults>>

(* the turn of an expired session closes it *)
AbortExpired(d) ==
  /\ turn[d] # None /\ turn[d].pc = "expire"
  /\ FinishSession("aborted", turn[d].consumed)
  /\ Stop(d)
  /\ UNCHANGED <<linked, transcript, day, window, accounts, ghosts, turns, faults>>

(* _record_turn *)
Record(d, message, next) ==
  /\ transcript' = Append(transcript, message)
  /\ turn' = [turn EXCEPT ![d] = [next EXCEPT !.messages = Append(next.messages, message)]]

RecordUser(d) ==
  /\ turn[d] # None /\ turn[d].pc = "user"
  /\ Record(d, Message("user", 0), [turn[d] EXCEPT !.pc = "loop"])
  /\ UNCHANGED <<session, linked, day, window, completions, accounts, ghosts, turns, faults>>

(* the head of the loop *)
OutOfIterations(d) ==
  /\ turn[d] # None /\ turn[d].pc = "loop"
  /\ turn[d].consumed.iterations >= Budget.iterations
  /\ FinishSession("aborted", turn[d].consumed)
  /\ Stop(d)
  /\ UNCHANGED <<linked, transcript, day, window, accounts, ghosts, turns, faults>>

(* llm.complete answers with uses tool calls, for cost tokens *)
Complete(d, uses, cost) ==
  LET t == turn[d]
      c == [t.consumed EXCEPT !.iterations = @ + 1, !.tokens = @ + cost]
  IN
  /\ t # None /\ t.pc = "loop"
  /\ t.consumed.iterations < Budget.iterations
  /\ actual' = [actual EXCEPT !.iterations = @ + 1, !.tokens = @ + cost]
  /\ malformed' = (malformed \/ ~Paired(t.messages))
  /\ IF c.tokens > Budget.tokens
     THEN FinishSession("aborted", c) /\ Stop(d) /\ UNCHANGED transcript
     ELSE /\ Record(d, Message("assistant", uses),
                    [t EXCEPT !.consumed = c, !.left = uses, !.own = t.own + cost,
                              !.pc = IF uses = 0 THEN "end" ELSE "tools"])
          /\ UNCHANGED <<session, completions>>
  /\ UNCHANGED <<linked, day, window, returned, unbilled, overlapped, lossy, swept, turns, faults>>

(* one tool call: an action of Knowledge or a plugin; its errors are results *)
Tool(d) ==
  LET t == turn[d] IN
  /\ t # None /\ t.pc = "tools" /\ t.left > 0
  /\ IF t.consumed.tools >= Budget.tools
     THEN FinishSession("aborted", t.consumed) /\ Stop(d) /\ UNCHANGED <<transcript, actual>>
     ELSE /\ actual' = [actual EXCEPT !.tools = @ + 1]
          /\ Record(d, Message("tool", 0), [t EXCEPT !.consumed.tools = t.consumed.tools + 1,
                                                      !.left = t.left - 1])
          /\ UNCHANGED <<session, completions>>
  /\ UNCHANGED <<linked, day, window, returned, unbilled, ghosts, turns, faults>>

(* UPDATE consumed after the tools of one answer *)
Save(d) ==
  /\ turn[d] # None /\ turn[d].pc = "tools" /\ turn[d].left = 0
  /\ session' = [session EXCEPT !.consumed = turn[d].consumed]
  /\ Go(d, "loop")
  /\ UNCHANGED <<linked, transcript, day, window, completions, accounts, ghosts, turns, faults>>

(* the end of a turn slides the expiry of the session *)
End(d) ==
  /\ turn[d] # None /\ turn[d].pc = "end"
  /\ session' = [session EXCEPT !.consumed = turn[d].consumed, !.expired = FALSE]
  /\ Go(d, IF session.chain THEN "finish" ELSE "bill")
  /\ UNCHANGED <<linked, transcript, day, window, completions, accounts, ghosts, turns, faults>>

(* a chained session is closed after one turn *)
FinishChain(d) ==
  /\ turn[d] # None /\ turn[d].pc = "finish"
  /\ FinishSession("completed", turn[d].consumed)
  /\ Go(d, "bill")
  /\ UNCHANGED <<linked, transcript, day, window, accounts, ghosts, turns, faults>>

(* mutant: the session's tokens, also for a question, which has no session *)
Billed_SessionOnly(d) == turn[d].consumed.tokens
(* record_response_tokens: the tokens of the whole session for a turn, the *)
(* tokens of the answer for a question                                     *)
Billed(d) == IF turn[d].consumed.tokens > turn[d].own THEN turn[d].consumed.tokens ELSE turn[d].own
Bill(d) ==
  /\ turn[d] # None /\ turn[d].pc = "bill"
  /\ day' = day + Billed(d)
  /\ returned' = returned + turn[d].own
  /\ Stop(d)
  /\ UNCHANGED <<session, linked, transcript, window, completions, actual, unbilled, ghosts, turns, faults>>

(* ask: one call of the model outside any session *)
Ask(d) ==
  /\ turn[d] = None /\ turns < MaxTurns
  /\ turns' = turns + 1
  /\ Spend(d, "ask")
  /\ UNCHANGED <<session, linked, transcript, day, completions, accounts, ghosts, faults>>

Answer(d, cost) ==
  /\ turn[d] # None /\ turn[d].pc = "ask"
  /\ turn' = [turn EXCEPT ![d].pc = "bill", ![d].own = cost]
  /\ UNCHANGED <<session, linked, transcript, day, window, completions, accounts, ghosts,
                 turns, faults>>

(* evaluate: the questions of the gold set are admitted as one request, and *)
(* what they cost is not recorded                                          *)
Evaluate(d) ==
  /\ turn[d] = None /\ turns < MaxTurns
  /\ turns' = turns + 1
  /\ Spend(d, "evaluate")
  /\ UNCHANGED <<session, linked, transcript, day, completions, accounts, ghosts, faults>>

Free(cost) == returned' = returned + cost /\ unbilled' = unbilled + cost
RunGoldSet(d, cost) ==
  /\ turn[d] # None /\ turn[d].pc = "evaluate"
  /\ Free(cost) /\ Stop(d)
  /\ UNCHANGED <<session, linked, transcript, day, window, completions, actual, ghosts, turns, faults>>

(* replay_session: one call of the model, neither limited nor recorded *)
Replay(cost) ==
  /\ session # None /\ linked /\ turns < MaxTurns
  /\ \A role \in {"user", "assistant"} : \E i \in DOMAIN transcript : transcript[i].role = role
  /\ turns' = turns + 1
  /\ Free(cost)
  /\ UNCHANGED <<session, linked, transcript, turn, day, window, completions, actual, ghosts, faults>>

(* Knowledge, the model or the database fails, or the process stops: the *)
(* turn ends where it is                                                 *)
Fail(d) ==
  /\ turn[d] # None /\ turn[d].pc # "seed" /\ faults < MaxFaults
  /\ faults' = faults + 1
  /\ lossy' = (lossy \/ d \in Running)
  /\ Stop(d)
  /\ UNCHANGED <<session, linked, transcript, day, window, completions, accounts, overlapped,
                 swept, malformed, turns>>

(***************************************************************************)
(* Time                                                                    *)
(***************************************************************************)
Expire ==
  /\ session # None /\ ~session.expired
  /\ session' = [session EXCEPT !.expired = TRUE]
  /\ UNCHANGED <<linked, transcript, turn, day, window, completions, accounts, ghosts, turns,
                 faults>>

(* sweep_expired_sessions: no event, and turns in flight are not told *)
Sweep ==
  /\ session # None /\ session.expired /\ session.status = "running"
  /\ session' = [session EXCEPT !.status = "aborted"]
  /\ swept' = TRUE
  /\ UNCHANGED <<linked, transcript, turn, day, window, completions, accounts, overlapped,
                 lossy, malformed, turns, faults>>

Next ==
  \/ \E d \in Drivers :
       \/ \E chain \in BOOLEAN : Create(d, chain)
       \/ Seed(d) \/ Begin(d) \/ Load(d) \/ RecordUser(d) \/ OutOfIterations(d)
       \/ \E uses \in 0..MaxUses, cost \in Tokens : Complete(d, uses, cost)
       \/ Tool(d) \/ Save(d) \/ End(d) \/ FinishChain(d) \/ Bill(d)
       \/ AbortExpired(d) \/ Ask(d) \/ Evaluate(d)
       \/ \E cost \in Tokens : Answer(d, cost) \/ RunGoldSet(d, cost)
       \/ Fail(d)
  \/ \E cost \in Tokens : Replay(cost)
  \/ Expire \/ Sweep

Spec == Init /\ [][Next]_vars

(***************************************************************************)
(* Properties                                                              *)
(***************************************************************************)
Undisturbed == ~overlapped /\ ~lossy
Idle == \A d \in Drivers : turn[d] = None

(* Over all its turns a session never spends more than its budget, one      *)
(* answer of the model aside, and what it spent is what its row says; turns *)
(* that run at once, or die, escape the account.                            *)
BudgetKept ==
  Undisturbed =>
    /\ actual.iterations <= Budget.iterations /\ actual.tools <= Budget.tools
    /\ actual.tokens <= Budget.tokens + Max(Tokens)
    /\ (Idle /\ session # None) => session.consumed = actual

(* The transcript a later turn sends to the model has a result for every    *)
(* tool call, whatever the earlier turns did.                               *)
TranscriptPaired == malformed => ~Undisturbed

(* A session that ends says so exactly once; the sweep does not.            *)
CompletionAnnounced ==
  Undisturbed /\ session # None =>
    /\ session.status # "running" => completions # <<>> \/ swept
    /\ Len(completions) <= 1

(* What the requests that returned cost is in the day's tokens, except for  *)
(* evaluations and replays, which record nothing.  A turn that dies or is   *)
(* over its budget does not return, and is not recorded either.             *)
SpendCounted == day >= returned - unbilled

(* Budget, transcript, completion and spend of a session.                   *)
AgentAccounted == BudgetKept /\ TranscriptPaired /\ CompletionAnnounced /\ SpendCounted
=============================================================================
