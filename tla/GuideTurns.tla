------------------------------ MODULE GuideTurns ------------------------------
(***************************************************************************)
(* packages/guide: what the model is told in an interaction and what        *)
(* becomes of its answers.  The control of the loop and its budget are      *)
(* AgentLoop's; this module adds to its steps the data that goes round:     *)
(* the status object, the tool calls with their names and identities, the   *)
(* tools' effect on working memory, the results of a turn, and both         *)
(* providers with the proxy between them (llm-provider.ts, llm-proxy.ts,    *)
(* openrouter-provider.ts).                                                *)
(*                                                                         *)
(* Runs may overlap: the service starts one for every call it gets, and the *)
(* page calls again after a timeout.  A value of working memory is named by *)
(* the call that carries it.                                               *)
(***************************************************************************)
EXTENDS AgentLoop, Selection, SequencesExt

CONSTANTS
  Registry,       \* names of the registered tools
  UpdateMemory,   \* "update_working_memory"
  Name,           \* Name[t]: the tool that t calls, registered or not
  CallId,         \* CallId[t]: the id the model gives it, its own or another's too
  WellFormed,     \* calls whose arguments are JSON and fit the tool's schema
  InitialMemory   \* options.initialWorkingMemory

ASSUME TurnsAssumption ==
  /\ UpdateMemory \in Registry
  /\ DOMAIN Name = ToolCall /\ DOMAIN CallId = ToolCall
  /\ WellFormed \subseteq ToolCall
  /\ InitialMemory \notin ToolCall

VARIABLES
  memory,           \* the loop's workingMemory
  status,           \* of a run: the memory and the undispatched calls it tells of
  previousResults,  \* of a run: the results of its last turn
  turnCalls,        \* history: the calls of that turn, in the model's order
  issued,           \* history: all calls that reached the loop, in order
  before,           \* history: of a run, how many had when it started
  ended,            \* history: runs in the order of their ends
  overlapped        \* history: two runs have been going on at a time

conversationVars == <<memory, status, previousResults>>
conversationHistory == <<turnCalls, issued, before, ended, overlapped>>
vars == <<loopVars, conversationVars, conversationHistory>>

NoStatus == [memory |-> InitialMemory, undispatched |-> {}, last |-> None]

Init ==
  /\ LoopInit
  /\ memory = InitialMemory
  /\ status = [r \in Run |-> NoStatus]
  /\ previousResults = [r \in Run |-> <<>>]
  /\ turnCalls = [r \in Run |-> <<>>]
  /\ issued = <<>>
  /\ before = [r \in Run |-> 0]
  /\ ended = <<>>
  /\ overlapped = FALSE

-----------------------------------------------------------------------------
(* Tools *)

(* ToolRegistry.dispatch() gets as far as the handler. *)
Accepted(t) == Name[t] \in Registry /\ t \in WellFormed

(* How a dispatch may settle: update_working_memory cannot fail, any other
   handler can, and its value can be one the return schema rejects. *)
Outcomes(t) ==
  CASE ~Accepted(t) -> {"failed"}
    [] Accepted(t) /\ Name[t] = UpdateMemory -> {"ok"}
    [] OTHER -> {"ok", "failed"}

Updates(t) == Accepted(t) /\ Name[t] = UpdateMemory

(* What memory is after updates to it, if there are any: each replaces it. *)
Latest(updates, old) == IF updates = <<>> THEN old ELSE Last(updates)
Updating == {t \in ToolCall : Updates(t)}

(* Mutant: the handlers of denied calls run as well. *)
MemoryAfterAll(calls, first) == Latest(Only(calls, Updating), memory)

(* The calls that pass the gate are dispatched one after the other, and the
   handler of update_working_memory replaces the value at once. *)
MemoryAfter(calls, first) == Latest(Only(SubSeq(calls, 1, first - 1), Updating), memory)

-----------------------------------------------------------------------------
(* What the model is told *)

(* A ToolResult, as the next request has it. *)
TurnResultEntry(t) == [callId |-> CallId[t], name |-> Name[t], ok |-> call[t] = "ok"]

(* Mutant: the result of a call is looked up by its callId. *)
ResultsById(calls) ==
  [k \in DOMAIN calls |->
     TurnResultEntry(CHOOSE t \in ToSet(calls) : CallId[t] = CallId[calls[k]])]

(* The results of a turn: those of denied calls first, the others in the
   order of the calls, whatever the order they settled in. *)
Results(calls) ==
  LET refused == {t \in ToolCall : call[t] = "denied"}
      sorted == Only(calls, refused) \o Only(calls, ToolCall \ refused)
  IN  [k \in DOMAIN sorted |-> TurnResultEntry(sorted[k])]

(* An assistant message made up from the results, and a message for each. *)
toolResultMessages(results) ==
  <<[role |-> "assistant",
     tool_calls |-> [k \in DOMAIN results |-> [id |-> results[k].callId, name |-> results[k].name]]]>>
  \o [k \in DOMAIN results |-> [role |-> "tool", tool_call_id |-> results[k].callId,
                                content |-> IF results[k].ok THEN "value" ELSE "error"]]

InteractionInput(r) ==
  [eventQueue |-> r,
   status |-> [budget |-> [total |-> total[r], consumed |-> consumed[r]],
               workingMemory |-> status[r].memory,
               undispatched |-> status[r].undispatched]]

(* What the loop hands to provider.turn(), and the worker's provider posts to
   the proxy.  The budget is read anew for every turn; the rest of the status
   is that of the run's start. *)
LlmTurnRequest(r) ==
  [input |-> InteractionInput(r), tools |-> Registry,
   previousResults |-> previousResults[r]]

systemMessage(input) == [role |-> "system", content |-> input.status]
userMessage(input) == [role |-> "user", content |-> input.eventQueue]

(* What goes upstream for a turn; earlier turns are left out. *)
buildRequestBody(request) ==
  [tools |-> request.tools,
   messages |-> <<systemMessage(request.input), userMessage(request.input)>>
                \o (IF request.previousResults = <<>> THEN <<>>
                    ELSE toolResultMessages(request.previousResults))]

-----------------------------------------------------------------------------
(* What the model answers *)

(* An upstream response, as far as it is read.  The failure stands for an error
   of the request, of its response or of the choice: any of them makes the
   proxy's handler throw, and so the worker's provider. *)
Failure == [ok |-> FALSE, finish_reason |-> "other", tool_calls |-> <<>>]
Response ==
  {Failure} \cup [ok : {TRUE}, finish_reason : {"tool_calls", "other"}, tool_calls : Batch]

(* Calls that come with any other finish_reason are dropped. *)
parseResponse(response) ==
  LET called == response.tool_calls # <<>> /\ response.finish_reason = "tool_calls"
  IN  [toolCalls |-> IF called THEN response.tool_calls ELSE <<>>, finished |-> ~called]

-----------------------------------------------------------------------------
(* Steps *)

(* What a run keeps for itself goes with its end. *)
Remember(r, calls, results) ==
  /\ turnCalls' = [turnCalls EXCEPT ![r] = IF Going(r)' THEN calls ELSE <<>>]
  /\ previousResults' = [previousResults EXCEPT ![r] = IF Going(r)' THEN results ELSE <<>>]
  /\ ended' = IF Going(r)' THEN ended ELSE Append(ended, r)

(* GuideService.invoke() *)
RunInteraction(r, premium) ==
  /\ StartRun(r, premium)
  /\ status' = [status EXCEPT ![r] =
       [memory |-> memory, undispatched |-> undispatched,
        last |-> IF ended = <<>> THEN None ELSE Last(ended)]]
  /\ before' = [before EXCEPT ![r] = Len(issued)]
  /\ overlapped' = (overlapped \/ \E s \in Run : Going(s))
  /\ UNCHANGED <<memory, previousResults, turnCalls, issued, ended>>

(* provider.turn() settles: an error ends the interaction, so does an answer
   without calls; calls go through the gate, and those that pass it to the
   registry. *)
TurnSettles(r, response, first) ==
  LET output == parseResponse(response) IN
  /\ phase[r] = "turn"
  /\ \/ /\ ~response.ok
        /\ TurnEnds(r, "cut off")
        /\ UNCHANGED <<memory, issued>>
     \/ /\ response.ok /\ output.finished
        /\ TurnEnds(r, "finished")
        /\ UNCHANGED <<memory, issued>>
     \/ /\ response.ok /\ ~output.finished
        /\ TurnCalls(r, output.toolCalls, first)
        /\ memory' = MemoryAfter(output.toolCalls, first)
        /\ issued' = issued \o output.toolCalls
  /\ Remember(r, output.toolCalls, previousResults[r])
  /\ UNCHANGED <<status, before, overlapped>>

ToolSettles(t, how) ==
  /\ how \in Outcomes(t)
  /\ CallSettles(t, how)
  /\ UNCHANGED <<conversationVars, conversationHistory>>

(* Every call of the turn has settled; the next turn is told the results of
   this one only. *)
TurnDispatched(r) ==
  /\ DispatchEnds(r)
  /\ Remember(r, turnCalls[r], Results(turnCalls[r]))
  /\ UNCHANGED <<memory, status, issued, before, overlapped>>

TurnStep(r) ==
  \/ \E premium \in Premium : RunInteraction(r, premium)
  \/ \E response \in Response : \E first \in 1 .. Len(response.tool_calls) + 1 :
       TurnSettles(r, response, first)
  \/ TurnDispatched(r)

NextTurn ==
  \/ \E r \in Run : TurnStep(r)
  \/ \E t \in ToolCall : ToolSettles(t, "ok") \/ ToolSettles(t, "failed")

TurnSpec == Init /\ [][NextTurn]_vars

-----------------------------------------------------------------------------
(* Properties *)

Count(seq, e) == Cardinality({k \in DOMAIN seq : seq[k] = e})

(* Every request after the first answers the calls of the turn before it:
   each call, also one that shares its id with another, has one result that
   says truly whether it succeeded; and each result is a message of its own
   that follows a call with its id.  Neither the order in which the calls
   settle nor another run of the loop changes that. *)
CallsAnswered ==
  \A r \in Run : phase[r] = "turn" /\ turns[r] > 1 =>
    LET entries == [k \in DOMAIN turnCalls[r] |-> TurnResultEntry(turnCalls[r][k])]
        messages == buildRequestBody(LlmTurnRequest(r)).messages
        results == SubSeq(messages, 4, Len(messages))
    IN  /\ \A e \in ToSet(entries) \cup ToSet(previousResults[r]) :
             Count(entries, e) = Count(previousResults[r], e)
        /\ Len(messages[3].tool_calls) = Len(results)
        /\ \A k \in DOMAIN results :
             results[k].tool_call_id = messages[3].tool_calls[k].id

(* specs/constrained-agent.spec.md, update_working_memory: an interaction is
   told, in all of its turns, the value of the last update the model had made
   before it, in the order it made them, among those that took effect; an
   update that was denied or rejected and is listed as undispatched has had
   none. *)
MemoryOfLastUpdate ==
  \A r \in Run : phase[r] # "idle" =>
    LET made == Only(SubSeq(issued, 1, before[r]), {t \in Updating : call[t] # "denied"})
    IN  status[r].memory = Latest(made, InitialMemory)

(* specs/constrained-agent.spec.md, Undispatched tool calls: an interaction is
   told of exactly the calls that were not dispatched, or failed, in the
   interaction before it, as long as no two have overlapped; a host that waits
   for outcomes has no call forgotten and none told of twice. *)
UndispatchedOfPrevious ==
  ~overlapped => UndispatchedCarried /\ \A r \in Run : phase[r] # "idle" =>
    status[r].undispatched =
      {t \in ToolCall : status[r].last # None /\ caller[t] = status[r].last
                        /\ call[t] \in {"failed", "denied"}}

(* Even if runs overlap, no undispatched call is told of in two of them. *)
ToldOnce ==
  \A r, s \in Run : r # s => status[r].undispatched \cap status[s].undispatched = {}
=============================================================================
