-------------------------------- MODULE Chat --------------------------------
(***************************************************************************)
(* `penko chat` (cli/chat.py): one process that reads lines, runs a turn   *)
(* of the agent for each, and keeps its account (the usage it shows, the   *)
(* budget it enforces) over turns, sessions, Ctrl+C, crashes and resumes.  *)
(*                                                                         *)
(* One call of the model is one token.  Tokens and dollars are added side  *)
(* by side everywhere, so one number stands for both.  Commands that only  *)
(* print (/help, /cost, /tools, /session) and those that set what no       *)
(* property reads (/model, /theme) are left out.                           *)
(***************************************************************************)
EXTENDS Naturals, FiniteSets

CONSTANTS ChatSessions, \* the ids that uuid4 may draw
          ChatModes,    \* permission modes
          FlagModes,    \* bound: what --mode is given, "none" for no --mode
          ProfileMode,  \* of the agent's profile, or default_mode()
          ChatBudget,   \* Budget.limit
          UsageLimit,   \* sessions that usage_summary returns at most (50)
          MaxChatTokens \* bound: tokens per session

ASSUME ChatAssumption ==
  /\ "plan" \in ChatModes /\ "default" \in ChatModes /\ ProfileMode \in ChatModes
  /\ FlagModes \subseteq ChatModes \cup {"none"}
  /\ ChatBudget \in Nat /\ UsageLimit \in Nat /\ MaxChatTokens \in Nat

VARIABLES chat,     \* the process
          chatRow,  \* per session: its row in the table sessions
          llmTokens,\* per session: the tokens of its llm_call events
          modeChange\* per session: the mode of its last mode_change event

chatVars == <<chat, chatRow, llmTokens, modeChange>>

AskedModes == ChatModes \cup {"none"}  \* permission_mode and --mode may be None
NoChatRow == [status |-> "none", mode |-> "none", tokens |-> 0]
NewChatRow(m) == [status |-> "pending", mode |-> m, tokens |-> 0]
\* missed: the session was resumed, but usage_summary did not return it.
NoChat == [at |-> "down", session |-> "none", requested |-> "none", tokens |-> 0,
           budget |-> 0, runs |-> "none", missed |-> FALSE]

ChatTypeOK ==
  /\ chat \in [at : {"down", "prompt", "turn"}, session : ChatSessions \cup {"none"},
               requested : AskedModes, tokens : Nat, budget : Nat, runs : AskedModes,
               missed : BOOLEAN]
  /\ chatRow \in [ChatSessions -> [status : {"none", "pending", "success", "failure"},
                                   mode : AskedModes, tokens : Nat]]
  /\ llmTokens \in [ChatSessions -> Nat]
  /\ modeChange \in [ChatSessions -> AskedModes]
  /\ chat.at # "down" => chat.session \in ChatSessions

ChatInit ==
  /\ chat = NoChat
  /\ chatRow = [s \in ChatSessions |-> NoChatRow]
  /\ llmTokens = [s \in ChatSessions |-> 0]
  /\ modeChange = [s \in ChatSessions |-> "none"]

-----------------------------------------------------------------------------
FirstOf(a, b) == IF a # "none" THEN a ELSE b

\* The mode the run starts in: a recorded change, then the argument, then the profile.
StartMode == FirstOf(modeChange[chat.session], FirstOf(chat.requested, ProfileMode))

\* setup() without --resume: a fresh session, pending like any other.
ChatStarts(s, m) ==
  /\ chat.at = "down" /\ chatRow[s] = NoChatRow
  /\ chat' = [NoChat EXCEPT !.at = "prompt", !.session = s, !.requested = m]
  /\ chatRow' = [chatRow EXCEPT ![s] = NewChatRow(m)]
  /\ UNCHANGED <<llmTokens, modeChange>>

\* usage_summary sorts by cost and stops at its limit, so a session may be missing
\* from it as soon as that many others have called a model.
MayMiss(s) == Cardinality({t \in ChatSessions \ {s} : llmTokens[t] > 0}) >= UsageLimit

\* Mutant of LoadUsage: the budget is not told.
LoadUsageForDisplay(c, n) == [c EXCEPT !.tokens = n]

\* _load_usage: what the session's events say goes into the account and the budget.
LoadUsage(c, n) == [c EXCEPT !.tokens = n, !.budget = @ + n]

\* setup() with --resume.
ChatResumes(s, m, missed) ==
  /\ chat.at = "down" /\ chatRow[s] # NoChatRow
  /\ missed => MayMiss(s)
  /\ LET up == [NoChat EXCEPT !.at = "prompt", !.session = s, !.missed = missed,
                              !.requested = FirstOf(m, chatRow[s].mode)]
     IN  chat' = IF missed THEN up ELSE LoadUsage(up, llmTokens[s])
  /\ UNCHANGED <<chatRow, llmTokens, modeChange>>

\* /new: another session with an empty account; the mode asked for and the budget go on.
NewSession(s) ==
  /\ chat.at = "prompt" /\ chatRow[s] = NoChatRow
  /\ chat' = [chat EXCEPT !.session = s, !.tokens = 0, !.missed = FALSE]
  /\ chatRow' = [chatRow EXCEPT ![s] = NewChatRow(chat.requested)]
  /\ UNCHANGED <<llmTokens, modeChange>>

\* /mode NAME
ModeCommand(m) ==
  /\ chat.at = "prompt"
  /\ modeChange' = [modeChange EXCEPT ![chat.session] = m]
  /\ chat' = [chat EXCEPT !.requested = m]
  /\ UNCHANGED <<chatRow, llmTokens>>

\* A line that is no command: the user message is appended and the run starts.
TurnBegins ==
  /\ chat.at = "prompt"
  /\ chat' = [chat EXCEPT !.at = "turn", !.runs = StartMode]
  /\ UNCHANGED <<chatRow, llmTokens, modeChange>>

\* A call of the model is charged and logged, and its usage event rendered, in one step.
ChatSpends ==
  /\ chat.at = "turn" /\ chat.budget < ChatBudget /\ llmTokens[chat.session] < MaxChatTokens
  /\ llmTokens' = [llmTokens EXCEPT ![chat.session] = @ + 1]
  /\ chat' = [chat EXCEPT !.tokens = @ + 1, !.budget = @ + 1]
  /\ UNCHANGED <<chatRow, modeChange>>

\* A subagent charges the budget of its parent and logs in a session of its own.
SubagentSpends ==
  /\ chat.at = "turn" /\ chat.budget < ChatBudget
  /\ chat' = [chat EXCEPT !.budget = @ + 1]
  /\ UNCHANGED <<chatRow, llmTokens, modeChange>>

\* exit_plan_mode was approved: the event is all that the chat learns of it.
PlanApproved ==
  /\ chat.at = "turn" /\ chat.runs = "plan"
  /\ modeChange' = [modeChange EXCEPT ![chat.session] = "default"]
  /\ chat' = [chat EXCEPT !.runs = "default"]
  /\ UNCHANGED <<chatRow, llmTokens>>

\* _save
SaveRow(status) ==
  chatRow' = [chatRow EXCEPT ![chat.session] = [@ EXCEPT !.status = status, !.tokens = chat.tokens]]

\* The turn has an outcome, or Ctrl+C stopped it.
TurnEnds(status) ==
  /\ chat.at = "turn"
  /\ chat' = [chat EXCEPT !.at = "prompt", !.runs = "none"]
  /\ SaveRow(status)
  /\ UNCHANGED <<llmTokens, modeChange>>

\* /exit or Ctrl+D at the prompt; in a turn an exception or the end of the process.
ChatGone ==
  /\ chat.at # "down"
  /\ chat' = NoChat
  /\ UNCHANGED <<chatRow, llmTokens, modeChange>>

ChatNext ==
  \/ \E s \in ChatSessions, m \in FlagModes : ChatStarts(s, m)
  \/ \E s \in ChatSessions, m \in FlagModes, missed \in BOOLEAN : ChatResumes(s, m, missed)
  \/ \E s \in ChatSessions : NewSession(s)
  \/ \E m \in ChatModes : ModeCommand(m)
  \/ TurnBegins
  \/ ChatSpends
  \/ SubagentSpends
  \/ PlanApproved
  \/ \E status \in {"success", "failure"} : TurnEnds(status)
  \/ ChatGone

ChatSpec == ChatInit /\ [][ChatNext]_chatVars

-----------------------------------------------------------------------------
\* What /cost shows is what the session's log holds and the budget knows of it, over
\* every turn, stopped turn, /new, crash and resume; a session that usage_summary does
\* not return on resume is the exception (a fresh budget for an old session).
AccountKept ==
  chat.at # "down" /\ ~chat.missed =>
    chat.tokens = llmTokens[chat.session] /\ chat.tokens <= chat.budget

\* Its inductive form: the session at work has a row, and no session without one has spent anything.
SessionHasRow == chat.at # "down" => chatRow[chat.session] # NoChatRow
UnknownSpentNothing == \A s \in ChatSessions : chatRow[s] = NoChatRow => llmTokens[s] = 0
ChatInv == ChatTypeOK /\ SessionHasRow /\ UnknownSpentNothing /\ AccountKept
=============================================================================
