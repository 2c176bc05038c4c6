------------------------------ MODULE Channels ------------------------------
(***************************************************************************)
(* How a human is asked: the prompt on the terminal (gateway/channels.py)  *)
(* and the buttons in Telegram (gateway/telegram.py), over one broker.     *)
(*                                                                         *)
(* Of the broker only this is kept: a request is pending until the first   *)
(* answer, its timeout or the cancellation of the turn that made it, and   *)
(* resolve() refuses all others.  In `penko chat` the event loop stands    *)
(* still while the REPL reads a line, but a thread that reads for an       *)
(* approval prompt does not: whoever gets the line gets it.                *)
(***************************************************************************)
EXTENDS Naturals, Sequences

CONSTANTS Asks,       \* ids of requests; an id may have been used before a restart
          OldPresses, \* presses of buttons that Telegram still keeps: sequences of ids
          MaxPresses  \* bound: presses in all

ASSUME ChannelsAssumption == OldPresses \subseteq Seq(Asks) /\ MaxPresses \in Nat

VARIABLES ask,     \* per request: what the broker knows
          prompt,  \* per request: the task that asks on the terminal, and what was on
                   \* the screen when the line it got was typed
          screen,  \* the last prompt printed: a request, "repl" or ""
          repl,    \* the REPL reads a line and the event loop stands still
          button,  \* requests with a message in the chat
          presses, \* Telegram's updates, numbered by their place: [id, old]
          poller   \* the poller task: its offset, and whether the first get_updates failed

channelVars == <<ask, prompt, screen, repl, button, presses, poller>>

ChannelsTypeOK ==
  /\ ask \in [Asks -> [status : {"none", "pending", "resolved", "over"},
                       answer : {"none", "right", "wrong"}]]
  /\ prompt \in [Asks -> [at : {"none", "queued", "reading", "typed", "over"},
                          shown : Asks \cup {"repl", ""}]]
  /\ screen \in Asks \cup {"repl", ""} /\ repl \in BOOLEAN /\ button \subseteq Asks
  /\ presses \in Seq([id : Asks, old : BOOLEAN])
  /\ poller \in [at : {"starting", "polling"}, offset : Nat \ {0}, until : Nat, failed : BOOLEAN]

ChannelsInit ==
  /\ ask = [r \in Asks |-> [status |-> "none", answer |-> "none"]]
  /\ prompt = [r \in Asks |-> [at |-> "none", shown |-> ""]]
  /\ screen = "" /\ repl = FALSE /\ button = {}
  /\ \E s \in OldPresses : presses = [i \in 1 .. Len(s) |-> [id |-> s[i], old |-> TRUE]]
  /\ poller = [at |-> "starting", offset |-> 1, until |-> 0, failed |-> FALSE]

-----------------------------------------------------------------------------
IsPending(r) == ask[r].status = "pending"

\* broker.resolve: only the first answer to a pending request counts.
Resolve(r, right) ==
  ask' = IF IsPending(r)
         THEN [ask EXCEPT ![r] = [status |-> "resolved", answer |-> IF right THEN "right" ELSE "wrong"]]
         ELSE ask

\* A request: a task for the terminal, a message to the chat unless sending fails.
Notify(r) ==
  /\ ~repl /\ ask[r].status = "none"
  /\ ask' = [ask EXCEPT ![r].status = "pending"]
  /\ prompt' = [prompt EXCEPT ![r].at = "queued"]
  /\ button' \in {button, button \cup {r}}
  /\ UNCHANGED <<screen, repl, presses, poller>>

\* The timeout, the end of the turn, or an answer by way of the API.
OverElsewhere(r) ==
  /\ ~repl /\ IsPending(r)
  /\ ask' = [ask EXCEPT ![r].status = "over"]
  /\ UNCHANGED <<prompt, screen, repl, button, presses, poller>>

Prints(r) ==
  IF IsPending(r)
  THEN /\ prompt' = [prompt EXCEPT ![r].at = "reading"] /\ screen' = r
  ELSE /\ prompt' = [prompt EXCEPT ![r].at = "over"] /\ UNCHANGED screen

\* Mutant of AskNext: there is no lock.
AskAtOnce(r) ==
  /\ ~repl /\ prompt[r].at = "queued"
  /\ Prints(r)
  /\ UNCHANGED <<ask, repl, button, presses, poller>>

\* A queued task gets the lock: it prints and reads, or finds its request answered.
AskNext(r) ==
  /\ ~repl /\ prompt[r].at = "queued"
  /\ \A q \in Asks : prompt[q].at \notin {"reading", "typed"}
  /\ Prints(r)
  /\ UNCHANGED <<ask, repl, button, presses, poller>>

\* A line is typed, and the thread of this prompt gets it.
TypeLine(r) ==
  /\ prompt[r].at = "reading"
  /\ prompt' = [prompt EXCEPT ![r] = [at |-> "typed", shown |-> screen]]
  /\ UNCHANGED <<ask, screen, repl, button, presses, poller>>

\* Back in the event loop: y, s or anything else resolves what is still pending.
AnswerTyped(r) ==
  /\ ~repl /\ prompt[r].at = "typed"
  /\ prompt' = [prompt EXCEPT ![r].at = "over"]
  /\ Resolve(r, prompt[r].shown = r)
  /\ UNCHANGED <<screen, repl, button, presses, poller>>

\* End of input instead of a line.
EndOfInput(r) ==
  /\ ~repl /\ prompt[r].at = "reading"
  /\ prompt' = [prompt EXCEPT ![r].at = "over"]
  /\ UNCHANGED <<ask, screen, repl, button, presses, poller>>

\* The turn is over, and with it every request it made; the REPL prints its prompt.
ReplReads ==
  /\ ~repl /\ \A r \in Asks : ~IsPending(r)
  /\ repl' = TRUE /\ screen' = "repl"
  /\ UNCHANGED <<ask, prompt, button, presses, poller>>

ReplGetsLine ==
  /\ repl /\ repl' = FALSE
  /\ UNCHANGED <<ask, prompt, screen, button, presses, poller>>

\* Someone presses a button of a message in the chat, answered or not.
PressButton(r) ==
  /\ r \in button /\ Len(presses) < MaxPresses
  /\ presses' = Append(presses, [id |-> r, old |-> FALSE])
  /\ UNCHANGED <<ask, prompt, screen, repl, button, poller>>

\* _poll begins: the presses Telegram kept are skipped, or asking for them fails.
SkipOldPresses ==
  /\ ~repl /\ poller.at = "starting"
  /\ \/ poller' = [poller EXCEPT !.at = "polling", !.offset = Len(presses) + 1]
     \/ poller' = [poller EXCEPT !.at = "polling", !.failed = TRUE]
  /\ UNCHANGED <<ask, prompt, screen, repl, button, presses>>

\* get_updates returns what is not confirmed yet.
GetUpdates ==
  /\ ~repl /\ poller.at = "polling" /\ poller.offset > poller.until /\ Len(presses) >= poller.offset
  /\ poller' = [poller EXCEPT !.until = Len(presses)]
  /\ UNCHANGED <<ask, prompt, screen, repl, button, presses>>

\* One update: the offset moves first; handle_callback answers the request it names.
HandleUpdate ==
  LET press == presses[poller.offset] IN
  /\ ~repl /\ poller.at = "polling" /\ poller.offset <= poller.until
  /\ poller' = [poller EXCEPT !.offset = @ + 1]
  /\ Resolve(press.id, press.old => poller.failed)
  /\ UNCHANGED <<prompt, screen, repl, button, presses>>

ChannelsNext ==
  \/ \E r \in Asks : \/ Notify(r)
                     \/ OverElsewhere(r)
                     \/ AskNext(r)
                     \/ TypeLine(r)
                     \/ AnswerTyped(r)
                     \/ EndOfInput(r)
                     \/ PressButton(r)
  \/ ReplReads
  \/ ReplGetsLine
  \/ SkipOldPresses
  \/ GetUpdates
  \/ HandleUpdate

ChannelsSpec == ChannelsInit /\ [][ChannelsNext]_channelVars

-----------------------------------------------------------------------------
\* An answer that counted was given to the request it was taken for: the line was typed
\* under that request's prompt, not under another's or the REPL's, and the button was
\* not pressed before this process asked (unless the poller could not skip those).
AnswersTheShown == \A r \in Asks : ask[r].answer # "wrong"

\* Its inductive form: the one thread that reads for a pending request has its prompt on the screen,
\* and what a poller that skipped the old presses still has to read is new.
OneReads ==
  \A q, r \in Asks : q # r =>
    ~(prompt[q].at \in {"reading", "typed"} /\ prompt[r].at \in {"reading", "typed"})
PendingShown ==
  \A r \in Asks : IsPending(r) =>
    /\ prompt[r].at = "reading" => screen = r
    /\ prompt[r].at = "typed" => prompt[r].shown = r
OldSkipped ==
  /\ poller.until <= Len(presses)
  /\ poller.at = "polling" /\ ~poller.failed => \A i \in poller.offset .. Len(presses) : ~presses[i].old
ChannelsInv == ChannelsTypeOK /\ OneReads /\ PendingShown /\ OldSkipped /\ AnswersTheShown
=============================================================================
