--------------------------- MODULE GatewayProofs ---------------------------
(***************************************************************************)
(* Proofs about how a human is asked (Channels), for any requests, old     *)
(* presses and bounds, about the account of `penko chat` (Chat), for any   *)
(* sessions, modes and bounds, and about how far the rate window of the    *)
(* HTTP API (Admission) can overshoot, for any threads, tokens and limit.  *)
(***************************************************************************)
EXTENDS Channels, Chat, Admission, FiniteSetTheorems, TLAPS

AskState == [status : {"none", "pending", "resolved", "over"}, answer : {"none", "right", "wrong"}]
PromptState == [at : {"none", "queued", "reading", "typed", "over"}, shown : Asks \cup {"repl", ""}]
Press == [id : Asks, old : BOOLEAN]
PollerState == [at : {"starting", "polling"}, offset : Nat \ {0}, until : Nat, failed : BOOLEAN]

\* Resolve with a right answer, or of a request that no longer waits, gives no wrong one.
LEMMA ResolvesRight ==
  ASSUME ChannelsTypeOK, AnswersTheShown, NEW r \in Asks, NEW right \in BOOLEAN, Resolve(r, right),
         IsPending(r) => right
  PROVE  /\ ask' \in [Asks -> AskState] /\ AnswersTheShown'
         /\ \A q \in Asks : ask'[q].status = "pending" => IsPending(q)
<1>1. CASE ~IsPending(r)
  <2>1. ask' = ask
    BY <1>1 DEF Resolve
  <2> QED BY <2>1 DEF ChannelsTypeOK, AskState, AnswersTheShown, IsPending
<1>2. CASE IsPending(r)
  <2>1. ask' = [ask EXCEPT ![r] = [status |-> "resolved", answer |-> "right"]]
    BY <1>2 DEF Resolve
  <2>0. ask \in [Asks -> AskState] /\ [status |-> "resolved", answer |-> "right"] \in AskState
    BY DEF ChannelsTypeOK, AskState
  <2>2. ask' \in [Asks -> AskState] /\ ask'[r] = [status |-> "resolved", answer |-> "right"]
        /\ \A q \in Asks \ {r} : ask'[q] = ask[q]
    BY <2>0, <2>1
  <2> QED BY <2>2 DEF AnswersTheShown, IsPending
<1> QED BY <1>1, <1>2

\* An answer that counted was given to the request it was taken for, for any requests, in any
\* order of prompts, lines, presses, timeouts and the REPL: AnswersTheShown.
THEOREM ChannelsCorrect == ChannelsSpec => []AnswersTheShown
<1> USE ChannelsAssumption
<1>1. ChannelsInit => ChannelsInv
  <2> SUFFICES ASSUME ChannelsInit PROVE ChannelsInv
    OBVIOUS
  <2>0. PICK s \in OldPresses : presses = [i \in 1 .. Len(s) |-> [id |-> s[i], old |-> TRUE]]
    BY DEF ChannelsInit
  <2>1. presses \in Seq(Press) /\ Len(presses) \in Nat
    <3>1. s \in Seq(Asks)
      OBVIOUS
    <3>2. \A i \in 1 .. Len(s) : [id |-> s[i], old |-> TRUE] \in Press
      BY <3>1 DEF Press
    <3> QED BY <2>0, <3>1, <3>2
  <2>2. ChannelsTypeOK
    <3>1. ask \in [Asks -> AskState] /\ prompt \in [Asks -> PromptState]
      BY DEF ChannelsInit, AskState, PromptState
    <3>2. poller \in PollerState
      <4>1. poller = [at |-> "starting", offset |-> 1, until |-> 0, failed |-> FALSE]
        BY DEF ChannelsInit
      <4> QED BY <4>1 DEF PollerState
    <3>3. screen \in Asks \cup {"repl", ""} /\ repl \in BOOLEAN /\ button \subseteq Asks
      BY DEF ChannelsInit
    <3> QED BY <2>1, <3>1, <3>2, <3>3 DEF ChannelsTypeOK, AskState, PromptState, Press, PollerState
  <2>3. OneReads /\ AnswersTheShown
    BY DEF ChannelsInit, OneReads, AnswersTheShown
  <2>4. PendingShown
    BY DEF ChannelsInit, PendingShown, IsPending
  <2>5. OldSkipped
    <3>1. poller.at = "starting" /\ poller.until = 0
      BY DEF ChannelsInit
    <3> QED BY <2>1, <3>1 DEF OldSkipped
  <2> QED BY <2>2, <2>3, <2>4, <2>5 DEF ChannelsInv
<1>2. ChannelsInv /\ [ChannelsNext]_channelVars => ChannelsInv'
  <2> SUFFICES ASSUME ChannelsInv, [ChannelsNext]_channelVars PROVE ChannelsInv'
    OBVIOUS
  <2>t. /\ ask \in [Asks -> AskState] /\ prompt \in [Asks -> PromptState]
        /\ screen \in Asks \cup {"repl", ""} /\ repl \in BOOLEAN /\ button \subseteq Asks
        /\ presses \in Seq(Press) /\ poller \in PollerState
    BY DEF ChannelsInv, ChannelsTypeOK, AskState, PromptState, Press, PollerState
  <2>s. presses \in Seq(Press) /\ Len(presses) \in Nat
    <3>1. presses \in Seq(Press)
      BY <2>t
    <3> QED BY <3>1
  <2>p. /\ poller \in PollerState /\ poller.at \in {"starting", "polling"} /\ poller.offset \in Nat \ {0}
        /\ poller.until \in Nat /\ poller.failed \in BOOLEAN
    BY <2>t DEF PollerState
  \* The parts of the invariant, for what the state has become.
  <2>a. ASSUME ask' \in [Asks -> AskState], prompt' \in [Asks -> PromptState], screen' \in Asks \cup {"repl", ""},
               repl' \in BOOLEAN, button' \subseteq Asks, presses' \in Seq(Press), poller' \in PollerState
        PROVE  ChannelsTypeOK'
    BY <2>a DEF ChannelsTypeOK, AskState, PromptState, Press, PollerState
  <2>b. ASSUME UNCHANGED <<presses, poller>> PROVE OldSkipped'
    BY <2>b DEF ChannelsInv, OldSkipped
  <2>c. ASSUME UNCHANGED ask PROVE AnswersTheShown'
    BY <2>c DEF ChannelsInv, AnswersTheShown
  <2>d. ASSUME UNCHANGED prompt PROVE OneReads'
    BY <2>d DEF ChannelsInv, OneReads
  <2>e. ASSUME \A r \in Asks : ask'[r].status = "pending" => ask[r].status = "pending",
               UNCHANGED <<prompt, screen>>
        PROVE  PendingShown'
    BY <2>e DEF ChannelsInv, PendingShown, IsPending
  <2>f. ASSUME NEW r \in Asks, NEW p \in PromptState, prompt' = [prompt EXCEPT ![r] = p]
        PROVE  prompt' \in [Asks -> PromptState] /\ prompt'[r] = p /\ \A q \in Asks \ {r} : prompt'[q] = prompt[q]
    BY <2>f, <2>t
  \* One prompt goes on, and no thread begins to read.
  <2>g. ASSUME NEW r \in Asks, NEW p \in PromptState, prompt' = [prompt EXCEPT ![r] = p],
               p.at \in {"reading", "typed"} => prompt[r].at \in {"reading", "typed"}
        PROVE  OneReads'
    BY <2>f, <2>g DEF ChannelsInv, OneReads
  <2>h. ASSUME NEW r \in Asks, NEW p \in PromptState, prompt' = [prompt EXCEPT ![r] = p],
               UNCHANGED screen, p.at \notin {"reading", "typed"},
               \A q \in Asks \ {r} : ask'[q].status = "pending" => ask[q].status = "pending"
        PROVE  PendingShown'
    <3>1. prompt'[r] = p /\ screen' = screen /\ \A q \in Asks \ {r} : prompt'[q] = prompt[q]
      BY <2>f, <2>h
    <3> SUFFICES ASSUME NEW q \in Asks, ask'[q].status = "pending"
                 PROVE  /\ prompt'[q].at = "reading" => screen' = q
                        /\ prompt'[q].at = "typed" => prompt'[q].shown = q
      BY DEF PendingShown, IsPending
    <3>2. CASE q = r
      BY <2>h, <3>1, <3>2
    <3>3. CASE q # r
      <4>1. ask[q].status = "pending" /\ prompt'[q] = prompt[q]
        BY <2>h, <3>1, <3>3
      <4>2. /\ prompt[q].at = "reading" => screen = q
            /\ prompt[q].at = "typed" => prompt[q].shown = q
        BY <4>1 DEF ChannelsInv, PendingShown, IsPending
      <4> QED BY <3>1, <4>1, <4>2
    <3> QED BY <3>2, <3>3
  <2>1. ASSUME NEW r \in Asks, Notify(r) PROVE ChannelsInv'
    <3> DEFINE p == [prompt[r] EXCEPT !.at = "queued"]
               a == [ask[r] EXCEPT !.status = "pending"]
    <3>1. ask' = [ask EXCEPT ![r] = a] /\ prompt' = [prompt EXCEPT ![r] = p]
          /\ button' \in {button, button \cup {r}} /\ UNCHANGED <<screen, repl, presses, poller>>
      BY <2>1 DEF Notify
    <3>2. p \in PromptState /\ p.at = "queued"
      BY <2>t DEF PromptState
    <3>3. a \in AskState /\ a.answer = ask[r].answer
      BY <2>t DEF AskState
    <3> HIDE DEF p, a
    <3>4. ask' \in [Asks -> AskState] /\ ask'[r] = a /\ \A q \in Asks \ {r} : ask'[q] = ask[q]
      BY <2>t, <3>1, <3>3
    <3>8. button' \subseteq Asks /\ prompt' \in [Asks -> PromptState]
      BY <2>f, <2>t, <3>1, <3>2
    <3>5. ChannelsTypeOK'
      BY <2>a, <2>t, <3>1, <3>4, <3>8
    <3>6. OneReads' /\ PendingShown'
      BY <2>g, <2>h, <3>1, <3>2, <3>4
    <3>7. AnswersTheShown'
      BY <3>3, <3>4 DEF ChannelsInv, AnswersTheShown
    <3> QED BY <2>b, <3>1, <3>5, <3>6, <3>7 DEF ChannelsInv
  <2>2. ASSUME NEW r \in Asks, OverElsewhere(r) PROVE ChannelsInv'
    <3> DEFINE a == [ask[r] EXCEPT !.status = "over"]
    <3>1. ask' = [ask EXCEPT ![r] = a] /\ UNCHANGED <<prompt, screen, repl, button, presses, poller>>
      BY <2>2 DEF OverElsewhere
    <3>2. a \in AskState /\ a.answer = ask[r].answer /\ a.status = "over"
      BY <2>t DEF AskState
    <3> HIDE DEF a
    <3>3. ask' \in [Asks -> AskState] /\ ask'[r] = a /\ \A q \in Asks \ {r} : ask'[q] = ask[q]
      BY <2>t, <3>1, <3>2
    <3>4. ChannelsTypeOK'
      BY <2>a, <2>t, <3>1, <3>3
    <3>5. PendingShown'
      BY <2>e, <3>1, <3>2, <3>3
    <3>6. AnswersTheShown'
      BY <3>2, <3>3 DEF ChannelsInv, AnswersTheShown
    <3> QED BY <2>b, <2>d, <3>1, <3>4, <3>5, <3>6 DEF ChannelsInv
  <2>3. ASSUME NEW r \in Asks, AskNext(r) PROVE ChannelsInv'
    <3>1. UNCHANGED <<ask, repl, button, presses, poller>>
          /\ \A q \in Asks : prompt[q].at \notin {"reading", "typed"}
      BY <2>3 DEF AskNext
    <3>2. CASE IsPending(r)
      <4> DEFINE p == [prompt[r] EXCEPT !.at = "reading"]
      <4>1. prompt' = [prompt EXCEPT ![r] = p] /\ screen' = r
        BY <2>3, <3>2 DEF AskNext, Prints
      <4>2. p \in PromptState /\ p.at = "reading"
        BY <2>t DEF PromptState
      <4> HIDE DEF p
      <4>3. prompt' \in [Asks -> PromptState] /\ prompt'[r] = p /\ \A q \in Asks \ {r} : prompt'[q] = prompt[q]
        BY <2>f, <4>1, <4>2
      <4>4. ChannelsTypeOK'
        BY <2>a, <2>t, <3>1, <4>1, <4>3
      <4>5. OneReads'
        BY <3>1, <4>3 DEF OneReads
      <4>6. PendingShown'
        BY <3>1, <4>1, <4>2, <4>3 DEF PendingShown, IsPending
      <4> QED BY <2>b, <2>c, <3>1, <4>4, <4>5, <4>6 DEF ChannelsInv
    <3>3. CASE ~IsPending(r)
      <4> DEFINE p == [prompt[r] EXCEPT !.at = "over"]
      <4>1. prompt' = [prompt EXCEPT ![r] = p] /\ screen' = screen
        BY <2>3, <3>3 DEF AskNext, Prints
      <4>2. p \in PromptState /\ p.at = "over"
        BY <2>t DEF PromptState
      <4> HIDE DEF p
      <4>4. ChannelsTypeOK'
        BY <2>a, <2>f, <2>t, <3>1, <4>1, <4>2
      <4>5. OneReads' /\ PendingShown'
        BY <2>g, <2>h, <3>1, <4>1, <4>2
      <4> QED BY <2>b, <2>c, <3>1, <4>4, <4>5 DEF ChannelsInv
    <3> QED BY <3>2, <3>3
  <2>4. ASSUME NEW r \in Asks, TypeLine(r) PROVE ChannelsInv'
    <3> DEFINE p == [at |-> "typed", shown |-> screen]
    <3>1. prompt[r].at = "reading" /\ prompt' = [prompt EXCEPT ![r] = p]
          /\ UNCHANGED <<ask, screen, repl, button, presses, poller>>
      BY <2>4 DEF TypeLine
    <3>2. p \in PromptState /\ p.at = "typed" /\ p.shown = screen
      BY <2>t DEF PromptState
    <3> HIDE DEF p
    <3>3. prompt' \in [Asks -> PromptState] /\ prompt'[r] = p /\ \A q \in Asks \ {r} : prompt'[q] = prompt[q]
      BY <2>f, <3>1, <3>2
    <3>4. ChannelsTypeOK'
      BY <2>a, <2>t, <3>1, <3>3
    <3>5. OneReads'
      BY <2>g, <3>1, <3>2
    <3>6. PendingShown'
      BY <3>1, <3>2, <3>3 DEF ChannelsInv, PendingShown, IsPending
    <3> QED BY <2>b, <2>c, <3>1, <3>4, <3>5, <3>6 DEF ChannelsInv
  <2>5. ASSUME NEW r \in Asks, AnswerTyped(r) PROVE ChannelsInv'
    <3> DEFINE p == [prompt[r] EXCEPT !.at = "over"]
               right == prompt[r].shown = r
    <3>1. prompt[r].at = "typed" /\ prompt' = [prompt EXCEPT ![r] = p] /\ Resolve(r, right)
          /\ UNCHANGED <<screen, repl, button, presses, poller>>
      BY <2>5 DEF AnswerTyped
    <3>2. p \in PromptState /\ p.at = "over"
      BY <2>t DEF PromptState
    <3>3. right \in BOOLEAN /\ (IsPending(r) => right)
      BY <3>1 DEF ChannelsInv, PendingShown
    <3> HIDE DEF p, right
    <3>4. /\ ask' \in [Asks -> AskState] /\ AnswersTheShown'
          /\ \A q \in Asks : ask'[q].status = "pending" => ask[q].status = "pending"
      BY <3>1, <3>3, ResolvesRight DEF ChannelsInv, IsPending
    <3>5. ChannelsTypeOK'
      BY <2>a, <2>f, <2>t, <3>1, <3>2, <3>4
    <3>6. OneReads' /\ PendingShown'
      BY <2>g, <2>h, <3>1, <3>2, <3>4
    <3> QED BY <2>b, <3>1, <3>4, <3>5, <3>6 DEF ChannelsInv
  <2>6. ASSUME NEW r \in Asks, EndOfInput(r) PROVE ChannelsInv'
    <3> DEFINE p == [prompt[r] EXCEPT !.at = "over"]
    <3>1. prompt' = [prompt EXCEPT ![r] = p] /\ UNCHANGED <<ask, screen, repl, button, presses, poller>>
      BY <2>6 DEF EndOfInput
    <3>2. p \in PromptState /\ p.at = "over"
      BY <2>t DEF PromptState
    <3> HIDE DEF p
    <3>3. ChannelsTypeOK'
      BY <2>a, <2>f, <2>t, <3>1, <3>2
    <3>4. OneReads' /\ PendingShown'
      BY <2>g, <2>h, <3>1, <3>2
    <3> QED BY <2>b, <2>c, <3>1, <3>3, <3>4 DEF ChannelsInv
  <2>7. ASSUME ReplReads \/ ReplGetsLine PROVE ChannelsInv'
    <3>1. UNCHANGED <<ask, prompt, button, presses, poller>> /\ repl' \in BOOLEAN /\ screen' \in {screen, "repl"}
      BY <2>7 DEF ReplReads, ReplGetsLine
    <3>2. screen' = screen \/ \A r \in Asks : ~IsPending(r)
      BY <2>7 DEF ReplReads, ReplGetsLine
    <3>3. ChannelsTypeOK'
      BY <2>a, <2>t, <3>1
    <3>4. PendingShown'
      BY <3>1, <3>2 DEF ChannelsInv, PendingShown, IsPending
    <3> QED BY <2>b, <2>c, <2>d, <3>1, <3>3, <3>4 DEF ChannelsInv
  <2>8. ASSUME NEW r \in Asks, PressButton(r) PROVE ChannelsInv'
    <3> DEFINE new == [id |-> r, old |-> FALSE]
    <3>1. presses' = Append(presses, new) /\ UNCHANGED <<ask, prompt, screen, repl, button, poller>>
      BY <2>8 DEF PressButton
    <3>2. new \in Press /\ ~new.old
      BY DEF Press
    <3> HIDE DEF new
    <3>3. presses' \in Seq(Press) /\ Len(presses) \in Nat /\ Len(presses') = Len(presses) + 1
          /\ presses'[Len(presses')] = new /\ \A i \in 1..Len(presses) : presses'[i] = presses[i]
      BY <2>s, <3>1, <3>2
    <3>4. ChannelsTypeOK'
      BY <2>a, <2>t, <3>1, <3>3
    <3>5. OldSkipped'
      <4>1. poller.until <= Len(presses') /\ poller.until \in Nat /\ poller.offset \in Nat \ {0}
        BY <2>s, <2>p, <3>3 DEF ChannelsInv, OldSkipped
      <4>2. ASSUME poller.at = "polling", ~poller.failed, NEW i \in poller.offset .. Len(presses')
            PROVE  ~presses'[i].old
        <5>1. CASE i = Len(presses')
          BY <3>2, <3>3, <5>1
        <5>2. CASE i # Len(presses')
          <6>1. i \in poller.offset .. Len(presses) /\ i \in 1 .. Len(presses)
            BY <3>3, <4>1, <5>2
          <6> QED BY <3>3, <4>2, <6>1 DEF ChannelsInv, OldSkipped
        <5> QED BY <5>1, <5>2
      <4> QED BY <3>1, <4>1, <4>2 DEF OldSkipped
    <3>6. PendingShown'
      BY <2>e, <3>1
    <3> QED BY <2>c, <2>d, <3>1, <3>4, <3>5, <3>6 DEF ChannelsInv
  <2>9. ASSUME SkipOldPresses \/ GetUpdates PROVE ChannelsInv'
    <3>1. UNCHANGED <<ask, prompt, screen, repl, button, presses>>
      BY <2>9 DEF SkipOldPresses, GetUpdates
    <3>2. poller' \in PollerState
      <4>1. CASE SkipOldPresses
        <5>1. Len(presses) + 1 \in Nat \ {0}
          BY <2>s
        <5>2. \/ poller' = [poller EXCEPT !.at = "polling", !.offset = Len(presses) + 1]
              \/ poller' = [poller EXCEPT !.at = "polling", !.failed = TRUE]
          BY <4>1 DEF SkipOldPresses
        <5>3. ASSUME NEW n \in Nat \ {0}, poller' = [poller EXCEPT !.at = "polling", !.offset = n]
              PROVE  poller' \in PollerState
          BY <2>p, <5>3 DEF PollerState
        <5>4. ASSUME poller' = [poller EXCEPT !.at = "polling", !.failed = TRUE]
              PROVE  poller' \in PollerState
          BY <2>p, <5>4 DEF PollerState
        <5> QED BY <5>1, <5>2, <5>3, <5>4
      <4>2. CASE GetUpdates
        BY <2>s, <2>p, <4>2 DEF GetUpdates, PollerState
      <4> QED BY <2>9, <4>1, <4>2
    <3>3. ChannelsTypeOK'
      BY <2>a, <2>t, <3>1, <3>2
    <3>4. OldSkipped'
      <4>1. CASE SkipOldPresses
        <5>1. poller.until <= Len(presses) /\ presses' = presses
          BY <3>1 DEF ChannelsInv, OldSkipped
        <5>2. /\ poller'.until = poller.until
              /\ poller'.failed \/ poller'.offset = Len(presses) + 1
          BY <2>s, <2>p, <4>1 DEF SkipOldPresses, PollerState
        <5> QED BY <2>s, <5>1, <5>2 DEF OldSkipped
      <4>2. CASE GetUpdates
        <5>1. presses' = presses /\ poller'.until = Len(presses) /\ poller'.offset = poller.offset
              /\ poller'.at = poller.at /\ poller'.failed = poller.failed
          BY <2>p, <4>2 DEF GetUpdates, PollerState
        <5> QED BY <2>s, <5>1 DEF ChannelsInv, OldSkipped
      <4> QED BY <2>9, <4>1, <4>2
    <3>5. PendingShown'
      BY <2>e, <3>1
    <3> QED BY <2>c, <2>d, <3>1, <3>3, <3>4, <3>5 DEF ChannelsInv
  <2>10. ASSUME HandleUpdate PROVE ChannelsInv'
    <3> DEFINE press == presses[poller.offset]
               right == press.old => poller.failed
    <3>1. /\ poller.at = "polling" /\ poller.offset <= poller.until
          /\ poller' = [poller EXCEPT !.offset = @ + 1]
          /\ Resolve(press.id, right) /\ UNCHANGED <<prompt, screen, repl, button, presses>>
      BY <2>10 DEF HandleUpdate
    <3>2. poller.offset \in 1 .. Len(presses) /\ poller.until \in Nat /\ Len(presses) \in Nat
      BY <2>s, <2>p, <3>1 DEF ChannelsInv, OldSkipped
    <3>3. press \in Press
      BY <2>s, <3>2
    <3>4. right
      BY <3>1, <3>2 DEF ChannelsInv, OldSkipped
    <3>5. press.id \in Asks /\ right \in BOOLEAN
      BY <3>3 DEF Press
    <3> HIDE DEF press, right
    <3>6. /\ ask' \in [Asks -> AskState] /\ AnswersTheShown'
          /\ \A q \in Asks : ask'[q].status = "pending" => ask[q].status = "pending"
      BY <3>1, <3>4, <3>5, ResolvesRight DEF ChannelsInv, IsPending
    <3>7. /\ poller' \in PollerState /\ poller'.offset = poller.offset + 1 /\ poller'.until = poller.until
          /\ poller'.at = poller.at /\ poller'.failed = poller.failed
      BY <2>p, <3>1 DEF PollerState
    <3>8. ChannelsTypeOK'
      BY <2>a, <2>t, <3>1, <3>6, <3>7
    <3>9. OldSkipped'
      <4>1. poller'.until <= Len(presses')
        BY <3>1, <3>7 DEF ChannelsInv, OldSkipped
      <4>2. ASSUME poller'.at = "polling", ~poller'.failed, NEW i \in poller'.offset .. Len(presses')
            PROVE  ~presses'[i].old
        <5>1. i \in poller.offset .. Len(presses)
          BY <3>1, <3>2, <3>7
        <5>2. ~poller.failed
          BY <3>7, <4>2
        <5>3. ~presses[i].old
          BY <3>1, <5>1, <5>2 DEF ChannelsInv, OldSkipped
        <5> QED BY <3>1, <5>3
      <4> QED BY <4>1, <4>2 DEF OldSkipped
    <3> QED BY <2>d, <2>e, <3>1, <3>6, <3>8, <3>9 DEF ChannelsInv
  <2>11. CASE UNCHANGED channelVars
    <3>1. UNCHANGED <<ask, prompt, screen, repl, button, presses, poller>>
      BY <2>11 DEF channelVars
    <3> QED BY <2>a, <2>b, <2>c, <2>d, <2>e, <2>t, <3>1 DEF ChannelsInv
  <2> QED BY <2>1, <2>2, <2>3, <2>4, <2>5, <2>6, <2>7, <2>8, <2>9, <2>10, <2>11 DEF ChannelsNext
<1>3. ChannelsInv => AnswersTheShown
  BY DEF ChannelsInv
<1> QED BY <1>1, <1>2, <1>3, PTL DEF ChannelsSpec
----------------------------------------------------------------------------
ChatState == [at : {"down", "prompt", "turn"}, session : ChatSessions \cup {"none"}, requested : AskedModes,
              tokens : Nat, budget : Nat, runs : AskedModes, missed : BOOLEAN]
ChatRows == [status : {"none", "pending", "success", "failure"}, mode : AskedModes, tokens : Nat]

\* A step that leaves rows and log alone only has to keep the account of the process.
LEMMA ChatMoves ==
  ASSUME ChatInv, UNCHANGED <<chatRow, llmTokens>>, modeChange' \in [ChatSessions -> AskedModes],
         NEW c \in ChatState, chat' = c,
         c.at # "down" => c.session \in ChatSessions /\ chatRow[c.session] # NoChatRow,
         c.at # "down" /\ ~c.missed => c.tokens = llmTokens[c.session] /\ c.tokens <= c.budget
  PROVE  ChatInv'
<1>1. ChatTypeOK'
  BY DEF ChatInv, ChatTypeOK, ChatState
<1>2. SessionHasRow' /\ AccountKept'
  BY DEF SessionHasRow, AccountKept
<1>3. UnknownSpentNothing'
  BY DEF ChatInv, UnknownSpentNothing
<1> QED BY <1>1, <1>2, <1>3 DEF ChatInv

\* A session gets its row, and the process goes on in it with an account of nothing.
LEMMA ChatOpens ==
  ASSUME ChatInv, NEW s \in ChatSessions, NEW m \in AskedModes, NEW c \in ChatState, chat' = c,
         chatRow[s] = NoChatRow, chatRow' = [chatRow EXCEPT ![s] = NewChatRow(m)],
         UNCHANGED <<llmTokens, modeChange>>, c.session = s, c.tokens = 0
  PROVE  ChatInv'
<1>1. NewChatRow(m) \in ChatRows /\ NewChatRow(m) # NoChatRow
  BY DEF NewChatRow, NoChatRow, ChatRows
<1>2. chatRow \in [ChatSessions -> ChatRows]
  BY DEF ChatInv, ChatTypeOK, ChatRows
<1>3. /\ chatRow' \in [ChatSessions -> ChatRows] /\ chatRow'[s] = NewChatRow(m)
      /\ \A t \in ChatSessions \ {s} : chatRow'[t] = chatRow[t]
  BY <1>1, <1>2
<1>4. ChatTypeOK'
  BY <1>3 DEF ChatInv, ChatTypeOK, ChatState, ChatRows
<1>5. SessionHasRow'
  BY <1>1, <1>3 DEF SessionHasRow
<1>6. UnknownSpentNothing'
  BY <1>1, <1>3 DEF ChatInv, UnknownSpentNothing
<1>7. AccountKept'
  <2>1. llmTokens[s] = 0
    BY DEF ChatInv, UnknownSpentNothing
  <2>2. c.budget \in Nat
    BY DEF ChatState
  <2> QED BY <2>1, <2>2 DEF AccountKept
<1> QED BY <1>4, <1>5, <1>6, <1>7 DEF ChatInv

\* What /cost shows is what the log holds, and the budget knows of it, over any number of turns,
\* interruptions, /new, crashes and resumes: AccountKept.
THEOREM ChatCorrect == ChatSpec => []AccountKept
<1> USE ChatAssumption
<1>0. "plan" \in AskedModes /\ "default" \in AskedModes /\ "none" \in AskedModes /\ FlagModes \subseteq AskedModes
      /\ ChatModes \subseteq AskedModes
  BY DEF AskedModes
<1>1. ChatInit => ChatInv
  <2> SUFFICES ASSUME ChatInit PROVE ChatInv
    OBVIOUS
  <2>1. chat.at = "down" /\ chat \in ChatState
    BY <1>0 DEF ChatInit, NoChat, ChatState
  <2>2. chatRow \in [ChatSessions -> ChatRows] /\ llmTokens \in [ChatSessions -> Nat]
        /\ modeChange \in [ChatSessions -> AskedModes]
    BY <1>0 DEF ChatInit, NoChatRow, ChatRows
  <2>3. UnknownSpentNothing
    BY DEF ChatInit, UnknownSpentNothing
  <2> QED BY <2>1, <2>2, <2>3 DEF ChatInv, ChatTypeOK, ChatState, ChatRows, SessionHasRow, AccountKept
<1>2. ChatInv /\ [ChatNext]_chatVars => ChatInv'
  <2> SUFFICES ASSUME ChatInv, [ChatNext]_chatVars PROVE ChatInv'
    OBVIOUS
  <2>t. chat \in ChatState /\ chatRow \in [ChatSessions -> ChatRows] /\ llmTokens \in [ChatSessions -> Nat]
        /\ modeChange \in [ChatSessions -> AskedModes]
    BY DEF ChatInv, ChatTypeOK, ChatState, ChatRows
  <2>u. chat.at # "down" => chat.session \in ChatSessions /\ chatRow[chat.session] # NoChatRow
    BY DEF ChatInv, ChatTypeOK, SessionHasRow
  <2>v. chat.at # "down" /\ ~chat.missed => chat.tokens = llmTokens[chat.session] /\ chat.tokens <= chat.budget
    BY DEF ChatInv, AccountKept
  <2>1. ASSUME NEW s \in ChatSessions, NEW m \in FlagModes, ChatStarts(s, m) PROVE ChatInv'
    <3> DEFINE c == [NoChat EXCEPT !.at = "prompt", !.session = s, !.requested = m]
    <3>1. c \in ChatState /\ c.session = s /\ c.tokens = 0
      BY <1>0 DEF NoChat, ChatState
    <3> QED BY <1>0, <2>1, <3>1, ChatOpens DEF ChatStarts
  <2>2. ASSUME NEW s \in ChatSessions, NEW m \in FlagModes, NEW missed \in BOOLEAN, ChatResumes(s, m, missed)
        PROVE  ChatInv'
    <3> DEFINE q == FirstOf(m, chatRow[s].mode)
               n == llmTokens[s]
               up == [NoChat EXCEPT !.at = "prompt", !.session = s, !.missed = missed, !.requested = q]
    <3>1. n \in Nat /\ q \in AskedModes
      BY <1>0, <2>t DEF FirstOf, ChatRows
    <3>2. UNCHANGED <<chatRow, llmTokens, modeChange>> /\ chatRow[s] # NoChatRow
          /\ chat' = IF missed THEN up ELSE LoadUsage(up, n)
      BY <2>2 DEF ChatResumes
    <3> HIDE DEF q, n
    <3>3. up \in ChatState /\ up.session = s /\ up.budget = 0
      BY <1>0, <3>1 DEF NoChat, ChatState
    <3>m. up.missed = missed
      BY DEF NoChat
    <3> HIDE DEF up
    <3>4. CASE missed
      BY <2>t, <3>2, <3>3, <3>4, <3>m, ChatMoves
    <3>5. CASE ~missed
      <4> DEFINE c == [up EXCEPT !.tokens = n, !.budget = n]
      <4>1. up.budget + n = n
        BY <3>1, <3>3
      <4>2. LoadUsage(up, n) = c
        BY <4>1 DEF LoadUsage
      <4>3. c \in ChatState /\ c.session = s /\ c.tokens = n /\ c.budget = n
        BY <3>1, <3>3 DEF ChatState
      <4>4. chat' = c /\ c.tokens <= c.budget
        BY <3>1, <3>2, <3>5, <4>2, <4>3
      <4> HIDE DEF c
      <4> QED BY <2>t, <3>2, <4>3, <4>4, ChatMoves DEF n
    <3> QED BY <3>4, <3>5
  <2>3. ASSUME NEW s \in ChatSessions, NewSession(s) PROVE ChatInv'
    <3> DEFINE c == [chat EXCEPT !.session = s, !.tokens = 0, !.missed = FALSE]
    <3>1. c \in ChatState /\ c.session = s /\ c.tokens = 0 /\ chat.requested \in AskedModes
      BY <2>t DEF ChatState
    <3> QED BY <2>3, <3>1, ChatOpens DEF NewSession
  <2>4. ASSUME NEW m \in ChatModes, ModeCommand(m) PROVE ChatInv'
    <3> DEFINE c == [chat EXCEPT !.requested = m]
    <3>1. c \in ChatState /\ c.at = chat.at /\ c.session = chat.session /\ c.tokens = chat.tokens
          /\ c.budget = chat.budget /\ c.missed = chat.missed
      BY <1>0, <2>t DEF ChatState
    <3>2. chat' = c /\ UNCHANGED <<chatRow, llmTokens>> /\ modeChange' = [modeChange EXCEPT ![chat.session] = m]
      BY <2>4 DEF ModeCommand
    <3>3. modeChange' \in [ChatSessions -> AskedModes]
      BY <1>0, <2>t, <3>2
    <3> HIDE DEF c
    <3> QED BY <2>u, <2>v, <3>1, <3>2, <3>3, ChatMoves
  <2>5. ASSUME TurnBegins PROVE ChatInv'
    <3> DEFINE c == [chat EXCEPT !.at = "turn", !.runs = StartMode]
    <3>1. StartMode \in AskedModes
      BY <1>0, <2>5, <2>t, <2>u DEF TurnBegins, StartMode, FirstOf, ChatState
    <3>2. c \in ChatState /\ c.session = chat.session /\ c.tokens = chat.tokens
          /\ c.budget = chat.budget /\ c.missed = chat.missed
      BY <2>t, <3>1 DEF ChatState
    <3>3. chat' = c /\ UNCHANGED <<chatRow, llmTokens, modeChange>> /\ chat.at # "down"
      BY <2>5 DEF TurnBegins
    <3> HIDE DEF c
    <3> QED BY <2>t, <2>u, <2>v, <3>2, <3>3, ChatMoves
  <2>6. ASSUME ChatSpends PROVE ChatInv'
    <3> DEFINE b == chat.budget + 1
               k == chat.tokens + 1
               c == [chat EXCEPT !.tokens = k, !.budget = b]
    <3>1. chat.at # "down" /\ chat' = c /\ UNCHANGED <<chatRow, modeChange>>
          /\ llmTokens' = [llmTokens EXCEPT ![chat.session] = @ + 1]
      BY <2>6 DEF ChatSpends
    <3>2. chat.session \in ChatSessions /\ chat.tokens \in Nat /\ chat.budget \in Nat
          /\ b \in Nat /\ k \in Nat /\ b = chat.budget + 1 /\ k = chat.tokens + 1
      BY <2>t, <2>u, <3>1 DEF ChatState
    <3> HIDE DEF b, k
    <3>3. c \in ChatState /\ c.at = chat.at /\ c.session = chat.session /\ c.tokens = k
          /\ c.budget = b /\ c.missed = chat.missed
      BY <2>t, <3>2 DEF ChatState
    <3> HIDE DEF c
    <3>4. /\ llmTokens' \in [ChatSessions -> Nat] /\ llmTokens'[chat.session] = llmTokens[chat.session] + 1
          /\ \A t \in ChatSessions \ {chat.session} : llmTokens'[t] = llmTokens[t]
      BY <2>t, <3>1, <3>2
    <3>5. ChatTypeOK'
      BY <2>t, <3>1, <3>2, <3>3, <3>4 DEF ChatTypeOK, ChatState, ChatRows
    <3>6. SessionHasRow'
      BY <2>u, <3>1, <3>3 DEF SessionHasRow
    <3>7. UnknownSpentNothing'
      BY <2>u, <3>1, <3>4 DEF ChatInv, UnknownSpentNothing
    <3>8. AccountKept'
      BY <2>v, <3>1, <3>2, <3>3, <3>4 DEF AccountKept
    <3> QED BY <3>5, <3>6, <3>7, <3>8 DEF ChatInv
  <2>7. ASSUME SubagentSpends PROVE ChatInv'
    <3> DEFINE b == chat.budget + 1
               c == [chat EXCEPT !.budget = b]
    <3>1. chat.at # "down" /\ chat' = c /\ UNCHANGED <<chatRow, llmTokens, modeChange>>
      BY <2>7 DEF SubagentSpends
    <3>2. chat.tokens \in Nat /\ chat.budget \in Nat /\ b \in Nat /\ b = chat.budget + 1
      BY <2>t DEF ChatState
    <3> HIDE DEF b
    <3>3. c \in ChatState /\ c.at = chat.at /\ c.session = chat.session /\ c.tokens = chat.tokens
          /\ c.budget = b /\ c.missed = chat.missed
      BY <2>t, <3>2 DEF ChatState
    <3>4. ~c.missed => c.tokens = llmTokens[c.session] /\ c.tokens <= c.budget
      BY <2>v, <3>1, <3>2, <3>3
    <3> HIDE DEF c
    <3> QED BY <2>t, <2>u, <3>1, <3>3, <3>4, ChatMoves
  <2>8. ASSUME PlanApproved PROVE ChatInv'
    <3> DEFINE c == [chat EXCEPT !.runs = "default"]
    <3>1. chat.at # "down" /\ chat' = c /\ UNCHANGED <<chatRow, llmTokens>>
          /\ modeChange' = [modeChange EXCEPT ![chat.session] = "default"]
      BY <2>8 DEF PlanApproved
    <3>2. c \in ChatState /\ c.at = chat.at /\ c.session = chat.session /\ c.tokens = chat.tokens
          /\ c.budget = chat.budget /\ c.missed = chat.missed
      BY <1>0, <2>t DEF ChatState
    <3>3. modeChange' \in [ChatSessions -> AskedModes]
      BY <1>0, <2>t, <3>1
    <3> HIDE DEF c
    <3> QED BY <2>u, <2>v, <3>1, <3>2, <3>3, ChatMoves
  <2>9. ASSUME NEW status \in {"success", "failure"}, TurnEnds(status) PROVE ChatInv'
    <3> DEFINE c == [chat EXCEPT !.at = "prompt", !.runs = "none"]
               row == [chatRow[chat.session] EXCEPT !.status = status, !.tokens = chat.tokens]
    <3>1. chat.at # "down" /\ chat' = c /\ chatRow' = [chatRow EXCEPT ![chat.session] = row]
          /\ UNCHANGED <<llmTokens, modeChange>>
      BY <2>9 DEF TurnEnds, SaveRow
    <3>2. chat.session \in ChatSessions /\ chat.tokens \in Nat
      BY <2>t, <2>u, <3>1 DEF ChatState
    <3>3. c \in ChatState /\ c.at = "prompt" /\ c.session = chat.session /\ c.tokens = chat.tokens
          /\ c.budget = chat.budget /\ c.missed = chat.missed
      BY <1>0, <2>t DEF ChatState
    <3>4. row \in ChatRows /\ row.status = status
      BY <2>t, <3>2 DEF ChatRows
    <3>5. row # NoChatRow
      BY <3>4 DEF NoChatRow
    <3> HIDE DEF c, row
    <3>6. /\ chatRow' \in [ChatSessions -> ChatRows] /\ chatRow'[chat.session] = row
          /\ \A t \in ChatSessions \ {chat.session} : chatRow'[t] = chatRow[t]
      BY <2>t, <3>1, <3>2, <3>4
    <3>7. ChatTypeOK'
      BY <2>t, <3>1, <3>2, <3>3, <3>6 DEF ChatTypeOK, ChatState, ChatRows
    <3>8. SessionHasRow'
      BY <3>1, <3>3, <3>5, <3>6 DEF SessionHasRow
    <3>9. UnknownSpentNothing'
      BY <3>1, <3>5, <3>6 DEF ChatInv, UnknownSpentNothing
    <3>10. AccountKept'
      BY <2>v, <3>1, <3>3 DEF AccountKept
    <3> QED BY <3>7, <3>8, <3>9, <3>10 DEF ChatInv
  <2>10. ASSUME ChatGone PROVE ChatInv'
    <3>1. NoChat \in ChatState /\ NoChat.at = "down"
      BY <1>0 DEF NoChat, ChatState
    <3>2. chat' = NoChat /\ UNCHANGED <<chatRow, llmTokens, modeChange>>
      BY <2>10 DEF ChatGone
    <3> QED BY <2>t, <3>1, <3>2, ChatMoves
  <2>11. CASE UNCHANGED chatVars
    <3>1. UNCHANGED <<chatRow, llmTokens, modeChange, chat>>
      BY <2>11 DEF chatVars
    <3> QED BY <2>t, <2>u, <2>v, <3>1, ChatMoves
  <2> QED BY <2>1, <2>2, <2>3, <2>4, <2>5, <2>6, <2>7, <2>8, <2>9, <2>10, <2>11 DEF ChatNext
<1>3. ChatInv => AccountKept
  BY DEF ChatInv
<1> QED BY <1>1, <1>2, <1>3, PTL DEF ChatSpec

-----------------------------------------------------------------------------
(* The rate window of the HTTP API. *)

\* Those past the check are threads: finitely many, and no more than there are.
LEMMA PassingCounts ==
  ASSUME NEW S \in SUBSET Workers
  PROVE  IsFiniteSet(S) /\ Cardinality(S) \in Nat /\ Cardinality(S) <= Cardinality(Workers)
         /\ Cardinality(Workers) \in Nat \ {0} /\ (S # {} => Cardinality(S) > 0)
BY FS_Subset, FS_CardinalityType, FS_EmptySet, AdmissionAssumption

\* A step that keeps the window, and lets no further thread past the check, keeps the bounds.
LEMMA StaysBounded ==
  ASSUME AdmissionInv, NEW o \in Owners,
         Passing(o)' \subseteq Passing(o), window'[o] = window[o] \/ Len(window'[o]) < Len(window[o]),
         Len(window'[o]) \in Nat
  PROVE  /\ Len(window'[o]) < RateLimit + Cardinality(Workers)
         /\ Passing(o)' # {} => Len(window'[o]) + Cardinality(Passing(o)') < RateLimit + Cardinality(Workers)
<1>1. Passing(o) \in SUBSET Workers /\ RateLimit \in Nat /\ Len(window[o]) \in Nat
  BY AdmissionAssumption DEF Passing, AdmissionInv, AdmissionTypeOK
<1>2. Cardinality(Passing(o)') <= Cardinality(Passing(o)) /\ Cardinality(Passing(o)') \in Nat
  BY <1>1, PassingCounts, FS_Subset, FS_CardinalityType
<1>3. Cardinality(Passing(o)) \in Nat /\ Cardinality(Workers) \in Nat
  BY <1>1, PassingCounts
<1>4. Len(window[o]) < RateLimit + Cardinality(Workers)
      /\ (Passing(o) # {} => Len(window[o]) + Cardinality(Passing(o)) < RateLimit + Cardinality(Workers))
  BY DEF AdmissionInv, WindowBounded, PassedBounded
<1>5. Passing(o)' # {} => Passing(o) # {}
  OBVIOUS
<1>6. Len(window'[o]) <= Len(window[o])
  BY <1>1
<1> HIDE DEF Passing
<1> DEFINE w == Len(window[o])
           w2 == Len(window'[o])
           p == Cardinality(Passing(o))
           p2 == Cardinality(Passing(o)')
           room == RateLimit + Cardinality(Workers)
<1>7. /\ w \in Nat /\ w2 \in Nat /\ p \in Nat /\ p2 \in Nat /\ room \in Nat /\ w2 <= w /\ p2 <= p /\ w < room
      /\ Passing(o)' # {} => w + p < room
  BY <1>1, <1>2, <1>3, <1>4, <1>5, <1>6
<1> HIDE DEF w, w2, p, p2, room
<1>8. w2 < room /\ (Passing(o)' # {} => w2 + p2 < room)
  BY <1>7
<1> QED BY <1>8 DEF w2, p2, room

\* What a thread's own move between the steps changes.
LEMMA Moves ==
  ASSUME AdmissionTypeOK, NEW w \in Workers, NEW place \in Places, Passes(w, place)
  PROVE  /\ worker' \in [Workers -> [at : Places, bearer : Bearers, now : Nat]]
         /\ worker'[w].at = place /\ worker'[w].bearer = worker[w].bearer
         /\ \A v \in Workers \ {w} : worker'[v] = worker[v]
         /\ worker[w].at \in InWindow => \A v \in Workers : worker'[v].at \in InWindow => worker'[v].bearer \in Owners
<1> DEFINE m == worker[w]
           n == [m EXCEPT !.at = place]
<1>1. worker \in [Workers -> [at : Places, bearer : Bearers, now : Nat]] /\ m \in [at : Places, bearer : Bearers, now : Nat]
  BY DEF AdmissionTypeOK
<1>2. n \in [at : Places, bearer : Bearers, now : Nat] /\ n.at = place /\ n.bearer = m.bearer
  BY <1>1
<1>3. worker' = [worker EXCEPT ![w] = n]
  BY DEF Passes
<1> HIDE DEF n
<1>4. worker' \in [Workers -> [at : Places, bearer : Bearers, now : Nat]]
      /\ worker'[w] = n /\ \A v \in Workers \ {w} : worker'[v] = worker[v]
  BY <1>1, <1>2, <1>3
<1>5. ASSUME worker[w].at \in InWindow, NEW v \in Workers, worker'[v].at \in InWindow PROVE worker'[v].bearer \in Owners
  <2>1. CASE v = w
    BY <1>2, <1>4, <1>5, <2>1 DEF AdmissionTypeOK
  <2>2. CASE v # w
    BY <1>4, <1>5, <2>2 DEF AdmissionTypeOK
  <2> QED BY <2>1, <2>2
<1> QED BY <1>2, <1>4, <1>5

\* However many requests count the window at the same time or pop what another has read, it
\* holds fewer than the limit and all threads: WindowBounded.
THEOREM AdmissionCorrect == AdmissionSpec => []WindowBounded
<1> USE AdmissionAssumption
<1>1. AdmissionInit => AdmissionInv
  <2> SUFFICES ASSUME AdmissionInit PROVE AdmissionInv
    OBVIOUS
  <2>1. AdmissionTypeOK
    BY DEF AdmissionInit, AdmissionTypeOK, Places, InWindow
  <2>2. \A o \in Owners : Len(window[o]) = 0 /\ Passing(o) = {}
    BY DEF AdmissionInit, Passing
  <2>3. RateLimit + Cardinality(Workers) > 0
    BY PassingCounts
  <2> QED BY <2>1, <2>2, <2>3 DEF AdmissionInv, WindowBounded, PassedBounded
<1>2. AdmissionInv /\ [AdmissionNext]_admissionVars => AdmissionInv'
  <2> SUFFICES ASSUME AdmissionInv, [AdmissionNext]_admissionVars PROVE AdmissionInv'
    OBVIOUS
  <2>0. AdmissionTypeOK /\ window \in [Owners -> Seq(Nat)]
    BY DEF AdmissionInv, AdmissionTypeOK
  \* It suffices that nobody else gets past the check while the windows stay or shrink.
  <2>a. ASSUME AdmissionTypeOK', \A o \in Owners : Passing(o)' \subseteq Passing(o),
               \A o \in Owners : window'[o] = window[o] \/ Len(window'[o]) < Len(window[o])
        PROVE  AdmissionInv'
    <3>1. \A o \in Owners : Len(window'[o]) \in Nat
      BY <2>a DEF AdmissionTypeOK
    <3> QED BY <2>a, <3>1, StaysBounded DEF AdmissionInv, WindowBounded, PassedBounded
  <2>1. ASSUME NEW w \in Workers, NEW b \in Bearers, Authenticate(w, b) PROVE AdmissionInv'
    <3> DEFINE pl(tokens) == CASE b # NoBearer /\ tokens = {} -> "503"
                               [] b \in tokens                 -> "testing"
                               [] OTHER                        -> "401"
    <3>1. PICK tokens \in ConfiguredTokens :
            worker' = [worker EXCEPT ![w] = [at |-> pl(tokens), bearer |-> b, now |-> time]]
      BY <2>1 DEF Authenticate
    <3>2. tokens \subseteq Owners
      BY DEF ConfiguredTokens, Owners
    <3>0. pl(tokens) \in {"503", "testing", "401"} /\ (pl(tokens) = "testing" => b \in Owners)
      BY <3>2
    <3> HIDE DEF pl
    <3>3. PICK place \in Places :
            /\ worker' = [worker EXCEPT ![w] = [at |-> place, bearer |-> b, now |-> time]]
            /\ place # "appending" /\ (place \in InWindow => b \in Owners)
      <4>1. pl(tokens) \in Places /\ pl(tokens) # "appending" /\ (pl(tokens) \in InWindow => b \in Owners)
        BY <3>0 DEF Places, InWindow, Replies
      <4> QED BY <3>1, <4>1
    <3>4. worker[w].at # "appending" /\ UNCHANGED <<time, window>>
      BY <2>1 DEF Authenticate, Stands, Replies
    <3>5. [at |-> place, bearer |-> b, now |-> time] \in [at : Places, bearer : Bearers, now : Nat]
      BY <2>0 DEF AdmissionTypeOK
    <3>6. worker' \in [Workers -> [at : Places, bearer : Bearers, now : Nat]]
          /\ worker'[w] = [at |-> place, bearer |-> b, now |-> time]
          /\ \A v \in Workers \ {w} : worker'[v] = worker[v]
      BY <2>0, <3>3, <3>5 DEF AdmissionTypeOK
    <3>7. AdmissionTypeOK'
      BY <2>0, <3>3, <3>4, <3>6 DEF AdmissionTypeOK
    <3>8. \A o \in Owners : Passing(o)' \subseteq Passing(o)
      BY <3>3, <3>4, <3>6 DEF Passing
    <3> QED BY <2>a, <3>4, <3>7, <3>8
  <2>2. ASSUME NEW w \in Workers, TestWindow(w) PROVE AdmissionInv'
    <3>1. PICK place \in {"counting", "reading"} : Passes(w, place)
      BY <2>2 DEF TestWindow
    <3>2. worker[w].at = "testing" /\ UNCHANGED <<time, window>>
      BY <2>2 DEF TestWindow, Stands
    <3>3. place \in Places /\ worker[w].at \in InWindow
      BY <3>1, <3>2 DEF Places, InWindow
    <3>4. AdmissionTypeOK' /\ \A o \in Owners : Passing(o)' \subseteq Passing(o)
      BY <2>0, <3>1, <3>2, <3>3, Moves DEF AdmissionTypeOK, Passing
    <3> QED BY <2>a, <3>2, <3>4
  <2>3. ASSUME NEW w \in Workers, ReadOldest(w) PROVE AdmissionInv'
    <3>1. PICK place \in {"500", "popping", "counting"} : Passes(w, place)
      BY <2>3 DEF ReadOldest
    <3>2. worker[w].at = "reading" /\ UNCHANGED <<time, window>>
      BY <2>3 DEF ReadOldest, Stands
    <3>3. place \in Places /\ worker[w].at \in InWindow
      BY <3>1, <3>2 DEF Places, InWindow, Replies
    <3>4. AdmissionTypeOK' /\ \A o \in Owners : Passing(o)' \subseteq Passing(o)
      BY <2>0, <3>1, <3>2, <3>3, Moves DEF AdmissionTypeOK, Passing
    <3> QED BY <2>a, <3>2, <3>4
  <2>4. ASSUME NEW w \in Workers, PopOldest(w) PROVE AdmissionInv'
    <3>1. PICK place \in {"500", "testing"} : Passes(w, place)
      BY <2>4 DEF PopOldest
    <3>2. worker[w].at = "popping" /\ UNCHANGED time
      BY <2>4 DEF PopOldest, Stands
    <3>3. place \in Places /\ worker[w].at \in InWindow
      BY <3>1, <3>2 DEF Places, InWindow, Replies
    <3>4. worker[w].bearer \in Owners
      BY <2>0, <3>3 DEF AdmissionTypeOK
    <3>5. \/ window' = window
          \/ Window(w) # <<>> /\ window' = [window EXCEPT ![worker[w].bearer] = Tail(@)]
      BY <2>4 DEF PopOldest
    <3>6. window' \in [Owners -> Seq(Nat)]
          /\ \A o \in Owners : window'[o] = window[o] \/ Len(window'[o]) < Len(window[o])
      <4> DEFINE q == window[worker[w].bearer]
      <4>1. CASE window' = window
        BY <2>0, <4>1
      <4>2. CASE q # <<>> /\ window' = [window EXCEPT ![worker[w].bearer] = Tail(q)]
        <5>1. q \in Seq(Nat) /\ q # <<>>
          BY <2>0, <3>4, <4>2
        <5>2. Tail(q) \in Seq(Nat) /\ Len(Tail(q)) < Len(q)
          BY <5>1
        <5> QED BY <2>0, <3>4, <4>2, <5>2
      <4> QED BY <3>5, <4>1, <4>2 DEF Window
    <3>7. AdmissionTypeOK' /\ \A o \in Owners : Passing(o)' \subseteq Passing(o)
      BY <2>0, <3>1, <3>2, <3>3, <3>6, Moves DEF AdmissionTypeOK, Passing
    <3> QED BY <2>a, <3>6, <3>7
  <2>5. ASSUME NEW w \in Workers, CountWindow(w) PROVE AdmissionInv'
    <3>1. worker[w].at = "counting" /\ UNCHANGED <<time, window>>
      BY <2>5 DEF CountWindow, Stands
    <3>2. PICK place \in {"429", "appending"} :
            Passes(w, place) /\ (place = "appending" => Len(Window(w)) < RateLimit)
      <4>1. worker[w].bearer \in Owners
        BY <2>0, <3>1 DEF AdmissionTypeOK, InWindow
      <4>2. Len(Window(w)) \in Nat
        BY <2>0, <4>1 DEF Window
      <4> QED BY <2>5, <4>2 DEF CountWindow
    <3>3. place \in Places /\ worker[w].at \in InWindow
      BY <3>1, <3>2 DEF Places, InWindow, Replies
    <3>4. AdmissionTypeOK'
      BY <2>0, <3>1, <3>2, <3>3, Moves DEF AdmissionTypeOK
    <3>5. CASE place = "429"
      <4>1. \A o \in Owners : Passing(o)' \subseteq Passing(o)
        BY <2>0, <3>1, <3>2, <3>3, <3>5, Moves DEF Passing
      <4> QED BY <2>a, <3>1, <3>4, <4>1
    <3>6. CASE place = "appending"
      <4>1. ASSUME NEW o \in Owners, o # worker[w].bearer PROVE Passing(o)' \subseteq Passing(o)
        BY <2>0, <3>2, <3>3, <4>1, Moves DEF Passing
      <4>2. ASSUME NEW o \in Owners PROVE Len(window'[o]) \in Nat /\ window'[o] = window[o]
        BY <2>0, <3>1, <4>2
      <4>3. ASSUME NEW o \in Owners
            PROVE  Len(window'[o]) < RateLimit + Cardinality(Workers)
                   /\ (Passing(o)' # {} =>
                         Len(window'[o]) + Cardinality(Passing(o)') < RateLimit + Cardinality(Workers))
        <5>1. CASE o # worker[w].bearer
          BY <4>1, <4>2, <5>1, StaysBounded
        <5>2. CASE o = worker[w].bearer
          <6>1. Len(window'[o]) < RateLimit /\ Len(window'[o]) \in Nat
            BY <3>2, <3>6, <4>2, <5>2 DEF Window
          <6>2. Passing(o)' \in SUBSET Workers
            BY DEF Passing
          <6>3. Cardinality(Passing(o)') \in Nat /\ Cardinality(Passing(o)') <= Cardinality(Workers)
                /\ Cardinality(Workers) \in Nat \ {0}
            BY <6>2, PassingCounts
          <6> QED BY <6>1, <6>3
        <5> QED BY <5>1, <5>2
      <4> QED BY <3>4, <4>3 DEF AdmissionInv, WindowBounded, PassedBounded
    <3> QED BY <3>2, <3>5, <3>6
  <2>6. ASSUME NEW w \in Workers, AppendNow(w) PROVE AdmissionInv'
    <3> DEFINE me == worker[w].bearer
    <3>1. worker[w].at = "appending" /\ UNCHANGED time /\ window' = [window EXCEPT ![me] = Append(@, worker[w].now)]
      BY <2>6 DEF AppendNow, Stands
    <3>2. PICK place \in {"in", "403"} : Passes(w, place)
      BY <2>6 DEF AppendNow
    <3>3. place \in Places /\ worker[w].at \in InWindow /\ me \in Owners /\ worker[w].now \in Nat
      BY <2>0, <3>1, <3>2 DEF Places, InWindow, Replies, AdmissionTypeOK
    <3>4. window' \in [Owners -> Seq(Nat)] /\ Len(window'[me]) = Len(window[me]) + 1
          /\ \A o \in Owners \ {me} : window'[o] = window[o]
      BY <2>0, <3>1, <3>3
    <3>5. AdmissionTypeOK'
      BY <2>0, <3>1, <3>2, <3>3, <3>4, Moves DEF AdmissionTypeOK
    <3>6. worker'[w].at # "appending" /\ worker'[w].bearer = me /\ \A v \in Workers \ {w} : worker'[v] = worker[v]
      BY <2>0, <3>2, <3>3, Moves
    <3>7. ASSUME NEW o \in Owners, o = me
          PROVE  Len(window'[o]) < RateLimit + Cardinality(Workers)
                 /\ (Passing(o)' # {} =>
                       Len(window'[o]) + Cardinality(Passing(o)') < RateLimit + Cardinality(Workers))
      <4>1. Passing(o)' = Passing(o) \ {w} /\ w \in Passing(o) /\ Passing(o) \in SUBSET Workers
        BY <3>1, <3>6, <3>7 DEF Passing
      <4>2. IsFiniteSet(Passing(o)) /\ Cardinality(Passing(o)) \in Nat /\ Cardinality(Passing(o)) > 0
            /\ Cardinality(Workers) \in Nat
        BY <4>1, PassingCounts
      <4>5. Cardinality(Passing(o) \ {w}) = Cardinality(Passing(o)) - 1
        BY <4>1, <4>2, FS_RemoveElement
      <4>3. Cardinality(Passing(o)') = Cardinality(Passing(o)) - 1
        BY <4>1, <4>5
      <4>4. Len(window[o]) \in Nat /\ Len(window[o]) + Cardinality(Passing(o)) < RateLimit + Cardinality(Workers)
        BY <2>0, <4>1 DEF AdmissionInv, PassedBounded
      <4>6. Len(window'[o]) = Len(window[o]) + 1
        BY <3>4, <3>7
      <4> QED BY <4>2, <4>3, <4>4, <4>6
    <3>8. ASSUME NEW o \in Owners, o # me
          PROVE  Len(window'[o]) < RateLimit + Cardinality(Workers)
                 /\ (Passing(o)' # {} =>
                       Len(window'[o]) + Cardinality(Passing(o)') < RateLimit + Cardinality(Workers))
      <4>1. Passing(o)' \subseteq Passing(o)
        BY <3>6, <3>8 DEF Passing
      <4>2. window'[o] = window[o] /\ Len(window'[o]) \in Nat
        BY <3>4, <3>8
      <4> QED BY <4>1, <4>2, StaysBounded
    <3>9. ASSUME NEW o \in Owners
          PROVE  Len(window'[o]) < RateLimit + Cardinality(Workers)
                 /\ (Passing(o)' # {} =>
                       Len(window'[o]) + Cardinality(Passing(o)') < RateLimit + Cardinality(Workers))
      <4>1. CASE o = me
        BY <3>7, <4>1
      <4>2. CASE o # me
        BY <3>8, <4>2
      <4> QED BY <4>1, <4>2
    <3> QED BY <3>5, <3>9 DEF AdmissionInv, WindowBounded, PassedBounded
  <2>7. CASE TimePasses
    <3>1. AdmissionTypeOK' /\ UNCHANGED <<window, worker>>
      BY <2>0, <2>7 DEF TimePasses, AdmissionTypeOK
    <3> QED BY <3>1 DEF AdmissionInv, WindowBounded, PassedBounded, Passing
  <2>8. CASE UNCHANGED admissionVars
    BY <2>8 DEF admissionVars, AdmissionInv, AdmissionTypeOK, WindowBounded, PassedBounded, Passing
  <2> QED BY <2>1, <2>2, <2>3, <2>4, <2>5, <2>6, <2>7, <2>8 DEF AdmissionNext
<1>3. AdmissionInv => WindowBounded
  BY DEF AdmissionInv
<1> QED BY <1>1, <1>2, <1>3, PTL DEF AdmissionSpec
=============================================================================
