----------------------------- MODULE Admission -----------------------------
(***************************************************************************)
(* Who gets into the HTTP API (core/gateway/api.py): the bearer token, the *)
(* rate window of its owner and the scope the endpoint needs.              *)
(*                                                                         *)
(* authenticate is a synchronous dependency, so requests run it in worker  *)
(* threads that share the window, a deque of times, without a lock: each   *)
(* operation on the deque is a step.  time.monotonic() is counted in       *)
(* ticks; RateSpan of them are the 60 seconds of the code.                 *)
(***************************************************************************)
EXTENDS Integers, Sequences, FiniteSets

CONSTANTS Workers,      \* the threads
          ApiTokens,       \* api_tokens of the settings
          VaultToken,   \* the token the vault may hold
          Bearers,      \* what requests bring
          NoBearer,     \* one of them: nothing
          ScopesOf,     \* scopes of each of ApiTokens: <<"*">>, <<family, "*">> or <<family, verb>>
          Needed,       \* scopes of endpoints
          RateLimit,        \* api_rate_limit
          RateSpan,
          MaxTime       \* bound: ticks

ASSUME AdmissionAssumption ==
  /\ IsFiniteSet(Workers) /\ Workers # {}
  /\ NoBearer \in Bearers \ (ApiTokens \cup {VaultToken})
  /\ RateLimit \in Nat /\ RateSpan \in Nat /\ MaxTime \in Nat

VARIABLES time,    \* time.monotonic()
          window,  \* _rate, per token
          worker   \* per thread: where it is, the token of its request, its `now`

admissionVars == <<time, window, worker>>

Owners == ApiTokens \cup {VaultToken}
Replies == {"in", "401", "403", "429", "500", "503"}
InWindow == {"testing", "reading", "popping", "counting", "appending"}
Places == {"free"} \cup InWindow \cup Replies

\* Those that got through the check of the limit and are not counted yet.
Passing(o) == {w \in Workers : worker[w].at = "appending" /\ worker[w].bearer = o}

AdmissionTypeOK ==
  /\ time \in Nat
  /\ window \in [Owners -> Seq(Nat)]
  /\ worker \in [Workers -> [at : Places, bearer : Bearers, now : Nat]]
  /\ \A w \in Workers : worker[w].at \in InWindow => worker[w].bearer \in Owners

AdmissionInit ==
  /\ time = 0
  /\ window = [o \in Owners |-> <<>>]
  /\ worker = [w \in Workers |-> [at |-> "free", bearer |-> NoBearer, now |-> 0]]

-----------------------------------------------------------------------------
Stands(w, places) == worker[w].at \in places
Passes(w, place) == worker' = [worker EXCEPT ![w].at = place]
TooOld(w, stamp) == worker[w].now - stamp > RateSpan
Window(w) == window[worker[w].bearer]

\* _scope_ok: everything, the scope itself or its family.
ScopeOk(scopes, needed) ==
  \E s \in scopes : \/ s \in {<<"*">>, needed}
                    \/ Len(needed) = 2 /\ s = <<needed[1], "*">>

\* The tokens of the settings; without them the one in the vault, if it can be read.
ConfiguredTokens == IF ApiTokens # {} THEN {ApiTokens} ELSE {{}, {VaultToken}}

\* A request comes in, in a free thread.  Without a bearer, without a configured token or
\* with another word nobody gets further; the others take their `now`.
Authenticate(w, b) ==
  /\ Stands(w, {"free"} \cup Replies)
  /\ \E tokens \in ConfiguredTokens :
       LET place == CASE b # NoBearer /\ tokens = {} -> "503"
                      [] b \in tokens                 -> "testing"
                      [] OTHER                        -> "401"
       IN worker' = [worker EXCEPT ![w] = [at |-> place, bearer |-> b, now |-> time]]
  /\ UNCHANGED <<time, window>>

\* while window and now - window[0] > 60: window.popleft()
TestWindow(w) ==
  /\ Stands(w, {"testing"})
  /\ Passes(w, IF Window(w) = <<>> THEN "counting" ELSE "reading")
  /\ UNCHANGED <<time, window>>

\* Another thread may have emptied it since: an IndexError.
ReadOldest(w) ==
  /\ Stands(w, {"reading"})
  /\ Passes(w, CASE Window(w) = <<>>                              -> "500"
                 [] Window(w) # <<>> /\ TooOld(w, Head(Window(w))) -> "popping"
                 [] OTHER                                       -> "counting")
  /\ UNCHANGED <<time, window>>

PopOldest(w) ==
  /\ Stands(w, {"popping"})
  /\ IF Window(w) = <<>>
     THEN Passes(w, "500") /\ UNCHANGED window
     ELSE Passes(w, "testing") /\ window' = [window EXCEPT ![worker[w].bearer] = Tail(@)]
  /\ UNCHANGED time

\* Mutant of CountWindow: one too many is still let through.
CountWindowOver(w) ==
  /\ Stands(w, {"counting"})
  /\ Passes(w, IF Len(Window(w)) > RateLimit THEN "429" ELSE "appending")
  /\ UNCHANGED <<time, window>>

CountWindow(w) ==
  /\ Stands(w, {"counting"})
  /\ Passes(w, IF Len(Window(w)) >= RateLimit THEN "429" ELSE "appending")
  /\ UNCHANGED <<time, window>>

\* The request counts, and is let in if its token has the scope that the endpoint needs.
AppendNow(w) ==
  LET scopes == IF ApiTokens = {} THEN {<<"*">>} ELSE ScopesOf[worker[w].bearer] IN
  /\ Stands(w, {"appending"})
  /\ window' = [window EXCEPT ![worker[w].bearer] = Append(@, worker[w].now)]
  /\ \E s \in Needed : Passes(w, IF ScopeOk(scopes, s) THEN "in" ELSE "403")
  /\ UNCHANGED time

TimePasses ==
  /\ time < MaxTime
  /\ time' = time + 1
  /\ UNCHANGED <<window, worker>>

AdmissionNext ==
  \/ \E w \in Workers, b \in Bearers : Authenticate(w, b)
  \/ \E w \in Workers : \/ TestWindow(w) \/ ReadOldest(w) \/ PopOldest(w)
                        \/ CountWindow(w) \/ AppendNow(w)
  \/ TimePasses

AdmissionSpec == AdmissionInit /\ [][AdmissionNext]_admissionVars

-----------------------------------------------------------------------------
\* The window never holds more than the limit and one request per other thread: how far
\* threads that count it at the same time, or pop what another has read, can overshoot.
WindowBounded == \A o \in Owners : Len(window[o]) < RateLimit + Cardinality(Workers)

\* Its inductive form: a thread that has passed the check counts as if it were in already.
PassedBounded ==
  \A o \in Owners : Passing(o) # {} => Len(window[o]) + Cardinality(Passing(o)) < RateLimit + Cardinality(Workers)
AdmissionInv == AdmissionTypeOK /\ WindowBounded /\ PassedBounded
=============================================================================
