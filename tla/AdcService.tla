----------------------------- MODULE AdcService ------------------------------
(***************************************************************************)
(* What the ADC driver promises its users, without saying how: one client  *)
(* is served at a time, a reader or the button; a reader is answered with  *)
(* a level its channel had while it was being measured for this reader.    *)
(***************************************************************************)
CONSTANTS
  Readers,   \* the processes that ask for measurements
  Button,    \* the other client, not in Readers: nobody waits for the result
  NoClient,  \* the converter serves nobody; neither a reader nor Button
  Channels,  \* the channels they can ask for
  Levels     \* the levels a channel can have

VARIABLES
  phase,     \* of each reader: idle, wants, served, measured, answered
  owner,     \* the client the converter serves
  wish,      \* the channel a reader that is not idle asked for
  answer,    \* the answer of a reader that has one
  analog,    \* the level of each channel
  seen       \* the levels a measured reader's channel has had

vars == <<phase, owner, wish, answer, analog, seen>>

Init ==
  /\ phase = [r \in Readers |-> "idle"]
  /\ owner = NoClient
  /\ wish = [r \in Readers |-> 0]
  /\ answer = [r \in Readers |-> 0]
  /\ analog \in [Channels -> Levels]
  /\ seen = [r \in Readers |-> {}]

Goes(r, from, to) == phase[r] = from /\ phase' = [phase EXCEPT ![r] = to]

Ask(r) ==
  /\ Goes(r, "idle", "wants")
  /\ \E c \in Channels : wish' = [wish EXCEPT ![r] = c]
  /\ UNCHANGED <<owner, answer, analog, seen>>

(* A free converter serves one of the readers that want it.                *)
Serve(r) ==
  /\ owner = NoClient /\ owner' = r
  /\ Goes(r, "wants", "served")
  /\ UNCHANGED <<wish, answer, analog, seen>>

Press ==
  /\ owner = NoClient /\ owner' = Button
  /\ UNCHANGED <<phase, wish, answer, analog, seen>>

Measure(r) ==
  /\ owner = r
  /\ Goes(r, "served", "measured")
  /\ seen' = [seen EXCEPT ![r] = {analog[wish[r]]}]
  /\ UNCHANGED <<owner, wish, answer, analog>>

Answer(r) ==
  /\ owner = r
  /\ Goes(r, "measured", "answered")
  /\ \E v \in seen[r] : answer' = [answer EXCEPT ![r] = v]
  /\ seen' = [seen EXCEPT ![r] = {}]
  /\ UNCHANGED <<owner, wish, analog>>

(* A served client leaves the converter free or to a reader that wants it. *)
Yield ==
  /\ owner = Button \/ \E r \in Readers : owner = r /\ phase[r] = "answered"
  /\ \/ owner' = NoClient /\ UNCHANGED phase
     \/ \E s \in Readers : Goes(s, "wants", "served") /\ owner' = s
  /\ UNCHANGED <<wish, answer, analog, seen>>

Return(r) ==
  /\ owner # r
  /\ Goes(r, "answered", "idle")
  /\ wish' = [wish EXCEPT ![r] = 0]
  /\ answer' = [answer EXCEPT ![r] = 0]
  /\ UNCHANGED <<owner, analog, seen>>

AnalogChanges ==
  \E c \in Channels, v \in Levels :
    /\ analog' = [analog EXCEPT ![c] = v]
    /\ seen' = [r \in Readers |-> IF phase[r] = "measured" /\ wish[r] = c
                                    THEN seen[r] \cup {v} ELSE seen[r]]
    /\ UNCHANGED <<phase, owner, wish, answer>>

Next ==
  \/ \E r \in Readers : Ask(r) \/ Serve(r) \/ Measure(r) \/ Answer(r) \/ Return(r)
  \/ Press \/ Yield \/ AnalogChanges

Spec == Init /\ [][Next]_vars
=============================================================================
