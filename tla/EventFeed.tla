----------------------------- MODULE EventFeed -----------------------------
(***************************************************************************)
(* What one IConnectionProperties implementation of the DeviceSettings     *)
(* backend promises to the sinks registered with it, with every lock and   *)
(* every loop folded away: a display callback is answered by a fixed list  *)
(* of announcements, the frame-rate comparison behind it is one atomic     *)
(* exchange, and an announcement reaches the sinks registered at one       *)
(* instant, all of them, once per registration.                            *)
(***************************************************************************)
EXTENDS Naturals, Sequences, FiniteSets, SequencesExt

CONSTANTS Observers,    \* sinks that clients register
          Dispatchers,  \* threads the platform delivers callbacks on
          Rates,        \* frame rates FrameRate() can report
          UNKNOWN       \* FRAMERATE_UNKNOWN

VARIABLES observers,    \* sinks registered, in order, once per registration
          baseline,     \* frame rate the next callback is compared with
          owes,         \* announcements each dispatcher still has to make
          heard         \* announcements each sink has received

vars == <<observers, baseline, owes, heard>>

Sources == {"PRE_RESOLUTION_CHANGE", "FRAMERATE_CHANGE", "POST_RESOLUTION_CHANGE"}
Readings == Rates \union {UNKNOWN}

Copies(s, n) == [i \in 1..n |-> s]
Registrations(o) == Cardinality({i \in 1..Len(observers) : observers[i] = o})

Init ==
  /\ observers = <<>>
  /\ baseline = UNKNOWN
  /\ owes = [d \in Dispatchers |-> <<>>]
  /\ heard = [o \in Observers |-> <<>>]

Subscribe(o) ==
  /\ observers' = Append(observers, o)
  /\ UNCHANGED <<baseline, owes, heard>>

Unsubscribe(o) ==
  /\ observers' = RemoveFirst(observers, o)
  /\ UNCHANGED <<baseline, owes, heard>>

\* The baseline taken in the background after construction.
Seed(r) ==
  /\ baseline' = r
  /\ UNCHANGED <<observers, owes, heard>>

BeforeChange(d) ==
  /\ owes[d] = <<>>
  /\ owes' = [owes EXCEPT ![d] = <<"PRE_RESOLUTION_CHANGE">>]
  /\ UNCHANGED <<observers, baseline, heard>>

\* Exchange the reading for the baseline; FRAMERATE_CHANGE exactly if they differ.
AfterChange(d, r) ==
  /\ owes[d] = <<>>
  /\ baseline' = r
  /\ owes' = [owes EXCEPT ![d] =
       IF r # baseline THEN <<"FRAMERATE_CHANGE", "POST_RESOLUTION_CHANGE">>
                       ELSE <<"POST_RESOLUTION_CHANGE">>]
  /\ UNCHANGED <<observers, heard>>

Announce(d) ==
  /\ owes[d] # <<>>
  /\ heard' = [o \in Observers |->
                 heard[o] \o Copies(Head(owes[d]), Registrations(o))]
  /\ owes' = [owes EXCEPT ![d] = Tail(@)]
  /\ UNCHANGED <<observers, baseline>>

Next ==
  \/ \E o \in Observers : Subscribe(o) \/ Unsubscribe(o)
  \/ \E r \in Readings : Seed(r)
  \/ \E d \in Dispatchers :
       \/ BeforeChange(d)
       \/ \E r \in Readings : AfterChange(d, r)
       \/ Announce(d)

Spec == Init /\ [][Next]_vars /\ \A d \in Dispatchers : WF_vars(Announce(d))
=============================================================================
