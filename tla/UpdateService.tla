--------------------------- MODULE UpdateService ---------------------------
(***************************************************************************)
(* What the text-in MT server promises its clients, whatever its reader,   *)
(* mailbox, consumer and executor do to keep the promise: a bounded number *)
(* of connections is served; finals are processed once each and in order;  *)
(* partials may be skipped but never go back; a connection is answered     *)
(* for one update before the next is processed.  MTServer implements it.   *)
(***************************************************************************)
EXTENDS Naturals, Sequences, FiniteSets

CONSTANTS
  Clients,   \* connections
  Capacity,  \* how many are served at a time
  Finals,    \* the finals a client may send, records with a seq in Numbers
  Numbers    \* the seq of an update, positive

VARIABLES
  serving,   \* the connections that have a slot
  accepted,  \* the finals accepted, in order
  processed, \* the finals processed, in order
  offered,   \* the newest partial accepted
  shown,     \* the last partial processed
  answering  \* the update processed last until it is answered, then 0

vars == <<serving, accepted, processed, offered, shown, answering>>

Init ==
  /\ serving = {}
  /\ accepted = [c \in Clients |-> <<>>] /\ processed = [c \in Clients |-> <<>>]
  /\ offered = [c \in Clients |-> 0] /\ shown = [c \in Clients |-> 0]
  /\ answering = [c \in Clients |-> 0]

Open(c) ==
  /\ c \notin serving /\ Cardinality(serving) < Capacity
  /\ serving' = serving \cup {c}
  /\ UNCHANGED <<accepted, processed, offered, shown, answering>>

\* Nothing is processed or answered after a close.
Close(c) ==
  /\ c \in serving /\ answering[c] = 0
  /\ serving' = serving \ {c}
  /\ UNCHANGED <<accepted, processed, offered, shown, answering>>

AcceptFinal(c, u) ==
  /\ c \in serving
  /\ accepted' = [accepted EXCEPT ![c] = Append(@, u)]
  /\ UNCHANGED <<serving, processed, offered, shown, answering>>

AcceptPartial(c, n) ==
  /\ c \in serving /\ n > offered[c]
  /\ offered' = [offered EXCEPT ![c] = n]
  /\ UNCHANGED <<serving, accepted, processed, shown, answering>>

\* The next final in order is processed.
ProcessFinal(c) ==
  LET k == Len(processed[c]) + 1
  IN  /\ c \in serving /\ answering[c] = 0 /\ k <= Len(accepted[c])
      /\ processed' = [processed EXCEPT ![c] = Append(@, accepted[c][k])]
      /\ answering' = [answering EXCEPT ![c] = accepted[c][k].seq]
      /\ UNCHANGED <<serving, accepted, offered, shown>>

\* A partial newer than the last one is processed; those between are skipped.
ProcessPartial(c, n) ==
  /\ c \in serving /\ answering[c] = 0
  /\ shown[c] < n /\ n <= offered[c]
  /\ shown' = [shown EXCEPT ![c] = n]
  /\ answering' = [answering EXCEPT ![c] = n]
  /\ UNCHANGED <<serving, accepted, processed, offered>>

\* The answer is sent, or lost with its connection.
Answer(c) ==
  /\ answering[c] # 0
  /\ answering' = [answering EXCEPT ![c] = 0]
  /\ UNCHANGED <<serving, accepted, processed, offered, shown>>

Next ==
  \E c \in Clients :
    \/ Open(c) \/ Close(c) \/ ProcessFinal(c) \/ Answer(c)
    \/ \E n \in Numbers : AcceptPartial(c, n) \/ ProcessPartial(c, n)
    \/ \E u \in Finals : AcceptFinal(c, u)

Spec == Init /\ [][Next]_vars
=============================================================================
