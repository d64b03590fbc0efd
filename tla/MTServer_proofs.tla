-------------------------- MODULE MTServer_proofs --------------------------
(* Theorems about MTServer, for every number of connections, slots and frames. *)
EXTENDS MTServer, FiniteSetTheorems, SequenceTheorems, TLAPS

(* The ends a connection can be at, and what a client knows of its utterance. *)
Phases == {"off", "open", "closed", "refused"}
ClientType == [utt : Nat, words : 0 .. MaxWords, seq : 0 .. MaxFrames,
               waiting : BOOLEAN, paced : BOOLEAN]

(* The client's end: what it sent and was sent is well typed. *)
ClientTyped ==
  /\ phase \in [Conns -> Phases] /\ client \in [Conns -> ClientType]
  /\ wire \in [Conns -> Seq(Frames)] /\ replies \in [Conns -> Seq(Responses)]

(* The slots: the counter counts the readers, and only a connection that was let in has
   one.  (SlotAccounting needs the second conjunct when a connection is let in.) *)
Slots ==
  /\ reader \in [Conns -> {"absent", "reading", "initializing", "draining", "gone"}]
  /\ active \in Nat /\ SlotAccounting
  /\ \A c \in Conns : phase[c] = "off" => reader[c] = "absent"

(* The mailbox: finals and partials are kept apart. *)
MailboxTyped ==
  /\ finals \in [Conns -> Seq(Updates)] /\ put_finals \in [Conns -> Seq(Updates)]
  /\ latest_partial \in [Conns -> Updates \cup {NoUpdate}]
  /\ event \in [Conns -> BOOLEAN] /\ closed \in [Conns -> BOOLEAN]
  /\ \A c \in Conns : latest_partial[c] # NoUpdate => ~latest_partial[c].is_final
  /\ \A c \in Conns : \A i \in 1 .. Len(finals[c]) : finals[c][i].is_final

(* The session record. *)
SessionType ==
  [utterance_id : Nat, utt_sources : Seq(Utts), utt_translations : Seq(SUBSET Utts),
   accepted : SUBSET Utts]

(* The consumer: an update in hand from taking it until its reply is sent. *)
ConsumerTyped ==
  /\ consumer \in [Conns -> {"none", "ready", "waiting", "submitted", "sending", "done"}]
  /\ current \in [Conns -> Updates \cup {NoUpdate}]
  /\ response \in [Conns -> Responses \cup {NoUpdate}]
  /\ \A c \in Conns : consumer[c] \in {"submitted", "sending"} => current[c] \in Updates
  /\ \A c \in Conns : consumer[c] = "sending" => response[c] \in Responses

(* The session: never more translations than source segments. *)
SessionTyped ==
  /\ session \in [Conns -> SessionType] /\ faults \in Nat
  /\ done_finals \in [Conns -> Seq(Updates)] /\ done_partial \in [Conns -> 0 .. MaxFrames]
  /\ \A c \in Conns : Len(session[c].utt_translations) <= Len(session[c].utt_sources)

(* The consumer is created after init_ok was sent. *)
NotYetConsuming == \A c \in Conns : reader[c] = "initializing" => consumer[c] = "none"

(* The executor's queue: each call there is the one its consumer awaits, so no connection
   has two. *)
Awaited ==
  \A c \in Conns : consumer[c] = "submitted" <=> \E i \in 1 .. Len(jobs) : jobs[i] = c
Queued == jobs \in Seq(Conns) /\ OneCallPerSession /\ Awaited

IndInv ==
  /\ ClientTyped /\ Slots /\ MailboxTyped /\ ConsumerTyped /\ SessionTyped
  /\ NotYetConsuming /\ Queued /\ FinalsSticky /\ NoLostWakeup

-----------------------------------------------------------------------------
(* Each part survives a step that leaves its variables alone. *)
LEMMA Frame ==
  /\ ClientTyped /\ UNCHANGED clientVars => ClientTyped'
  /\ Slots /\ UNCHANGED <<active, reader, phase>> => Slots'
  /\ MailboxTyped /\ UNCHANGED <<mailboxVars, put_finals>> => MailboxTyped'
  /\ ConsumerTyped /\ UNCHANGED <<consumer, current, response>> => ConsumerTyped'
  /\ SessionTyped /\ UNCHANGED <<session, faults, done_finals, done_partial>> => SessionTyped'
  /\ NotYetConsuming /\ UNCHANGED <<reader, consumer>> => NotYetConsuming'
  /\ Queued /\ UNCHANGED <<jobs, consumer>> => Queued'
  /\ FinalsSticky /\ UNCHANGED <<put_finals, done_finals, consumer, current, finals>>
       => FinalsSticky'
  /\ NoLostWakeup /\ UNCHANGED <<consumer, mailboxVars>> => NoLostWakeup'
<1>1. ClientTyped /\ UNCHANGED clientVars => ClientTyped'  BY DEF ClientTyped, clientVars
<1>2. Slots /\ UNCHANGED <<active, reader, phase>> => Slots'
  BY DEF Slots, SlotAccounting, Handled
<1>3. MailboxTyped /\ UNCHANGED <<mailboxVars, put_finals>> => MailboxTyped'
  BY DEF MailboxTyped, mailboxVars
<1>4. ConsumerTyped /\ UNCHANGED <<consumer, current, response>> => ConsumerTyped'
  BY DEF ConsumerTyped
<1>5. SessionTyped /\ UNCHANGED <<session, faults, done_finals, done_partial>> => SessionTyped'
  BY DEF SessionTyped
<1>6. NotYetConsuming /\ UNCHANGED <<reader, consumer>> => NotYetConsuming'
  BY DEF NotYetConsuming
<1>7. Queued /\ UNCHANGED <<jobs, consumer>> => Queued'  BY DEF Queued, Awaited, OneCallPerSession
<1>8. FinalsSticky /\ UNCHANGED <<put_finals, done_finals, consumer, current, finals>>
        => FinalsSticky'
  BY DEF FinalsSticky, InFlight
<1>9. NoLostWakeup /\ UNCHANGED <<consumer, mailboxVars>> => NoLostWakeup'
  BY DEF NoLostWakeup, mailboxVars
<1> QED  BY <1>1, <1>2, <1>3, <1>4, <1>5, <1>6, <1>7, <1>8, <1>9

(* A server without connections satisfies the invariant. *)
LEMMA InitInv == Init => IndInv
<1> SUFFICES ASSUME Init PROVE IndInv  OBVIOUS
<1>1. ClientTyped  BY MTServerAssumption DEF Init, ClientTyped, NewClient, Phases, ClientType
<1>2. Slots
  <2>1. Handled = {}  BY DEF Init, Handled
  <2> QED  BY <2>1, FS_EmptySet, MTServerAssumption DEF Init, Slots, SlotAccounting
<1>3. MailboxTyped  BY DEF Init, MailboxTyped
<1>4. ConsumerTyped  BY DEF Init, ConsumerTyped
<1>5. SessionTyped
  <2>1. NewSession \in SessionType /\ Len(NewSession.utt_translations) = 0
        /\ Len(NewSession.utt_sources) = 0
    BY DEF NewSession, SessionType
  <2> QED  BY <2>1, MTServerAssumption DEF Init, SessionTyped
<1>6. NotYetConsuming  BY DEF Init, NotYetConsuming
<1>7. Queued  BY DEF Init, Queued, Awaited, OneCallPerSession
<1>8. FinalsSticky  BY DEF Init, FinalsSticky, InFlight
<1>9. NoLostWakeup  BY DEF Init, NoLostWakeup
<1> QED  BY <1>1, <1>2, <1>3, <1>4, <1>5, <1>6, <1>7, <1>8, <1>9 DEF IndInv

-----------------------------------------------------------------------------
(* The handlers of one connection, one by one: letting it in takes a slot, and leaving
   gives it back. *)
LEMMA SlotTaken ==
  ASSUME Slots, NEW c \in Conns, phase[c] = "off", ~AtCapacity,
         active' = active + 1, reader' = [reader EXCEPT ![c] = "reading"],
         phase' = [phase EXCEPT ![c] = "open"], phase \in [Conns -> Phases]
  PROVE  Slots'
<1>1. c \notin Handled /\ Handled' = Handled \cup {c}  BY DEF Slots, Handled
<1>2. IsFiniteSet(Handled)  BY FS_Subset, MTServerAssumption DEF Handled
<1>3. Cardinality(Handled') = Cardinality(Handled) + 1  BY <1>1, <1>2, FS_AddElement
<1>4. active' \in Nat /\ active' <= MaxSessions
  BY MTServerAssumption DEF Slots, AtCapacity
<1>5. SlotAccounting'  BY <1>3, <1>4 DEF Slots, SlotAccounting
<1> QED  BY <1>4, <1>5 DEF Slots

LEMMA SlotGivenBack ==
  ASSUME Slots, NEW c \in Conns, reader[c] \in {"reading", "initializing", "draining"},
         active' = active - 1, reader' = [reader EXCEPT ![c] = "gone"],
         phase' = [phase EXCEPT ![c] = "closed"], phase \in [Conns -> Phases]
  PROVE  Slots'
<1>1. c \in Handled /\ Handled' = Handled \ {c}  BY DEF Slots, Handled
<1>2. IsFiniteSet(Handled)  BY FS_Subset, MTServerAssumption DEF Handled
<1>3. Cardinality(Handled') = Cardinality(Handled) - 1 /\ Cardinality(Handled') \in Nat
  BY <1>1, <1>2, FS_RemoveElement, FS_CardinalityType, FS_Subset
<1>4. active' = Cardinality(Handled')  BY <1>3 DEF Slots, SlotAccounting
<1>5. active' <= MaxSessions  BY MTServerAssumption DEF Slots, SlotAccounting
<1> QED  BY <1>3, <1>4, <1>5 DEF Slots, SlotAccounting

(* A reader that goes on, or starts to drain, keeps its slot. *)
LEMMA SlotKept ==
  ASSUME Slots, NEW c \in Conns, reader[c] \in {"reading", "initializing", "draining"},
         NEW to \in {"reading", "initializing", "draining"},
         active' = active, reader' = [reader EXCEPT ![c] = to], phase' = phase
  PROVE  Slots'
<1>1. Handled' = Handled  BY DEF Slots, Handled
<1> QED  BY <1>1 DEF Slots, SlotAccounting

(* The client's view stays typed when it reads a reply. *)
LEMMA AfterReplyType ==
  ASSUME NEW k \in ClientType, NEW r \in Responses
  PROVE  AfterReply(k, r) \in ClientType
<1>1. r.update \in Updates  BY DEF Responses
<1>2. r.update.utt \in Nat /\ r.update.words \in 0 .. MaxWords
  BY <1>1, MTServerAssumption DEF Updates, Utts
<1>3. 0 \in 0 .. MaxWords /\ k.utt + 1 \in Nat  BY MTServerAssumption DEF ClientType
<1> QED  BY <1>2, <1>3 DEF AfterReply, ClientType

(* A client is let in, sends, reads or leaves: only its own end changes, and the slots. *)
LEMMA ClientInv == ASSUME IndInv, NEW c \in Conns, ClientNext(c) PROVE IndInv'
<1>1. phase \in [Conns -> Phases]  BY DEF IndInv, ClientTyped, Phases
<1>2. CASE Connect(c)
  <2>1. ClientTyped'  BY <1>2 DEF IndInv, ClientTyped, Connect, Phases
  <2>2. Slots'
    <3>1. CASE AtCapacity
      BY <1>1, <1>2, <3>1 DEF IndInv, Slots, SlotAccounting, Handled, Connect
    <3>2. CASE ~AtCapacity  BY <1>1, <1>2, <3>2, SlotTaken DEF IndInv, Connect
    <3> QED  BY <3>1, <3>2
  <2>3. NotYetConsuming'
    BY <1>2 DEF IndInv, NotYetConsuming, Connect, Slots
  <2> QED  BY <1>2, <2>1, <2>2, <2>3, Frame DEF IndInv, Connect, mailboxVars, workVars
<1>3. CASE \E kind \in {"init", "bad_init", "junk"} : SendOther(c, kind)
  <2>1. PICK kind \in {"init", "bad_init", "junk"} : SendOther(c, kind)  BY <1>3
  <2> DEFINE f == [kind |-> kind]
  <2>2. f \in Frames  BY DEF Frames
  <2> DEFINE n == [client[c] EXCEPT !.seq = @ + 1]
  <2>3. n \in ClientType
    <3>1. client[c] \in ClientType /\ client[c].seq < MaxFrames
      BY <2>1 DEF IndInv, ClientTyped, SendOther
    <3> QED  BY <3>1, MTServerAssumption DEF ClientType
  <2>a. wire' = [wire EXCEPT ![c] = Append(@, f)] /\ client' = [client EXCEPT ![c] = n]
        /\ phase' = phase /\ replies' = replies
    BY <2>1 DEF SendOther
  <2> HIDE DEF f, n
  <2>4. ClientTyped'  BY <2>2, <2>3, <2>a DEF IndInv, ClientTyped
  <2>5. Slots' /\ NotYetConsuming'  BY <2>1, Frame DEF IndInv, SendOther, workVars
  <2> QED  BY <2>1, <2>4, <2>5, Frame DEF IndInv, SendOther, mailboxVars, workVars
<1>4. CASE \E words \in 1 .. MaxWords, is_final \in BOOLEAN : SendUpdate(c, words, is_final)
  <2>1. PICK words \in 1 .. MaxWords, is_final \in BOOLEAN : SendUpdate(c, words, is_final)
    BY <1>4
  <2>2. /\ client[c].utt \in Nat /\ client[c].utt < MaxUtts /\ client[c].seq \in Nat
        /\ client[c].seq < MaxFrames /\ client[c].paced \in BOOLEAN /\ client[c].waiting \in BOOLEAN
    BY <2>1, MTServerAssumption, SMTT(30) DEF IndInv, ClientTyped, ClientType, SendUpdate
  <2> DEFINE f == [kind |-> "update", seq |-> client[c].seq + 1, utt |-> client[c].utt,
                   words |-> words, is_final |-> is_final]
  <2>3. f \in Frames  BY <2>2, MTServerAssumption DEF Frames, Updates, Utts
  <2> DEFINE n == [utt |-> IF is_final THEN client[c].utt + 1 ELSE client[c].utt,
                   words |-> IF is_final THEN 0 ELSE words,
                   seq |-> client[c].seq + 1, waiting |-> TRUE,
                   paced |-> client[c].paced /\ ~client[c].waiting]
  <2>4. n \in ClientType
    <3>1. n.paced \in BOOLEAN  BY <2>2
    <3>2. n.utt \in Nat /\ n.words \in 0 .. MaxWords /\ n.seq \in 0 .. MaxFrames
      BY <2>2, MTServerAssumption
    <3> QED  BY <3>1, <3>2 DEF ClientType
  <2>5. wire' = [wire EXCEPT ![c] = Append(@, f)] /\ client' = [client EXCEPT ![c] = n]
        /\ phase' = phase /\ replies' = replies
    BY <2>1 DEF SendUpdate
  <2> HIDE DEF f, n
  <2>6. ClientTyped'  BY <2>3, <2>4, <2>5 DEF IndInv, ClientTyped
  <2>7. Slots' /\ NotYetConsuming'  BY <2>1, Frame DEF IndInv, SendUpdate, workVars
  <2> QED  BY <2>1, <2>6, <2>7, Frame DEF IndInv, SendUpdate, mailboxVars, workVars
<1>5. CASE ReceiveReply(c)
  <2> DEFINE r == Head(replies[c])
  <2>1. replies[c] \in Seq(Responses) /\ replies[c] # <<>> /\ client[c] \in ClientType
    BY <1>5 DEF IndInv, ClientTyped, ReceiveReply
  <2>2. r \in Responses /\ Tail(replies[c]) \in Seq(Responses)  BY <2>1
  <2>3. client' = [client EXCEPT ![c] = AfterReply(client[c], r)]  BY <1>5 DEF ReceiveReply
  <2> HIDE DEF r
  <2>4. AfterReply(client[c], r) \in ClientType  BY <2>1, <2>2, AfterReplyType
  <2>6. ClientTyped'  BY <1>5, <2>2, <2>3, <2>4 DEF IndInv, ClientTyped, ReceiveReply, r
  <2>7. Slots' /\ NotYetConsuming'  BY <1>5, Frame DEF IndInv, ReceiveReply, workVars
  <2> QED  BY <1>5, <2>6, <2>7, Frame DEF IndInv, ReceiveReply, mailboxVars, workVars
<1>6. CASE Disconnect(c)
  <2>1. ClientTyped'  BY <1>6 DEF IndInv, ClientTyped, Disconnect, Phases
  <2>2. Slots'  BY <1>1, <1>6 DEF IndInv, Slots, SlotAccounting, Handled, Disconnect
  <2> QED  BY <1>6, <2>1, <2>2, Frame DEF IndInv, Disconnect, mailboxVars, workVars
<1> QED  BY <1>2, <1>3, <1>4, <1>5, <1>6 DEF ClientNext

-----------------------------------------------------------------------------
(* An update at the head of the wire is one, and what is left after any frame is typed. *)
LEMMA HeadUpdate ==
  ASSUME ClientTyped, NEW c \in Conns, Reading(c, "update")
  PROVE  Head(wire[c]) \in Updates
<1>1. wire[c] \in Seq(Frames) /\ wire[c] # <<>> /\ Head(wire[c]).kind = "update"
  BY DEF ClientTyped, Reading
<1>2. Head(wire[c]) \in Frames  BY <1>1
<1> QED  BY <1>1, <1>2 DEF Frames

LEMMA NextFrameTyped ==
  ASSUME ClientTyped, NEW c \in Conns, wire[c] # <<>>, NextFrame(c)
  PROVE  wire' \in [Conns -> Seq(Frames)]
<1>1. wire[c] \in Seq(Frames)  BY DEF ClientTyped
<1>2. Tail(wire[c]) \in Seq(Frames)  BY <1>1
<1> QED  BY <1>2 DEF NextFrame, ClientTyped

(* Leaving closes the mailbox, wakes the consumer and, without one, frees the slot. *)
LEMMA LeaveInv ==
  ASSUME IndInv, NEW c \in Conns, reader[c] \in {"reading", "initializing"}, Leave(c),
         wire' \in [Conns -> Seq(Frames)],
         UNCHANGED <<client, replies, finals, latest_partial, consumer, current, response,
                     workVars, put_finals>>
  PROVE  IndInv'
<1>1. phase \in [Conns -> Phases]  BY DEF IndInv, ClientTyped
<1>2. ClientTyped'  BY DEF IndInv, ClientTyped, Leave, Phases
<1>3. Slots'
  <2>1. CASE initialized(c)
    <3>1. /\ reader' = [reader EXCEPT ![c] = "draining"] /\ active' = active /\ phase' = phase
      BY <2>1 DEF Leave
    <3> QED  BY <3>1, SlotKept DEF IndInv
  <2>2. CASE ~initialized(c)
    <3>1. /\ reader' = [reader EXCEPT ![c] = "gone"] /\ active' = active - 1
          /\ phase' = [phase EXCEPT ![c] = "closed"]
      BY <2>2 DEF Leave
    <3> QED  BY <1>1, <3>1, SlotGivenBack DEF IndInv
  <2> QED  BY <2>1, <2>2
<1>4. MailboxTyped'  BY DEF IndInv, MailboxTyped, Leave, close
<1>5. NotYetConsuming'  BY DEF IndInv, NotYetConsuming, Slots, Leave
<1>6. NoLostWakeup'  BY DEF IndInv, NoLostWakeup, MailboxTyped, Leave, close
<1> QED  BY <1>2, <1>3, <1>4, <1>5, <1>6, Frame DEF IndInv, workVars

(* Appending to the last of three queues of updates appends to their concatenation. *)
LEMMA AppendLast ==
  ASSUME NEW p \in Seq(Updates), NEW q \in Seq(Updates), NEW r \in Seq(Updates),
         NEW x \in Updates
  PROVE  Append(p \o q \o r, x) = p \o q \o Append(r, x)
<1> DEFINE a == Append(p \o q \o r, x)
<1> DEFINE b == p \o q \o Append(r, x)
<1>1. Len(a) = Len(p) + Len(q) + Len(r) + 1 /\ a \in Seq(Updates)  OBVIOUS
<1>2. Len(b) = Len(p) + Len(q) + Len(r) + 1 /\ b \in Seq(Updates)  OBVIOUS
<1>3. ASSUME NEW i \in 1 .. Len(a) PROVE a[i] = b[i]  OBVIOUS
<1> HIDE DEF a, b
<1>4. a = b  BY <1>1, <1>2, <1>3
<1> QED  BY <1>4 DEF a, b

(* The reader puts an update in the mailbox: appended to both or to neither history. *)
LEMMA PutInv ==
  ASSUME IndInv, NEW c \in Conns, NEW u \in Updates, put(c, u), UNCHANGED closed
  PROVE  /\ MailboxTyped'
         /\ UNCHANGED <<done_finals, consumer, current>> => FinalsSticky' /\ NoLostWakeup'
<1>1. /\ finals[c] \in Seq(Updates) /\ put_finals[c] \in Seq(Updates)
      /\ \A i \in 1 .. Len(finals[c]) : finals[c][i].is_final
  BY DEF IndInv, MailboxTyped
<1>2. CASE u.is_final
  <2>1. /\ finals' = [finals EXCEPT ![c] = Append(finals[c], u)]
        /\ put_finals' = [put_finals EXCEPT ![c] = Append(put_finals[c], u)]
        /\ latest_partial' = [latest_partial EXCEPT ![c] = latest_partial[c]]
        /\ event' = [event EXCEPT ![c] = TRUE]
    BY <1>2 DEF put
  <2> DEFINE f == Append(finals[c], u)
  <2>2. f \in Seq(Updates) /\ \A i \in 1 .. Len(f) : f[i].is_final  BY <1>1, <1>2
  <2>3. Append(put_finals[c], u) \in Seq(Updates)  BY <1>1
  <2> HIDE DEF f
  <2>4. MailboxTyped'  BY <2>1, <2>2, <2>3 DEF IndInv, MailboxTyped, f
  <2>5. ASSUME UNCHANGED <<done_finals, consumer, current>>
        PROVE  FinalsSticky' /\ NoLostWakeup'
    <3>1. NoLostWakeup'  BY <2>1, <2>5 DEF IndInv, NoLostWakeup, MailboxTyped
    <3>2. ASSUME NEW d \in Conns
          PROVE  put_finals'[d] = done_finals'[d] \o InFlight(d)' \o finals'[d]
      <4>1. put_finals[d] = done_finals[d] \o InFlight(d) \o finals[d]
        BY DEF IndInv, FinalsSticky
      <4>2. InFlight(d)' = InFlight(d) /\ done_finals'[d] = done_finals[d]
        BY <2>5 DEF InFlight
      <4>3. CASE d # c  BY <2>1, <4>1, <4>2, <4>3 DEF IndInv, MailboxTyped
      <4>4. CASE d = c
        <5>1. done_finals[c] \in Seq(Updates) /\ InFlight(c) \in Seq(Updates)
          BY DEF IndInv, SessionTyped, ConsumerTyped, InFlight
        <5>2. put_finals'[c] = Append(put_finals[c], u) /\ finals'[c] = Append(finals[c], u)
          BY <2>1 DEF IndInv, MailboxTyped
        <5>3. Append(done_finals[c] \o InFlight(c) \o finals[c], u)
                = done_finals[c] \o InFlight(c) \o Append(finals[c], u)
          <6>1. finals[c] \in Seq(Updates) /\ u \in Updates  BY <1>1
          <6> QED  BY <6>1, <5>1, AppendLast, ZenonT(30)
        <5> QED  BY <4>1, <4>2, <4>4, <5>2, <5>3
      <4> QED  BY <4>3, <4>4
    <3> QED  BY <3>1, <3>2 DEF FinalsSticky
  <2> QED  BY <2>4, <2>5
<1>3. CASE ~u.is_final
  <2>1. /\ finals' = [finals EXCEPT ![c] = finals[c]]
        /\ put_finals' = [put_finals EXCEPT ![c] = put_finals[c]]
        /\ latest_partial' = [latest_partial EXCEPT ![c] = u]
        /\ event' = [event EXCEPT ![c] = TRUE]
    BY <1>3 DEF put
  <2>2. finals' = finals /\ put_finals' = put_finals  BY <2>1 DEF IndInv, MailboxTyped
  <2>3. MailboxTyped'  BY <1>3, <2>1, <2>2 DEF IndInv, MailboxTyped
  <2>4. ASSUME UNCHANGED <<done_finals, consumer, current>>
        PROVE  FinalsSticky' /\ NoLostWakeup'
    <3>1. NoLostWakeup'  BY <2>1, <2>4 DEF IndInv, NoLostWakeup, MailboxTyped
    <3>2. FinalsSticky'  BY <2>2, <2>4, Frame DEF IndInv
    <3> QED  BY <3>1, <3>2
  <2> QED  BY <2>3, <2>4
<1> QED  BY <1>2, <1>3

(* A new session has nothing translated. *)
LEMMA NewSessionType ==
  NewSession \in SessionType
  /\ Len(NewSession.utt_translations) <= Len(NewSession.utt_sources)
<1>1. Len(<<>>) = 0 /\ <<>> \in Seq(Utts) /\ <<>> \in Seq(SUBSET Utts)  OBVIOUS
<1> QED  BY <1>1 DEF NewSession, SessionType

(* Every step of the reader keeps the invariant. *)
LEMMA ReaderInv == ASSUME IndInv, NEW c \in Conns, ReaderNext(c) PROVE IndInv'
<1>0. ClientTyped /\ phase \in [Conns -> Phases]  BY DEF IndInv, ClientTyped
<1>1. CASE ReadInit(c)
  <2>1. reader[c] = "reading" /\ wire' \in [Conns -> Seq(Frames)]
    BY <1>0, <1>1, NextFrameTyped DEF ReadInit, Reading
  <2>2. ClientTyped'  BY <1>1, <2>1 DEF IndInv, ClientTyped, ReadInit
  <2>3. Slots'  BY <1>1, <2>1, SlotKept DEF IndInv, ReadInit
  <2>4. SessionTyped'  BY <1>1, NewSessionType DEF IndInv, SessionTyped, ReadInit
  <2>5. NotYetConsuming'
    BY <1>1 DEF IndInv, NotYetConsuming, ReadInit, initialized, Slots
  <2> QED
    BY <1>1, <2>2, <2>3, <2>4, <2>5, Frame DEF IndInv, ReadInit, mailboxVars
<1>2. CASE InitSent(c)
  <2>1. /\ reader[c] = "initializing" /\ reader' = [reader EXCEPT ![c] = "reading"]
        /\ consumer' = [consumer EXCEPT ![c] = "ready"]
        /\ UNCHANGED <<clientVars, active, mailboxVars, current, response, workVars, put_finals>>
    BY <1>2 DEF InitSent
  <2>2. consumer[c] = "none"  BY <2>1 DEF IndInv, NotYetConsuming
  <2>3. Slots'  BY <2>1, SlotKept DEF IndInv, clientVars
  <2>4. ConsumerTyped'  BY <2>1, <2>2 DEF IndInv, ConsumerTyped
  <2>5. NotYetConsuming'  BY <2>1, <2>2 DEF IndInv, NotYetConsuming, Slots, ConsumerTyped
  <2>6. Queued'
    BY <2>1, <2>2 DEF IndInv, Queued, Awaited, OneCallPerSession, ConsumerTyped, workVars
  <2>7. FinalsSticky'
    BY <2>1, <2>2 DEF IndInv, FinalsSticky, InFlight, ConsumerTyped, workVars, mailboxVars
  <2>8. NoLostWakeup'
    BY <2>1, <2>2 DEF IndInv, NoLostWakeup, ConsumerTyped, mailboxVars
  <2> QED  BY <2>1, <2>3, <2>4, <2>5, <2>6, <2>7, <2>8, Frame DEF IndInv, workVars
<1>3. CASE ReadBadInit(c)
  <2>1. reader[c] = "reading" /\ wire' \in [Conns -> Seq(Frames)]
    BY <1>0, <1>3, NextFrameTyped DEF ReadBadInit, Reading
  <2> QED  BY <1>3, <2>1, LeaveInv DEF ReadBadInit
<1>4. CASE ReadRejected(c)
  <2>1. wire[c] # <<>> /\ NextFrame(c)  BY <1>4 DEF ReadRejected, Rejected, Reading
  <2>2. wire' \in [Conns -> Seq(Frames)]  BY <1>0, <2>1, NextFrameTyped
  <2>3. ClientTyped'  BY <1>4, <2>2 DEF IndInv, ClientTyped, ReadRejected
  <2> QED  BY <1>4, <2>3, Frame DEF IndInv, ReadRejected, mailboxVars, workVars
<1>5. CASE ReadUpdate(c)
  <2>1. Head(wire[c]) \in Updates /\ wire' \in [Conns -> Seq(Frames)]
    <3>1. Reading(c, "update") /\ NextFrame(c) /\ wire[c] # <<>>  BY <1>5 DEF ReadUpdate, Reading
    <3> QED  BY <1>0, <3>1, HeadUpdate, NextFrameTyped
  <2>2. ClientTyped'  BY <1>5, <2>1 DEF IndInv, ClientTyped, ReadUpdate
  <2>3. MailboxTyped' /\ FinalsSticky' /\ NoLostWakeup'
    BY <1>5, <2>1, PutInv DEF ReadUpdate, workVars
  <2> QED  BY <1>5, <2>2, <2>3, Frame DEF IndInv, ReadUpdate, workVars
<1>6. CASE ReaderEnds(c)
  <2>1. reader[c] \in {"reading", "initializing"}  BY <1>6 DEF ReaderEnds, Reading
  <2>2. wire' \in [Conns -> Seq(Frames)]  BY <1>0, <1>6 DEF ReaderEnds, ClientTyped
  <2> QED  BY <1>6, <2>1, <2>2, LeaveInv DEF ReaderEnds
<1>7. CASE ReaderJoins(c)
  <2>1. Slots'  BY <1>0, <1>7, SlotGivenBack DEF IndInv, ReaderJoins
  <2>2. ClientTyped'  BY <1>7 DEF IndInv, ClientTyped, ReaderJoins, Phases
  <2>3. NotYetConsuming'  BY <1>7 DEF IndInv, NotYetConsuming, Slots, ReaderJoins
  <2> QED
    BY <1>7, <2>1, <2>2, <2>3, Frame DEF IndInv, ReaderJoins, mailboxVars, workVars
<1> QED  BY <1>1, <1>2, <1>3, <1>4, <1>5, <1>6, <1>7 DEF ReaderNext

-----------------------------------------------------------------------------
(* Submitting a call for a connection that has none keeps the queue free of repetitions. *)
LEMMA TakeInv ==
  ASSUME IndInv, NEW c \in Conns, consumer[c] \in {"ready", "waiting"}, NEW u \in Updates,
         Take(c, u), response' = response
  PROVE  ConsumerTyped' /\ Queued'
<1>1. consumer[c] # "submitted" /\ jobs \in Seq(Conns) /\ jobs' = Append(jobs, c)
      /\ consumer' = [consumer EXCEPT ![c] = "submitted"]
      /\ current' = [current EXCEPT ![c] = u]
  BY DEF IndInv, Queued, Take
<1>2. ConsumerTyped'  BY <1>1 DEF IndInv, ConsumerTyped
<1>3. /\ \A i, j \in 1 .. Len(jobs) : jobs[i] = jobs[j] => i = j
      /\ \A d \in Conns : consumer[d] = "submitted" <=> \E i \in 1 .. Len(jobs) : jobs[i] = d
  BY DEF IndInv, Queued, Awaited, OneCallPerSession
<1>4. /\ jobs' \in Seq(Conns) /\ Len(jobs') = Len(jobs) + 1 /\ Len(jobs) \in Nat
      /\ \A i \in 1 .. Len(jobs) : jobs'[i] = jobs[i]
      /\ jobs'[Len(jobs) + 1] = c
  BY <1>1
<1>5. \A i \in 1 .. Len(jobs) : jobs[i] # c  BY <1>1, <1>3
<1>6. \A i, j \in 1 .. Len(jobs') : jobs'[i] = jobs'[j] => i = j  BY <1>3, <1>4, <1>5
<1>7. ASSUME NEW d \in Conns
      PROVE  consumer'[d] = "submitted" <=> \E i \in 1 .. Len(jobs') : jobs'[i] = d
  <2>1. CASE d = c  BY <2>1, <1>1, <1>4 DEF IndInv, ConsumerTyped
  <2>2. CASE d # c
    <3>1. consumer'[d] = consumer[d]  BY <2>2, <1>1 DEF IndInv, ConsumerTyped
    <3>2. (\E i \in 1 .. Len(jobs') : jobs'[i] = d) <=> (\E i \in 1 .. Len(jobs) : jobs[i] = d)
      BY <2>2, <1>4
    <3> QED  BY <3>1, <3>2, <1>3
  <2> QED  BY <2>1, <2>2
<1> QED  BY <1>2, <1>4, <1>6, <1>7 DEF Queued, Awaited, OneCallPerSession

(* Taking the first of the waiting finals into hand keeps the order of all of them. *)
LEMMA TakeFirst ==
  ASSUME NEW s \in Seq(Updates), NEW t \in Seq(Updates), t # <<>>
  PROVE  s \o <<>> \o t = s \o <<Head(t)>> \o Tail(t)
<1>1. Head(t) \in Updates /\ Tail(t) \in Seq(Updates) /\ <<Head(t)>> \in Seq(Updates)
  OBVIOUS
<1>2. <<Head(t)>> \o Tail(t) = t  OBVIOUS
<1>3. (s \o <<Head(t)>>) \o Tail(t) = s \o (<<Head(t)>> \o Tail(t))
  BY <1>1, ConcatAssociative
<1>4. s \o <<>> = s  BY ConcatEmptySeq
<1> QED  BY <1>2, <1>3, <1>4

(* A final that is taken moves from the mailbox to the executor. *)
LEMMA TakeFinalInv ==
  ASSUME IndInv, NEW c \in Conns, consumer[c] \in {"ready", "waiting"}, finals[c] # <<>>,
         Take(c, Head(finals[c])), finals' = [finals EXCEPT ![c] = Tail(@)],
         UNCHANGED <<put_finals, done_finals>>
  PROVE  FinalsSticky'
<1>1. /\ consumer' = [consumer EXCEPT ![c] = "submitted"]
      /\ current' = [current EXCEPT ![c] = Head(finals[c])]
  BY DEF Take
<1>2. finals[c] \in Seq(Updates) /\ done_finals[c] \in Seq(Updates)
  BY DEF IndInv, MailboxTyped, SessionTyped
<1>3. Head(finals[c]).is_final
  <2>1. 1 \in 1 .. Len(finals[c]) /\ finals[c][1] = Head(finals[c])  BY <1>2
  <2> QED  BY <2>1 DEF IndInv, MailboxTyped
<1>4. ASSUME NEW d \in Conns
      PROVE  put_finals'[d] = done_finals'[d] \o InFlight(d)' \o finals'[d]
  <2>1. put_finals[d] = done_finals[d] \o InFlight(d) \o finals[d]  BY DEF IndInv, FinalsSticky
  <2>2. CASE d # c
    <3>1. InFlight(d)' = InFlight(d) /\ finals'[d] = finals[d]
      BY <1>1, <2>2 DEF InFlight, IndInv, ConsumerTyped, MailboxTyped
    <3> QED  BY <2>1, <3>1
  <2>3. CASE d = c
    <3>1. InFlight(c) = <<>>  BY DEF InFlight
    <3>2. InFlight(c)' = <<Head(finals[c])>> /\ finals'[c] = Tail(finals[c])
      BY <1>1, <1>3 DEF InFlight, IndInv, ConsumerTyped, MailboxTyped
    <3>3. done_finals[c] \o <<>> \o finals[c]
            = done_finals[c] \o <<Head(finals[c])>> \o Tail(finals[c])
      BY <1>2, TakeFirst
    <3> QED  BY <2>1, <2>3, <3>1, <3>2, <3>3
  <2> QED  BY <2>2, <2>3
<1> QED  BY <1>4 DEF FinalsSticky

(* A step of the consumer that takes no final and does not come from a call leaves the
   finals where they are. *)
TakesNoFinal(c) ==
  /\ \A d \in Conns : d # c => consumer'[d] = consumer[d] /\ current'[d] = current[d]
  /\ consumer'[c] = "submitted" => ~current'[c].is_final
  /\ UNCHANGED <<put_finals, done_finals, finals>>

(* Such a step keeps every final where the history has it. *)
LEMMA NoFinalMoves ==
  ASSUME IndInv, NEW c \in Conns, consumer[c] # "submitted", TakesNoFinal(c)
  PROVE  FinalsSticky'
<1>1. ASSUME NEW d \in Conns PROVE InFlight(d)' = InFlight(d)
  BY DEF InFlight, TakesNoFinal
<1> QED  BY <1>1 DEF IndInv, FinalsSticky, TakesNoFinal

(* Every step of the consumer keeps the invariant. *)
LEMMA ConsumerInv == ASSUME IndInv, NEW c \in Conns, ConsumerNext(c) PROVE IndInv'
<1>1. CASE ConsumerGets(c)
  <2>0. /\ consumer[c] \in {"ready", "waiting"}
        /\ UNCHANGED <<clientVars, active, reader, closed, response, session, faults,
                       done_finals, done_partial, put_finals>>
    BY <1>1 DEF ConsumerGets
  <2>a. NotYetConsuming'
    BY <1>1, <2>0 DEF IndInv, NotYetConsuming, ConsumerTyped, ConsumerGets, Take, ReturnPartial
  <2>b. ClientTyped' /\ Slots' /\ SessionTyped'  BY <2>0, Frame DEF IndInv, clientVars
  <2>1. CASE /\ finals[c] # <<>>
             /\ Take(c, Head(finals[c]))
             /\ finals' = [finals EXCEPT ![c] = Tail(@)]
             /\ UNCHANGED <<latest_partial, event>>
    <3>1. finals[c] \in Seq(Updates) /\ finals[c] # <<>>  BY <2>1 DEF IndInv, MailboxTyped
    <3>2. Head(finals[c]) \in Updates /\ Tail(finals[c]) \in Seq(Updates)
          /\ \A i \in 1 .. Len(Tail(finals[c])) :
               i + 1 \in 1 .. Len(finals[c]) /\ Tail(finals[c])[i] = finals[c][i + 1]
      BY <3>1
    <3>3. ConsumerTyped' /\ Queued'  BY <2>0, <2>1, <3>2, TakeInv
    <3>4. FinalsSticky'  BY <2>0, <2>1, TakeFinalInv
    <3> DEFINE t == Tail(finals[c])
    <3>5. /\ t \in Seq(Updates) /\ \A i \in 1 .. Len(t) : t[i].is_final
      BY <3>2 DEF IndInv, MailboxTyped
    <3> HIDE DEF t
    <3>6. finals' = [finals EXCEPT ![c] = t]  BY <2>1 DEF t
    <3>7. MailboxTyped'  BY <2>0, <2>1, <3>5, <3>6 DEF IndInv, MailboxTyped
    <3>8. consumer' = [consumer EXCEPT ![c] = "submitted"]  BY <2>1 DEF Take
    <3>9. NoLostWakeup'
      BY <2>0, <2>1, <3>6, <3>8 DEF IndInv, NoLostWakeup, ConsumerTyped, MailboxTyped
    <3> QED  BY <2>a, <2>b, <3>3, <3>4, <3>7, <3>9 DEF IndInv
  <2>2. CASE /\ finals[c] = <<>> /\ latest_partial[c] # NoUpdate
             /\ ReturnPartial(c)
             /\ UNCHANGED <<finals, event>>
    <3>1. /\ latest_partial[c] \in Updates /\ ~latest_partial[c].is_final
          /\ Take(c, latest_partial[c])
          /\ latest_partial' = [latest_partial EXCEPT ![c] = NoUpdate]
      BY <2>2 DEF IndInv, MailboxTyped, ReturnPartial
    <3>2. ConsumerTyped' /\ Queued'  BY <2>0, <3>1, TakeInv
    <3>3. /\ consumer' = [consumer EXCEPT ![c] = "submitted"]
          /\ current' = [current EXCEPT ![c] = latest_partial[c]]
      BY <3>1 DEF Take
    <3>4. FinalsSticky'
      <4>1. current'[c] = latest_partial[c] /\ \A d \in Conns : d # c => current'[d] = current[d]
        BY <3>3 DEF IndInv, ConsumerTyped
      <4>2. TakesNoFinal(c)
        BY <2>0, <2>2, <3>1, <3>3, <4>1 DEF TakesNoFinal, IndInv, ConsumerTyped
      <4> QED  BY <2>0, <4>2, NoFinalMoves
    <3>5. MailboxTyped'  BY <2>0, <2>2, <3>1 DEF IndInv, MailboxTyped
    <3>6. NoLostWakeup'
      BY <2>0, <2>2, <3>1, <3>3 DEF IndInv, NoLostWakeup, ConsumerTyped, MailboxTyped
    <3> QED  BY <2>a, <2>b, <3>2, <3>4, <3>5, <3>6 DEF IndInv
  <2>3. CASE /\ finals[c] = <<>> /\ latest_partial[c] = NoUpdate /\ closed[c]
             /\ consumer' = [consumer EXCEPT ![c] = "done"]
             /\ UNCHANGED <<finals, latest_partial, event, current, jobs>>
    <3>1. ConsumerTyped'  BY <2>0, <2>3 DEF IndInv, ConsumerTyped
    <3>2. Queued'  BY <2>0, <2>3 DEF IndInv, Queued, Awaited, OneCallPerSession, ConsumerTyped
    <3>3. FinalsSticky'
      <4>1. TakesNoFinal(c)  BY <2>0, <2>3 DEF TakesNoFinal, IndInv, ConsumerTyped
      <4> QED  BY <2>0, <4>1, NoFinalMoves
    <3>4. NoLostWakeup'  BY <2>0, <2>3 DEF IndInv, NoLostWakeup, ConsumerTyped
    <3>5. MailboxTyped'  BY <2>0, <2>3, Frame DEF IndInv, mailboxVars
    <3> QED  BY <2>a, <2>b, <3>1, <3>2, <3>3, <3>4, <3>5 DEF IndInv
  <2>4. CASE /\ finals[c] = <<>> /\ latest_partial[c] = NoUpdate /\ ~closed[c]
             /\ event' = [event EXCEPT ![c] = FALSE]
             /\ consumer' = [consumer EXCEPT ![c] = "waiting"]
             /\ UNCHANGED <<finals, latest_partial, current, jobs>>
    <3>1. ConsumerTyped'  BY <2>0, <2>4 DEF IndInv, ConsumerTyped
    <3>2. Queued'  BY <2>0, <2>4 DEF IndInv, Queued, Awaited, OneCallPerSession, ConsumerTyped
    <3>3. FinalsSticky'
      <4>1. TakesNoFinal(c)  BY <2>0, <2>4 DEF TakesNoFinal, IndInv, ConsumerTyped
      <4> QED  BY <2>0, <4>1, NoFinalMoves
    <3>4. MailboxTyped'  BY <2>0, <2>4 DEF IndInv, MailboxTyped
    <3>5. NoLostWakeup'  BY <2>0, <2>4 DEF IndInv, NoLostWakeup, ConsumerTyped, MailboxTyped
    <3> QED  BY <2>a, <2>b, <3>1, <3>2, <3>3, <3>4, <3>5 DEF IndInv
  <2> QED  BY <1>1, <2>1, <2>2, <2>3, <2>4 DEF ConsumerGets
<1>2. CASE ConsumerSends(c) \/ SendFails(c)
  <2>1. PICK to \in {"ready", "done"} :
          /\ consumer[c] = "sending" /\ consumer' = [consumer EXCEPT ![c] = to]
          /\ UNCHANGED <<phase, client, wire, active, reader, mailboxVars, workVars, put_finals>>
    BY <1>2 DEF ConsumerSends, SendFails, clientVars
  <2>2. ConsumerTyped'
    <3>1. \/ current' = [current EXCEPT ![c] = NoUpdate]
             /\ response' = [response EXCEPT ![c] = NoUpdate]
          \/ UNCHANGED <<current, response>>
      BY <1>2 DEF ConsumerSends, SendFails
    <3> QED  BY <2>1, <3>1 DEF IndInv, ConsumerTyped
  <2>3. ClientTyped'
    <3>1. response[c] \in Responses  BY <2>1 DEF IndInv, ConsumerTyped
    <3>2. CASE ConsumerSends(c)
      <4>1. Append(replies[c], response[c]) \in Seq(Responses) /\ replies[c] \in Seq(Responses)
        BY <3>1 DEF IndInv, ClientTyped
      <4>2. replies' \in [Conns -> Seq(Responses)]
        BY <3>2, <4>1 DEF IndInv, ClientTyped, ConsumerSends, Reply
      <4> QED  BY <2>1, <4>2 DEF IndInv, ClientTyped
    <3>3. CASE SendFails(c)  BY <3>3, Frame DEF IndInv, SendFails
    <3> QED  BY <1>2, <3>2, <3>3
  <2>4. NotYetConsuming'  BY <2>1 DEF IndInv, NotYetConsuming, ConsumerTyped
  <2>5. Queued'  BY <2>1 DEF IndInv, Queued, Awaited, OneCallPerSession, ConsumerTyped, workVars
  <2>6. FinalsSticky'
    <3>1. \A d \in Conns : d # c => current'[d] = current[d]
      BY <1>2 DEF ConsumerSends, SendFails, IndInv, ConsumerTyped
    <3>2. TakesNoFinal(c)
      BY <2>1, <3>1 DEF TakesNoFinal, IndInv, ConsumerTyped, workVars, mailboxVars
    <3> QED  BY <2>1, <3>2, NoFinalMoves
  <2>7. NoLostWakeup'  BY <2>1 DEF IndInv, NoLostWakeup, ConsumerTyped, mailboxVars
  <2> QED
    BY <2>1, <2>2, <2>3, <2>4, <2>5, <2>6, <2>7, Frame DEF IndInv, workVars
<1> QED  BY <1>1, <1>2 DEF ConsumerNext

-----------------------------------------------------------------------------
(* The executor.  Translating k of the pending segments keeps the session typed. *)
LEMMA SyncTyped ==
  ASSUME NEW s \in SessionType, Len(s.utt_translations) <= Len(s.utt_sources),
         NEW k \in 0 .. Pending(s)
  PROVE  /\ sync_committed_translations(s, k) \in SessionType
         /\ Len(sync_committed_translations(s, k).utt_translations)
              = Len(s.utt_translations) + k
         /\ sync_committed_translations(s, k).utt_sources = s.utt_sources
         /\ Len(s.utt_translations) + k <= Len(s.utt_sources)
<1> DEFINE done == Len(s.utt_translations)
<1> DEFINE last == Len(s.utt_sources)
<1> DEFINE From(i) == {s.utt_sources[i]} \cup (IF i = last THEN s.accepted ELSE {})
<1> DEFINE new == [i \in 1 .. k |-> From(done + i)]
<1>1. /\ s.utt_sources \in Seq(Utts) /\ s.utt_translations \in Seq(SUBSET Utts)
      /\ s.accepted \in SUBSET Utts /\ done \in Nat /\ last \in Nat
  BY DEF SessionType
<1>2. k \in Nat /\ done + k <= last  BY <1>1 DEF Pending
<1>3. ASSUME NEW i \in 1 .. k PROVE From(done + i) \in SUBSET Utts
  <2>1. done + i \in 1 .. last  BY <1>1, <1>2
  <2>2. s.utt_sources[done + i] \in Utts  BY <1>1, <2>1
  <2> QED  BY <1>1, <2>2
<1> HIDE DEF From
<1>4. new \in Seq(SUBSET Utts) /\ Len(new) = k
  <2>1. new \in [1 .. k -> SUBSET Utts]  BY <1>3
  <2> HIDE DEF new
  <2> QED  BY <1>2, <2>1
<1> DEFINE acc == IF k > 0 /\ done + k = last THEN {} ELSE s.accepted
<1>5. acc \in SUBSET Utts  BY <1>1
<1>6. sync_committed_translations(s, k)
        = [s EXCEPT !.utt_translations = s.utt_translations \o new, !.accepted = acc]
  BY DEF sync_committed_translations, From
<1> HIDE DEF new, acc
<1>7. /\ s.utt_translations \o new \in Seq(SUBSET Utts)
      /\ Len(s.utt_translations \o new) = done + k
  BY <1>1, <1>2, <1>4, SMTT(30)
<1> QED  BY <1>1, <1>2, <1>5, <1>6, <1>7 DEF SessionType

(* Finalizing an utterance adds one source segment. *)
LEMMA FinalizeTyped ==
  ASSUME NEW s \in SessionType, NEW u \in Updates
  PROVE  /\ finalize_utterance(s, u) \in SessionType
         /\ finalize_utterance(s, u).utt_translations = s.utt_translations
         /\ Len(finalize_utterance(s, u).utt_sources) = Len(s.utt_sources) + 1
<1>1. s.utt_sources \in Seq(Utts) /\ u.utt \in Utts  BY DEF SessionType, Updates
<1> DEFINE n == Append(s.utt_sources, u.utt)
<1>2. n \in Seq(Utts) /\ Len(n) = Len(s.utt_sources) + 1  BY <1>1
<1>3. finalize_utterance(s, u) = [s EXCEPT !.utt_sources = n]  BY DEF finalize_utterance
<1> HIDE DEF n
<1> QED  BY <1>2, <1>3 DEF SessionType

(* The executor takes the call at the head of its queue, which has no other of that
   connection, and a final it has processed moves to done_finals. *)
LEMMA RespondInv ==
  ASSUME IndInv, NEW c \in Conns, consumer[c] = "submitted",
         NEW s \in SessionType, Len(s.utt_translations) <= Len(s.utt_sources),
         NEW r \in Responses, Respond(c, s, r), faults' \in Nat
  PROVE  IndInv'
<1>1. /\ jobs # <<>> /\ Head(jobs) = c /\ jobs' = Tail(jobs)
      /\ session' = [session EXCEPT ![c] = s] /\ response' = [response EXCEPT ![c] = r]
      /\ consumer' = [consumer EXCEPT ![c] = "sending"]
      /\ UNCHANGED <<clientVars, active, reader, mailboxVars, current, put_finals>>
  BY DEF Respond
<1>2. current[c] \in Updates  BY DEF IndInv, ConsumerTyped
<1>3. ASSUME current[c].is_final, UNCHANGED done_partial,
             done_finals' = [done_finals EXCEPT ![c] = Append(@, current[c])]
      PROVE  SessionTyped' /\ FinalsSticky'
  <2> DEFINE n == Append(done_finals[c], current[c])
  <2>1. done_finals[c] \in Seq(Updates)  BY DEF IndInv, SessionTyped
  <2>2. n \in Seq(Updates) /\ n = done_finals[c] \o <<current[c]>>  BY <1>2, <2>1
  <2>3. done_finals' = [done_finals EXCEPT ![c] = n]  BY <1>3
  <2> HIDE DEF n
  <2>4. SessionTyped'  BY <1>1, <1>3, <2>2, <2>3 DEF IndInv, SessionTyped
  <2>5. FinalsSticky'
    <3>1. ASSUME NEW d \in Conns
          PROVE  put_finals'[d] = done_finals'[d] \o InFlight(d)' \o finals'[d]
      <4>1. put_finals[d] = done_finals[d] \o InFlight(d) \o finals[d]
        BY DEF IndInv, FinalsSticky
      <4>2. CASE d # c
        <5>1. InFlight(d)' = InFlight(d) /\ done_finals'[d] = done_finals[d]
          BY <1>1, <2>3, <4>2 DEF InFlight, IndInv, ConsumerTyped, SessionTyped
        <5> QED  BY <1>1, <4>1, <5>1 DEF mailboxVars
      <4>3. CASE d = c
        <5>1. InFlight(c) = <<current[c]>>  BY <1>3 DEF InFlight
        <5>2. InFlight(c)' = <<>>  BY <1>1 DEF InFlight, IndInv, ConsumerTyped
        <5>3. done_finals'[c] = n  BY <2>3 DEF IndInv, SessionTyped
        <5>4. n \o <<>> = n  BY <2>2, ConcatEmptySeq
        <5> QED  BY <1>1, <2>2, <4>1, <4>3, <5>1, <5>2, <5>3, <5>4 DEF mailboxVars
      <4> QED  BY <4>2, <4>3
    <3> QED  BY <3>1 DEF FinalsSticky
  <2> QED  BY <2>4, <2>5
<1>4. ASSUME ~current[c].is_final, UNCHANGED done_finals,
             done_partial' = [done_partial EXCEPT ![c] = current[c].seq]
      PROVE  SessionTyped' /\ FinalsSticky'
  <2>1. current[c].seq \in 0 .. MaxFrames  BY <1>2, MTServerAssumption DEF Updates
  <2>2. SessionTyped'  BY <1>1, <1>4, <2>1 DEF IndInv, SessionTyped
  <2>3. \A d \in Conns : InFlight(d)' = InFlight(d)
    BY <1>1, <1>4 DEF InFlight, IndInv, ConsumerTyped
  <2>4. FinalsSticky'  BY <1>1, <1>4, <2>3 DEF IndInv, FinalsSticky, mailboxVars
  <2> QED  BY <2>2, <2>4
<1>5. SessionTyped' /\ FinalsSticky'  BY <1>3, <1>4 DEF Respond
<1>6. ConsumerTyped'  BY <1>1, <1>2 DEF IndInv, ConsumerTyped
<1>7. NotYetConsuming'  BY <1>1 DEF IndInv, NotYetConsuming, ConsumerTyped
<1>8. NoLostWakeup'  BY <1>1 DEF IndInv, NoLostWakeup, ConsumerTyped, mailboxVars
<1>9. Queued'
  <2>1. /\ jobs \in Seq(Conns)
        /\ \A i, j \in 1 .. Len(jobs) : jobs[i] = jobs[j] => i = j
        /\ \A d \in Conns : consumer[d] = "submitted" <=> \E i \in 1 .. Len(jobs) : jobs[i] = d
    BY DEF IndInv, Queued, Awaited, OneCallPerSession
  <2>2. /\ jobs' \in Seq(Conns) /\ Len(jobs) \in Nat /\ Len(jobs) >= 1
        /\ Len(jobs') = Len(jobs) - 1 /\ jobs[1] = c
        /\ \A i \in 1 .. Len(jobs') : i + 1 \in 1 .. Len(jobs) /\ jobs'[i] = jobs[i + 1]
    BY <1>1, <2>1
  <2>3. \A i, j \in 1 .. Len(jobs') : jobs'[i] = jobs'[j] => i = j
    <3>1. TAKE i, j \in 1 .. Len(jobs')
    <3>2. i + 1 \in 1 .. Len(jobs) /\ j + 1 \in 1 .. Len(jobs)  BY <2>2
    <3>3. jobs[i + 1] = jobs[j + 1] => i + 1 = j + 1  BY <2>1, <3>2, Zenon
    <3>4. jobs'[i] = jobs[i + 1] /\ jobs'[j] = jobs[j + 1]  BY <2>2
    <3> QED  BY <2>2, <3>3, <3>4
  <2>4. ASSUME NEW d \in Conns
        PROVE  consumer'[d] = "submitted" <=> \E i \in 1 .. Len(jobs') : jobs'[i] = d
    <3>1. CASE d = c
      <4>1. consumer'[c] = "sending"  BY <1>1 DEF IndInv, ConsumerTyped
      <4>2. \A i \in 1 .. Len(jobs') : jobs'[i] # c
        <5>1. TAKE i \in 1 .. Len(jobs')
        <5>2. jobs[i + 1] = jobs[1] => i + 1 = 1  BY <2>1, <2>2
        <5> QED  BY <2>2, <5>2
      <4> QED  BY <3>1, <4>1, <4>2
    <3>2. CASE d # c
      <4>1. consumer'[d] = consumer[d]  BY <1>1, <3>2 DEF IndInv, ConsumerTyped
      <4>2. ASSUME NEW i \in 1 .. Len(jobs), jobs[i] = d
            PROVE  \E j \in 1 .. Len(jobs') : jobs'[j] = d
        <5>1. i # 1  BY <2>2, <3>2, <4>2
        <5>2. i - 1 \in 1 .. Len(jobs') /\ (i - 1) + 1 = i  BY <2>2, <5>1
        <5> QED  BY <2>2, <4>2, <5>2
      <4> QED  BY <2>1, <2>2, <4>1, <4>2
    <3> QED  BY <3>1, <3>2
  <2> QED  BY <2>2, <2>3, <2>4 DEF Queued, Awaited, OneCallPerSession
<1>10. ClientTyped' /\ Slots' /\ MailboxTyped'
  BY <1>1, Frame DEF IndInv, clientVars
<1> QED  BY <1>5, <1>6, <1>7, <1>8, <1>9, <1>10 DEF IndInv

(* What a response reports is typed: a target that was accepted or finalised. *)
LEMMA ErrorTyped == ASSUME NEW u \in Updates PROVE NoReply(u) \in Responses
BY DEF NoReply, Responses

LEMMA FinalResponseTyped ==
  ASSUME NEW u \in Updates, NEW s \in SessionType, Len(s.utt_translations) >= 1
  PROVE  FinalResponse(u, s) \in Responses
<1>1. s.utt_translations \in Seq(SUBSET Utts) /\ s.utterance_id \in Nat  BY DEF SessionType
<1>2. s.utt_translations[Len(s.utt_translations)] \in SUBSET Utts  BY <1>1
<1>3. is_forced(u) \in BOOLEAN  BY DEF is_forced
<1> DEFINE of == s.utt_translations[Len(s.utt_translations)]
<1> DEFINE forced == is_forced(u)
<1>4. FinalResponse(u, s) = [update |-> u, error |-> FALSE, utterance_id |-> s.utterance_id,
                             forced_final |-> forced, final |-> TRUE, of |-> of]
  BY DEF FinalResponse
<1> HIDE DEF of, forced
<1>5. of \in SUBSET Utts /\ forced \in BOOLEAN  BY <1>2, <1>3 DEF of, forced
<1> QED  BY <1>1, <1>4, <1>5 DEF Responses

(* Every call on the executor keeps the invariant. *)
LEMMA ExecutorInv == ASSUME IndInv, NEW c \in Conns, ExecutorNext(c) PROVE IndInv'
<1> DEFINE u == current[c]
<1> DEFINE old == session[c]
<1> DEFINE f == finalize_utterance(old, u)
<1>1. consumer[c] = "submitted"  BY DEF ExecutorNext, WorkFinal, WorkPartial, WorkFails
<1>2. /\ u \in Updates /\ old \in SessionType /\ faults \in Nat
      /\ Len(old.utt_translations) <= Len(old.utt_sources)
      /\ Len(old.utt_translations) \in Nat /\ Len(old.utt_sources) \in Nat
  <2>1. u \in Updates  BY <1>1 DEF IndInv, ConsumerTyped
  <2>2. /\ old \in SessionType /\ faults \in Nat
        /\ Len(old.utt_translations) <= Len(old.utt_sources)
    BY DEF IndInv, SessionTyped
  <2> QED  BY <2>1, <2>2 DEF SessionType
<1>3. /\ f \in SessionType /\ Len(f.utt_translations) = Len(old.utt_translations)
      /\ Len(f.utt_sources) = Len(old.utt_sources) + 1
  BY <1>2, FinalizeTyped
<1>4. CASE WorkFinal(c)
  <2> DEFINE s == sync_committed_translations(f, Pending(f))
  <2> DEFINE t == [s EXCEPT !.utterance_id = @ + 1]
  <2> DEFINE r == FinalResponse(u, s)
  <2>1. Respond(c, t, r) /\ faults' = faults  BY <1>4 DEF WorkFinal
  <2>2. Pending(f) \in 0 .. Pending(f)  BY <1>2, <1>3 DEF Pending
  <2> HIDE DEF f, old, u
  <2>3. /\ s \in SessionType /\ s.utt_sources = f.utt_sources
        /\ Len(s.utt_translations) = Len(f.utt_translations) + Pending(f)
    BY <1>2, <1>3, <2>2, SyncTyped
  <2> HIDE DEF s
  <2>4. Len(s.utt_translations) = Len(s.utt_sources) /\ Len(s.utt_translations) >= 1
    BY <1>2, <1>3, <2>3 DEF Pending
  <2>5. r \in Responses  BY <1>2, <2>3, <2>4, FinalResponseTyped
  <2>6. t \in SessionType /\ Len(t.utt_translations) <= Len(t.utt_sources)
    <3>1. s.utterance_id + 1 \in Nat  BY <2>3 DEF SessionType
    <3>2. t \in SessionType  BY <2>3, <3>1 DEF SessionType
    <3>3. t.utt_translations = s.utt_translations /\ t.utt_sources = s.utt_sources
      BY <2>3 DEF SessionType
    <3>4. Len(s.utt_sources) \in Nat  BY <2>3 DEF SessionType
    <3> QED  BY <2>4, <3>2, <3>3, <3>4
  <2> HIDE DEF t, r
  <2> QED  BY <1>1, <1>2, <2>1, <2>5, <2>6, RespondInv
<1>5. CASE WorkPartial(c)
  <2> DEFINE s == sync_committed_translations(old, Pending(old))
  <2>1. PICK t \in RenderedPartials(s, u) :
          Respond(c, t, [update |-> u, error |-> FALSE, utterance_id |-> t.utterance_id,
                         forced_final |-> FALSE, final |-> FALSE, of |-> t.accepted])
    BY <1>5 DEF WorkPartial
  <2>2. Pending(old) \in 0 .. Pending(old)  BY <1>2 DEF Pending
  <2> HIDE DEF old, u
  <2>3. /\ s \in SessionType /\ s.utt_sources = old.utt_sources
        /\ Len(s.utt_translations) = Len(old.utt_translations) + Pending(old)
    BY <1>2, <2>2, SyncTyped
  <2> HIDE DEF s
  <2>4. u.utt \in Utts  BY <1>2 DEF Updates
  <2>5. t \in SessionType /\ Len(t.utt_translations) <= Len(t.utt_sources)
    <3>1. t = s \/ t = [s EXCEPT !.accepted = s.accepted \cup {u.utt}]
      BY <2>1 DEF RenderedPartials
    <3>2. Len(s.utt_translations) <= Len(s.utt_sources)  BY <1>2, <2>3 DEF Pending
    <3> QED  BY <2>3, <2>4, <3>1, <3>2 DEF SessionType
  <2> DEFINE r == [update |-> u, error |-> FALSE, utterance_id |-> t.utterance_id,
                   forced_final |-> FALSE, final |-> FALSE, of |-> t.accepted]
  <2>6. r \in Responses  BY <1>2, <2>5 DEF Responses, SessionType
  <2>7. Respond(c, t, r) /\ faults' = faults  BY <1>5, <2>1 DEF WorkPartial
  <2> HIDE DEF r
  <2> QED  BY <1>1, <1>2, <2>5, <2>6, <2>7, RespondInv
<1>6. CASE WorkFails(c)
  <2> DEFINE g == IF u.is_final \/ is_forced(u) THEN f ELSE old
  <2>1. \/ Respond(c, old, NoReply(u))
        \/ \E k \in 0 .. Pending(g) : Respond(c, sync_committed_translations(g, k), NoReply(u))
    BY <1>6 DEF WorkFails
  <2>2. faults' \in Nat  BY <1>2, <1>6 DEF WorkFails
  <2> HIDE DEF f, old, u
  <2>3. g \in SessionType /\ Len(g.utt_translations) <= Len(g.utt_sources)  BY <1>2, <1>3
  <2>4. NoReply(u) \in Responses  BY <1>2, ErrorTyped
  <2> HIDE DEF g
  <2>5. CASE Respond(c, old, NoReply(u))
    BY <1>1, <1>2, <2>2, <2>4, <2>5, RespondInv DEF old
  <2>6. ASSUME NEW k \in 0 .. Pending(g),
               Respond(c, sync_committed_translations(g, k), NoReply(u))
        PROVE  IndInv'
    <3> DEFINE s == sync_committed_translations(g, k)
    <3>1. /\ s \in SessionType /\ s.utt_sources = g.utt_sources
          /\ Len(s.utt_translations) = Len(g.utt_translations) + k
          /\ Len(g.utt_translations) + k <= Len(g.utt_sources)
      BY <2>3, SyncTyped
    <3>2. Respond(c, s, NoReply(u))  BY <2>6
    <3> HIDE DEF s
    <3>3. Len(s.utt_translations) <= Len(s.utt_sources)  BY <3>1
    <3> QED  BY <1>1, <2>2, <2>4, <3>1, <3>2, <3>3, RespondInv
  <2> QED  BY <2>1, <2>5, <2>6
<1> QED  BY <1>4, <1>5, <1>6 DEF ExecutorNext

-----------------------------------------------------------------------------
(* A step in which nothing happens keeps every part. *)
LEMMA Stutter == IndInv /\ UNCHANGED vars => IndInv'
BY Frame DEF IndInv, vars, clientVars, mailboxVars, workVars

(* The invariant holds in every reachable state of the server. *)
THEOREM Invariance == Spec => []IndInv
<1>1. Init => IndInv  BY InitInv
<1>2. IndInv /\ [Next]_vars => IndInv'
  <2> SUFFICES ASSUME IndInv, [Next]_vars PROVE IndInv'  OBVIOUS
  <2>1. CASE UNCHANGED vars  BY <2>1, Stutter
  <2>2. CASE Next
    <3>1. PICK c \in Conns :
            ClientNext(c) \/ ReaderNext(c) \/ ConsumerNext(c) \/ ExecutorNext(c)
      BY <2>2 DEF Next
    <3> QED  BY <3>1, ClientInv, ReaderInv, ConsumerInv, ExecutorInv
  <2> QED  BY <2>1, <2>2
<1> QED  BY <1>1, <1>2, PTL DEF Spec

(* The records and queues of mt_server.py keep their types. *)
THEOREM TypeCorrect == Spec => []TypeOK
<1>1. IndInv => TypeOK
  <2>1. ClientTyped => /\ phase \in [Conns -> {"off", "open", "closed", "refused"}]
                       /\ client \in [Conns -> [utt : Nat, words : 0 .. MaxWords,
                            seq : 0 .. MaxFrames, waiting : BOOLEAN, paced : BOOLEAN]]
    BY DEF ClientTyped, Phases, ClientType
  <2> QED  BY <2>1 DEF IndInv, TypeOK, ClientTyped, Slots, MailboxTyped, ConsumerTyped,
                       SessionTyped, SessionType, Queued
<1> QED  BY <1>1, Invariance, PTL

(* UpdateMailbox: every final the reader put is processed once and in order, none is lost
   to a partial, to another final or to the end of the connection while it waits. *)
THEOREM StickyFinals == Spec => []FinalsSticky
<1>1. IndInv => FinalsSticky  BY DEF IndInv
<1> QED  BY <1>1, Invariance, PTL

(* UpdateMailbox.get: the consumer never waits while the mailbox has something for it. *)
THEOREM NoWakeupLost == Spec => []NoLostWakeup
<1>1. IndInv => NoLostWakeup  BY DEF IndInv
<1> QED  BY <1>1, Invariance, PTL

(* serve_mt: the counter is the number of connections being handled, and is bounded. *)
THEOREM SlotsCounted == Spec => []SlotAccounting
<1>1. IndInv => SlotAccounting  BY DEF IndInv, Slots
<1> QED  BY <1>1, Invariance, PTL

(* The executor has at most one call of a session, the one its consumer awaits. *)
THEOREM OneCall == Spec => []OneCallPerSession
<1>1. IndInv => OneCallPerSession  BY DEF IndInv, Queued
<1> QED  BY <1>1, Invariance, PTL

-----------------------------------------------------------------------------
(* The order of partials, from a second invariant on top of the first: LatestPartialWins,
   of one connection. *)
Latest(c) ==
  /\ latest_partial[c] # NoUpdate => latest_partial[c].seq > done_partial[c]
  /\ consumer[c] = "submitted" /\ ~current[c].is_final =>
       /\ current[c].seq > done_partial[c]
       /\ latest_partial[c] # NoUpdate => latest_partial[c].seq > current[c].seq

(* A client numbers its frames upwards: what is on the wire is in order, and newer than
   every partial the server has. *)
WireOrder(c) ==
  /\ \A i \in 1 .. Len(wire[c]) : wire[c][i].kind = "update" =>
       Offered(c) < wire[c][i].seq /\ wire[c][i].seq <= client[c].seq
  /\ \A i, j \in 1 .. Len(wire[c]) :
       i < j /\ wire[c][i].kind = "update" /\ wire[c][j].kind = "update"
         => wire[c][i].seq < wire[c][j].seq

(* A consumer that has not ended is one the reader serves or waits for. *)
Awake(c) ==
  consumer[c] \in {"ready", "waiting", "submitted", "sending"}
    => reader[c] \in {"reading", "draining"}

Ordered(c) == Latest(c) /\ Offered(c) <= client[c].seq /\ WireOrder(c) /\ Awake(c)
OrderInv == \A c \in Conns : Ordered(c)

(* A step that does not concern the order of d's partials. *)
Apart(d) ==
  /\ wire'[d] = wire[d] /\ client'[d].seq = client[d].seq
  /\ latest_partial'[d] = latest_partial[d] /\ done_partial'[d] = done_partial[d]
  /\ consumer'[d] = consumer[d] /\ current'[d] = current[d] /\ reader'[d] = reader[d]

LEMMA ApartKept ==
  ASSUME NEW d \in Conns, Ordered(d), Apart(d)
  PROVE  Ordered(d)'
<1>1. Offered(d)' = Offered(d)  BY DEF Apart, Offered
<1>2. Latest(d)' /\ Awake(d)'  BY DEF Apart, Ordered, Latest, Awake
<1>3. WireOrder(d)'  BY <1>1 DEF Apart, Ordered, WireOrder
<1> QED  BY <1>1, <1>2, <1>3 DEF Apart, Ordered

(* Every handler concerns one connection. *)
LEMMA StepKept ==
  ASSUME OrderInv, NEW c \in Conns, \A d \in Conns : d # c => Apart(d), Ordered(c)'
  PROVE  OrderInv'
BY ApartKept DEF OrderInv

(* The types the order is about. *)
LEMMA Numbers ==
  ASSUME IndInv, NEW c \in Conns
  PROVE  /\ client[c].seq \in 0 .. MaxFrames /\ done_partial[c] \in 0 .. MaxFrames
         /\ Offered(c) \in 0 .. MaxFrames /\ wire[c] \in Seq(Frames)
         /\ \A i \in 1 .. Len(wire[c]) : wire[c][i].kind = "update" => wire[c][i] \in Updates
<1>1. client[c].seq \in 0 .. MaxFrames /\ wire[c] \in Seq(Frames)
  BY DEF IndInv, ClientTyped, ClientType
<1>2. done_partial[c] \in 0 .. MaxFrames  BY DEF IndInv, SessionTyped
<1>3. \A u \in Updates : u.seq \in 0 .. MaxFrames  BY MTServerAssumption DEF Updates
<1>4. Offered(c) \in 0 .. MaxFrames
  BY <1>2, <1>3 DEF Offered, IndInv, MailboxTyped, ConsumerTyped
<1>5. ASSUME NEW i \in 1 .. Len(wire[c]), wire[c][i].kind = "update"
      PROVE  wire[c][i] \in Updates
  <2>1. wire[c][i] \in Frames  BY <1>1
  <2> QED  BY <1>5, <2>1 DEF Frames
<1> QED  BY <1>1, <1>2, <1>4, <1>5

(* Reading a frame keeps the order of the rest; so does raising what was offered up to
   the number of the frame that is read. *)
LEMMA WireRead ==
  ASSUME IndInv, NEW c \in Conns, Ordered(c), wire[c] # <<>>, wire'[c] = Tail(wire[c]),
         client'[c].seq = client[c].seq,
         Offered(c)' = Offered(c)
           \/ (Head(wire[c]).kind = "update" /\ Offered(c)' = Head(wire[c]).seq)
  PROVE  WireOrder(c)'
<1> DEFINE w == wire[c]
<1>1. w \in Seq(Frames) /\ w # <<>>  BY Numbers
<1>2. /\ Len(Tail(w)) = Len(w) - 1 /\ Head(w) = w[1] /\ Len(w) \in Nat /\ 1 \in 1 .. Len(w)
      /\ \A i \in 1 .. Len(Tail(w)) : i + 1 \in 1 .. Len(w) /\ Tail(w)[i] = w[i + 1]
  BY <1>1
<1>3. /\ \A i \in 1 .. Len(w) : w[i].kind = "update" =>
           Offered(c) < w[i].seq /\ w[i].seq <= client[c].seq
      /\ \A i, j \in 1 .. Len(w) : i < j /\ w[i].kind = "update" /\ w[j].kind = "update"
           => w[i].seq < w[j].seq
  BY DEF Ordered, WireOrder
<1> DEFINE t == Tail(w)
<1>4. /\ wire'[c] = t /\ Len(t) = Len(w) - 1
      /\ \A i \in 1 .. Len(t) : i + 1 \in 1 .. Len(w) /\ t[i] = w[i + 1]
  BY <1>2
<1>5. Offered(c)' = Offered(c) \/ (w[1].kind = "update" /\ Offered(c)' = w[1].seq)
  BY <1>2
<1> HIDE DEF w, t
<1>6. ASSUME NEW i \in 1 .. Len(t), t[i].kind = "update"
      PROVE  Offered(c)' < t[i].seq /\ t[i].seq <= client'[c].seq
  <2>1. i + 1 \in 1 .. Len(w) /\ t[i] = w[i + 1] /\ 1 < i + 1  BY <1>4
  <2>2. Offered(c) < w[i + 1].seq /\ w[i + 1].seq <= client[c].seq  BY <1>3, <1>6, <2>1
  <2>3. w[1].kind = "update" => w[1].seq < w[i + 1].seq  BY <1>2, <1>3, <1>6, <2>1
  <2> QED  BY <1>5, <2>1, <2>2, <2>3
<1>7. ASSUME NEW i \in 1 .. Len(t), NEW j \in 1 .. Len(t), i < j,
             t[i].kind = "update", t[j].kind = "update"
      PROVE  t[i].seq < t[j].seq
  <2>1. i + 1 < j + 1 /\ i + 1 \in 1 .. Len(w) /\ j + 1 \in 1 .. Len(w)  BY <1>4, <1>7
  <2>2. t[i] = w[i + 1] /\ t[j] = w[j + 1]  BY <1>4
  <2> QED  BY <1>3, <1>7, <2>1, <2>2
<1> QED  BY <1>4, <1>6, <1>7 DEF WireOrder

(* A frame the client sends is newer than what it sent before. *)
LEMMA WireSent ==
  ASSUME IndInv, NEW c \in Conns, Ordered(c), NEW f \in Frames,
         f.kind = "update" => f.seq = client[c].seq + 1,
         wire'[c] = Append(wire[c], f), client'[c].seq = client[c].seq + 1,
         Offered(c)' = Offered(c)
  PROVE  WireOrder(c)' /\ Offered(c)' <= client'[c].seq
<1> DEFINE w == wire[c]
<1> DEFINE t == Append(w, f)
<1>1. w \in Seq(Frames) /\ client[c].seq \in Nat /\ Offered(c) \in Nat
  BY Numbers, MTServerAssumption
<1>2. /\ Len(t) = Len(w) + 1 /\ t[Len(t)] = f /\ Len(w) \in Nat
      /\ \A i \in 1 .. Len(t) : i # Len(t) => i \in 1 .. Len(w) /\ t[i] = w[i]
  BY <1>1
<1>3. /\ \A i \in 1 .. Len(w) : w[i].kind = "update" =>
           Offered(c) < w[i].seq /\ w[i].seq <= client[c].seq
      /\ \A i, j \in 1 .. Len(w) : i < j /\ w[i].kind = "update" /\ w[j].kind = "update"
           => w[i].seq < w[j].seq
      /\ Offered(c) <= client[c].seq
  BY DEF Ordered, WireOrder
<1>4. \A i \in 1 .. Len(w) : w[i].kind = "update" => w[i].seq \in Nat
  BY Numbers DEF Updates
<1>5. wire'[c] = t  OBVIOUS
<1> HIDE DEF w, t
<1>6. ASSUME NEW i \in 1 .. Len(t), t[i].kind = "update"
      PROVE  Offered(c)' < t[i].seq /\ t[i].seq <= client'[c].seq
  BY <1>1, <1>2, <1>3, <1>4, <1>6
<1>7. ASSUME NEW i \in 1 .. Len(t), NEW j \in 1 .. Len(t), i < j,
             t[i].kind = "update", t[j].kind = "update"
      PROVE  t[i].seq < t[j].seq
  <2>1. i # Len(t) /\ i \in 1 .. Len(w) /\ t[i] = w[i]  BY <1>2, <1>7
  <2>2. CASE j = Len(t)
    <3>1. t[j].seq = client[c].seq + 1 /\ t[i].seq <= client[c].seq /\ t[i].seq \in Nat
      BY <1>2, <1>3, <1>4, <1>7, <2>1, <2>2
    <3> QED  BY <1>1, <3>1
  <2>3. CASE j # Len(t)  BY <1>2, <1>3, <1>7, <2>1, <2>3
  <2> QED  BY <2>2, <2>3
<1> QED  BY <1>1, <1>3, <1>5, <1>6, <1>7 DEF WireOrder

-----------------------------------------------------------------------------
(* The client: only what it sends touches the order, and then its wire. *)
LEMMA ClientOrder == ASSUME IndInv, OrderInv, NEW c \in Conns, ClientNext(c) PROVE OrderInv'
<1>0. Ordered(c)  BY DEF OrderInv
<1>a. /\ wire \in [Conns -> Seq(Frames)] /\ client \in [Conns -> ClientType]
      /\ reader \in [Conns -> {"absent", "reading", "initializing", "draining", "gone"}]
  BY DEF IndInv, ClientTyped, Slots
<1>b. /\ client[c].seq \in 0 .. MaxFrames
      /\ client[c] = [utt |-> client[c].utt, words |-> client[c].words, seq |-> client[c].seq,
                      waiting |-> client[c].waiting, paced |-> client[c].paced]
  BY <1>a DEF ClientType
<1>1. ASSUME NEW f \in Frames, f.kind = "update" => f.seq = client[c].seq + 1,
             wire' = [wire EXCEPT ![c] = Append(wire[c], f)],
             NEW k, client' = [client EXCEPT ![c] = k], k.seq = client[c].seq + 1,
             UNCHANGED <<reader, latest_partial, consumer, current, done_partial>>
      PROVE  OrderInv'
  <2>1. \A d \in Conns : d # c => Apart(d)  BY <1>1, <1>a DEF Apart
  <2>2. Offered(c)' = Offered(c)  BY <1>1 DEF Offered
  <2>3. wire'[c] = Append(wire[c], f) /\ client'[c].seq = client[c].seq + 1  BY <1>1, <1>a
  <2>4. WireOrder(c)' /\ Offered(c)' <= client'[c].seq  BY <1>0, <1>1, <2>2, <2>3, WireSent
  <2>5. Latest(c)' /\ Awake(c)'  BY <1>0, <1>1 DEF Ordered, Latest, Awake
  <2> QED  BY <2>1, <2>4, <2>5, StepKept DEF Ordered
<1>2. ASSUME NEW words \in 1 .. MaxWords, NEW is_final \in BOOLEAN,
             SendUpdate(c, words, is_final)
      PROVE  OrderInv'
  <2> DEFINE f == [kind |-> "update", seq |-> client[c].seq + 1, utt |-> client[c].utt,
                   words |-> words, is_final |-> is_final]
  <2> DEFINE k == [utt |-> IF is_final THEN client[c].utt + 1 ELSE client[c].utt,
                   words |-> IF is_final THEN 0 ELSE words,
                   seq |-> client[c].seq + 1, waiting |-> TRUE,
                   paced |-> client[c].paced /\ ~client[c].waiting]
  <2>1. client[c].utt \in Utts
    BY <1>2, <1>a, MTServerAssumption DEF SendUpdate, Utts, ClientType
  <2>2. f \in Frames
    BY <1>2, <1>b, <2>1, MTServerAssumption DEF SendUpdate, Frames, Updates
  <2>3. /\ wire' = [wire EXCEPT ![c] = Append(wire[c], f)]
        /\ client' = [client EXCEPT ![c] = k]
        /\ UNCHANGED <<reader, latest_partial, consumer, current, done_partial>>
    BY <1>2 DEF SendUpdate, mailboxVars, workVars
  <2>4. f.seq = client[c].seq + 1 /\ k.seq = client[c].seq + 1  OBVIOUS
  <2> HIDE DEF f, k
  <2> QED  BY <1>1, <2>2, <2>3, <2>4
<1>3. ASSUME NEW kind \in {"init", "bad_init", "junk"}, SendOther(c, kind)
      PROVE  OrderInv'
  <2> DEFINE f == [kind |-> kind]
  <2> DEFINE k == [client[c] EXCEPT !.seq = client[c].seq + 1]
  <2>1. f \in Frames /\ f.kind # "update"  BY DEF Frames
  <2>2. /\ wire' = [wire EXCEPT ![c] = Append(wire[c], f)]
        /\ client' = [client EXCEPT ![c] = k]
        /\ UNCHANGED <<reader, latest_partial, consumer, current, done_partial>>
    BY <1>3, <1>a DEF SendOther, mailboxVars, workVars
  <2>3. k.seq = client[c].seq + 1  BY <1>b
  <2> HIDE DEF f, k
  <2> QED  BY <1>1, <2>1, <2>2, <2>3
<1>4. CASE Connect(c) \/ Disconnect(c) \/ ReceiveReply(c)
  <2>1. /\ UNCHANGED <<wire, latest_partial, consumer, current, done_partial>>
        /\ \A d \in Conns : client'[d].seq = client[d].seq
    <3>1. CASE ReceiveReply(c)
      <4>1. client' = [client EXCEPT ![c] = AfterReply(client[c], Head(replies[c]))]
        BY <3>1 DEF ReceiveReply
      <4>2. AfterReply(client[c], Head(replies[c])).seq = client[c].seq
        BY <1>b DEF AfterReply
      <4> QED  BY <1>a, <3>1, <4>1, <4>2 DEF ReceiveReply, mailboxVars, workVars
    <3>2. CASE Connect(c) \/ Disconnect(c)
      BY <3>2 DEF Connect, Disconnect, mailboxVars, workVars
    <3> QED  BY <1>4, <3>1, <3>2
  <2>2. \A d \in Conns : reader'[d] = reader[d] \/ (d = c /\ reader'[d] = "reading")
    BY <1>4, <1>a DEF Connect, Disconnect, ReceiveReply
  <2>3. \A d \in Conns : d # c => Apart(d)  BY <2>1, <2>2 DEF Apart
  <2>4. Offered(c)' = Offered(c)  BY <2>1 DEF Offered
  <2>5. Latest(c)' /\ Awake(c)'  BY <1>0, <2>1, <2>2 DEF Ordered, Latest, Awake
  <2>6. WireOrder(c)'  BY <1>0, <2>1, <2>4 DEF Ordered, WireOrder
  <2>7. Offered(c)' <= client'[c].seq  BY <1>0, <2>1, <2>4 DEF Ordered
  <2> QED  BY <2>3, <2>5, <2>6, <2>7, StepKept DEF Ordered
<1> QED  BY <1>2, <1>3, <1>4 DEF ClientNext

(* A step that offers nothing new, and may read one frame. *)
LEMMA Settled ==
  ASSUME IndInv, OrderInv, NEW c \in Conns, \A d \in Conns : d # c => Apart(d),
         client'[c].seq = client[c].seq, Offered(c)' = Offered(c),
         wire'[c] = wire[c] \/ (wire[c] # <<>> /\ wire'[c] = Tail(wire[c])),
         Latest(c)', Awake(c)'
  PROVE  OrderInv'
<1>1. Ordered(c)  BY DEF OrderInv
<1>2. CASE wire'[c] = wire[c]
  <2>1. WireOrder(c)'  BY <1>1, <1>2 DEF Ordered, WireOrder
  <2> QED  BY <1>1, <2>1, StepKept DEF Ordered
<1>3. CASE wire[c] # <<>> /\ wire'[c] = Tail(wire[c])
  <2>1. WireOrder(c)'  BY <1>1, <1>3, WireRead
  <2> QED  BY <1>1, <2>1, StepKept DEF Ordered
<1> QED  BY <1>2, <1>3

(* The reader: an update it reads is newer than what was offered. *)
LEMMA ReaderOrder == ASSUME IndInv, OrderInv, NEW c \in Conns, ReaderNext(c) PROVE OrderInv'
<1>0. Ordered(c)  BY DEF OrderInv
<1>a. /\ wire \in [Conns -> Seq(Frames)]
      /\ reader \in [Conns -> {"absent", "reading", "initializing", "draining", "gone"}]
      /\ latest_partial \in [Conns -> Updates \cup {NoUpdate}]
      /\ consumer \in [Conns -> {"none", "ready", "waiting", "submitted", "sending", "done"}]
  BY DEF IndInv, ClientTyped, Slots, MailboxTyped, ConsumerTyped
<1>n. /\ Offered(c) \in Nat /\ done_partial[c] \in Nat
      /\ latest_partial[c] # NoUpdate => latest_partial[c].seq \in Nat
      /\ consumer[c] = "submitted" => current[c].seq \in Nat
  BY <1>a, Numbers DEF IndInv, ConsumerTyped, Updates
<1>1. CASE ReadUpdate(c)
  <2> DEFINE u == Head(wire[c])
  <2>1. u \in Updates /\ wire[c] # <<>> /\ u.kind = "update"
    BY <1>1, HeadUpdate DEF IndInv, ReadUpdate, Reading
  <2>2. /\ wire' = [wire EXCEPT ![c] = Tail(wire[c])]
        /\ latest_partial' = [latest_partial EXCEPT ![c] = IF u.is_final THEN @ ELSE u]
        /\ UNCHANGED <<client, reader, consumer, current, done_partial>>
    BY <1>1 DEF ReadUpdate, NextFrame, put, workVars
  <2>3. \A d \in Conns : d # c => Apart(d)  BY <1>a, <2>2 DEF Apart
  <2>4. wire'[c] = Tail(wire[c]) /\ client'[c].seq = client[c].seq  BY <1>a, <2>2
  <2>5. u = wire[c][1] /\ 1 \in 1 .. Len(wire[c])  BY <1>a, <2>1
  <2>6. Offered(c) < u.seq /\ u.seq <= client[c].seq
    BY <1>0, <2>1, <2>5 DEF Ordered, WireOrder
  <2> HIDE DEF u
  <2>7. CASE u.is_final
    <3>1. latest_partial'[c] = latest_partial[c]  BY <1>a, <2>2, <2>7
    <3>2. Offered(c)' = Offered(c)  BY <2>2, <3>1 DEF Offered
    <3>3. Latest(c)' /\ Awake(c)'  BY <1>0, <2>2, <3>1 DEF Ordered, Latest, Awake
    <3>4. WireOrder(c)'  BY <1>0, <2>1, <2>4, <3>2, WireRead
    <3> QED  BY <1>0, <2>3, <2>4, <3>2, <3>3, <3>4, StepKept DEF Ordered
  <2>8. CASE ~u.is_final
    <3>1. latest_partial'[c] = u /\ u # NoUpdate
      BY <1>a, <2>1, <2>2, <2>8, NoneAssumption
    <3>2. Offered(c)' = u.seq  BY <3>1 DEF Offered
    <3>3. Latest(c)'
      <4>1. done_partial[c] < u.seq  BY <1>0, <1>n, <2>1, <2>6 DEF Ordered, Latest, Offered, Updates
      <4>2. consumer[c] = "submitted" /\ ~current[c].is_final => current[c].seq < u.seq
        BY <1>0, <1>n, <2>1, <2>6 DEF Ordered, Latest, Offered, Updates
      <4>3. done_partial'[c] = done_partial[c] /\ current'[c] = current[c]
            /\ consumer'[c] = consumer[c]
        BY <2>2
      <4> QED  BY <1>0, <3>1, <4>1, <4>2, <4>3 DEF Latest, Ordered
    <3>4. Awake(c)'  BY <1>0, <2>2 DEF Ordered, Awake
    <3>5. WireOrder(c)'
      <4>1. u.kind = "update" /\ Offered(c)' = u.seq  BY <2>1, <3>2
      <4> QED  BY <1>0, <2>1, <2>4, <4>1, WireRead DEF u
    <3> QED  BY <2>3, <2>4, <2>6, <3>2, <3>3, <3>4, <3>5, StepKept DEF Ordered
  <2> QED  BY <2>7, <2>8
<1>2. CASE ReadInit(c) \/ InitSent(c)
  <2>1. /\ UNCHANGED <<client, latest_partial, current, done_partial>>
        /\ UNCHANGED wire \/ (wire[c] # <<>> /\ wire' = [wire EXCEPT ![c] = Tail(wire[c])])
    BY <1>2 DEF ReadInit, InitSent, Reading, NextFrame, clientVars, mailboxVars, workVars
  <2>2. /\ consumer[c] = "none"
        /\ \/ reader[c] = "reading" /\ reader' = [reader EXCEPT ![c] = "initializing"]
              /\ UNCHANGED consumer
           \/ reader' = [reader EXCEPT ![c] = "reading"]
              /\ consumer' = [consumer EXCEPT ![c] = "ready"]
    BY <1>2 DEF ReadInit, InitSent, Reading, initialized, IndInv, NotYetConsuming
  <2>3. \A d \in Conns : d # c => Apart(d)  BY <1>a, <2>1, <2>2 DEF Apart
  <2>4. Offered(c)' = Offered(c)  BY <1>a, <2>1, <2>2 DEF Offered
  <2>5. Latest(c)' /\ Awake(c)'  BY <1>0, <1>a, <2>1, <2>2 DEF Ordered, Latest, Awake
  <2>6. wire'[c] = wire[c] \/ (wire[c] # <<>> /\ wire'[c] = Tail(wire[c]))  BY <1>a, <2>1
  <2> QED  BY <2>1, <2>3, <2>4, <2>5, <2>6, Settled
<1>3. CASE ReadRejected(c) \/ ReadBadInit(c) \/ ReaderEnds(c) \/ ReaderJoins(c)
  <2>1. /\ UNCHANGED <<client, latest_partial, consumer, current, done_partial>>
        /\ UNCHANGED wire \/ (wire[c] # <<>> /\ wire' = [wire EXCEPT ![c] = Tail(wire[c])])
    BY <1>3 DEF ReadRejected, Rejected, ReadBadInit, ReaderEnds, ReaderJoins, Reading,
                NextFrame, mailboxVars, workVars
  <2>2. \/ UNCHANGED reader
        \/ reader' = [reader EXCEPT ![c] = "draining"]
        \/ reader' = [reader EXCEPT ![c] = "gone"] /\ consumer[c] \in {"none", "done"}
    BY <1>3 DEF ReadRejected, ReadBadInit, ReaderEnds, ReaderJoins, Leave, initialized
  <2>3. \A d \in Conns : d # c => Apart(d)  BY <1>a, <2>1, <2>2 DEF Apart
  <2>4. Offered(c)' = Offered(c)  BY <2>1 DEF Offered
  <2>5. Latest(c)' /\ Awake(c)'  BY <1>0, <1>a, <2>1, <2>2 DEF Ordered, Latest, Awake
  <2>6. wire'[c] = wire[c] \/ (wire[c] # <<>> /\ wire'[c] = Tail(wire[c]))  BY <1>a, <2>1
  <2> QED  BY <2>1, <2>3, <2>4, <2>5, <2>6, Settled
<1> QED  BY <1>1, <1>2, <1>3 DEF ReaderNext

(* The consumer: a partial it takes is the newest offered and stays so until it is
   processed. *)
LEMMA ConsumerOrder == ASSUME IndInv, OrderInv, NEW c \in Conns, ConsumerNext(c) PROVE OrderInv'
<1>0. Ordered(c)  BY DEF OrderInv
<1>a. /\ latest_partial \in [Conns -> Updates \cup {NoUpdate}]
      /\ current \in [Conns -> Updates \cup {NoUpdate}]
      /\ consumer \in [Conns -> {"none", "ready", "waiting", "submitted", "sending", "done"}]
      /\ \A u \in Updates : u.seq \in Nat
      /\ latest_partial[c] # NoUpdate => ~latest_partial[c].is_final
  BY DEF IndInv, MailboxTyped, ConsumerTyped, Updates
<1>1. /\ UNCHANGED <<wire, client, reader, done_partial>>
      /\ consumer[c] \in {"ready", "waiting", "sending"}
  BY DEF ConsumerNext, ConsumerGets, ConsumerSends, SendFails, clientVars, workVars
<1>2. \/ /\ finals[c] # <<>> /\ current' = [current EXCEPT ![c] = Head(finals[c])]
         /\ consumer' = [consumer EXCEPT ![c] = "submitted"] /\ UNCHANGED latest_partial
      \/ /\ latest_partial[c] # NoUpdate /\ current' = [current EXCEPT ![c] = latest_partial[c]]
         /\ consumer' = [consumer EXCEPT ![c] = "submitted"]
         /\ latest_partial' = [latest_partial EXCEPT ![c] = NoUpdate]
      \/ /\ UNCHANGED latest_partial
         /\ UNCHANGED current \/ current' = [current EXCEPT ![c] = NoUpdate]
         /\ \E to \in {"done", "waiting", "ready"} : consumer' = [consumer EXCEPT ![c] = to]
  BY DEF ConsumerNext, ConsumerGets, ConsumerSends, SendFails, Take, ReturnPartial, mailboxVars
<1>3. \A d \in Conns : d # c => Apart(d)  BY <1>a, <1>1, <1>2 DEF Apart
<1>4. finals[c] # <<>> => Head(finals[c]).is_final
  <2>1. finals[c] \in Seq(Updates) /\ \A i \in 1 .. Len(finals[c]) : finals[c][i].is_final
    BY DEF IndInv, MailboxTyped
  <2>2. finals[c] # <<>> => Head(finals[c]) = finals[c][1] /\ 1 \in 1 .. Len(finals[c])
    BY <2>1
  <2> QED  BY <2>1, <2>2
<1>5. Offered(c)' = Offered(c)  BY <1>a, <1>1, <1>2, <1>4 DEF Offered
<1>6. Latest(c)'  BY <1>0, <1>a, <1>1, <1>2, <1>4 DEF Ordered, Latest
<1>7. Awake(c)'  BY <1>0, <1>a, <1>1, <1>2 DEF Ordered, Awake
<1> QED  BY <1>1, <1>3, <1>5, <1>6, <1>7, Settled

(* The executor: the partial it processes was the newest offered. *)
LEMMA ExecutorOrder == ASSUME IndInv, OrderInv, NEW c \in Conns, ExecutorNext(c) PROVE OrderInv'
<1>0. Ordered(c)  BY DEF OrderInv
<1>a. /\ consumer \in [Conns -> {"none", "ready", "waiting", "submitted", "sending", "done"}]
      /\ done_partial \in [Conns -> 0 .. MaxFrames]
  BY DEF IndInv, ConsumerTyped, SessionTyped
<1>1. /\ consumer[c] = "submitted" /\ consumer' = [consumer EXCEPT ![c] = "sending"]
      /\ UNCHANGED <<wire, client, reader, current, latest_partial>>
      /\ IF current[c].is_final
           THEN UNCHANGED done_partial
           ELSE done_partial' = [done_partial EXCEPT ![c] = current[c].seq]
  BY DEF ExecutorNext, WorkFinal, WorkPartial, WorkFails, Respond, clientVars, mailboxVars
<1>2. \A d \in Conns : d # c => Apart(d)  BY <1>a, <1>1 DEF Apart
<1>3. Offered(c)' = Offered(c)  BY <1>a, <1>1 DEF Offered
<1>4. Latest(c)'  BY <1>0, <1>a, <1>1 DEF Ordered, Latest
<1>5. Awake(c)'  BY <1>0, <1>a, <1>1 DEF Ordered, Awake
<1> QED  BY <1>1, <1>2, <1>3, <1>4, <1>5, Settled

-----------------------------------------------------------------------------
LEMMA InitOrder == Init => OrderInv
<1> SUFFICES ASSUME Init, NEW c \in Conns PROVE Ordered(c)  BY DEF OrderInv
<1>1. Len(wire[c]) = 0  BY DEF Init
<1>2. Offered(c) = 0 /\ client[c].seq = 0  BY DEF Init, Offered, NewClient
<1>3. Latest(c) /\ Awake(c)  BY DEF Init, Latest, Awake
<1>4. WireOrder(c)  BY <1>1 DEF WireOrder
<1> QED  BY <1>2, <1>3, <1>4 DEF Ordered

LEMMA NextOrder == IndInv /\ OrderInv /\ [Next]_vars => OrderInv'
<1> SUFFICES ASSUME IndInv, OrderInv, [Next]_vars PROVE OrderInv'  OBVIOUS
<1>1. CASE UNCHANGED vars
  <2>1. \A d \in Conns : Apart(d)
    BY <1>1 DEF vars, clientVars, mailboxVars, workVars, Apart
  <2> QED  BY <2>1, ApartKept DEF OrderInv
<1>2. CASE Next
  <2>1. PICK c \in Conns : ClientNext(c) \/ ReaderNext(c) \/ ConsumerNext(c) \/ ExecutorNext(c)
    BY <1>2 DEF Next
  <2> QED  BY <2>1, ClientOrder, ReaderOrder, ConsumerOrder, ExecutorOrder
<1> QED  BY <1>1, <1>2

(* What the server may rely on in every reachable state. *)
THEOREM OrderInvariance == Spec => [](IndInv /\ OrderInv)
<1>1. Init => IndInv /\ OrderInv  BY InitInv, InitOrder
<1>2. Spec => []IndInv  BY Invariance
<1>3. IndInv /\ OrderInv /\ [Next]_vars => OrderInv'  BY NextOrder
<1> QED  BY <1>1, <1>2, <1>3, PTL DEF Spec

(* UpdateMailbox and process_update: the partial that waits is newer than every partial
   rendered or being rendered, so a partial never undoes a newer one. *)
THEOREM PartialsLatest == Spec => []LatestPartialWins
<1>1. OrderInv => LatestPartialWins  BY DEF OrderInv, Ordered, Latest, LatestPartialWins
<1> QED  BY <1>1, OrderInvariance, PTL

-----------------------------------------------------------------------------
(* MTServer implements UpdateService: each step of a coroutine or of the executor is a
   step of the service or none.  The update a connection is being answered for: *)
Sending(c) == IF consumer[c] = "sending" THEN current[c].seq ELSE 0

OfferedAll == [c \in Conns |-> Offered(c)]
SendingAll == [c \in Conns |-> Sending(c)]

(* What the service knows of the queues. *)
QueuesKept == UNCHANGED <<put_finals, done_finals, done_partial>>

LEMMA Bars ==
  Service!vars = <<Handled, put_finals, done_finals, OfferedAll, done_partial, SendingAll>>
BY DEF Service!vars, OfferedAll, SendingAll, Sending

LEMMA OfferedKept ==
  ASSUME \A d \in Conns : Offered(d)' = Offered(d)
  PROVE  OfferedAll' = OfferedAll
BY DEF OfferedAll

LEMMA OfferedRaised ==
  ASSUME NEW c \in Conns, NEW n, Offered(c)' = n,
         \A d \in Conns : d # c => Offered(d)' = Offered(d)
  PROVE  OfferedAll' = [OfferedAll EXCEPT ![c] = n]
BY DEF OfferedAll

LEMMA SendingKept ==
  ASSUME \A d \in Conns : Sending(d)' = Sending(d)
  PROVE  SendingAll' = SendingAll
BY DEF SendingAll

LEMMA SendingSet ==
  ASSUME NEW c \in Conns, NEW n, Sending(c)' = n,
         \A d \in Conns : d # c => Sending(d)' = Sending(d)
  PROVE  SendingAll' = [SendingAll EXCEPT ![c] = n]
BY DEF SendingAll

(* A step the service does not see. *)
LEMMA Unseen ==
  ASSUME QueuesKept, Handled' = Handled, OfferedAll' = OfferedAll, SendingAll' = SendingAll
  PROVE  UNCHANGED Service!vars
BY Bars DEF Service!vars, QueuesKept, OfferedAll, SendingAll, Sending

LEMMA InitService == Init => Service!Init
<1> SUFFICES ASSUME Init PROVE Service!Init  OBVIOUS
<1>1. Handled = {}  BY DEF Init, Handled
<1>2. OfferedAll = [c \in Conns |-> 0]  BY DEF Init, OfferedAll, Offered
<1>3. SendingAll = [c \in Conns |-> 0]  BY DEF Init, SendingAll, Sending
<1> QED  BY <1>1, <1>2, <1>3 DEF Init, Service!Init, OfferedAll, SendingAll, Sending

(* The client: being let in opens a connection of the service. *)
LEMMA ClientService ==
  ASSUME IndInv, OrderInv, NEW c \in Conns, ClientNext(c)
  PROVE  [Service!Next]_(Service!vars)
<1>1. UNCHANGED <<latest_partial, consumer, current, put_finals, done_finals, done_partial>>
  BY DEF ClientNext, Connect, ReceiveReply, Disconnect, SendOther, SendUpdate, mailboxVars,
         workVars
<1>2. OfferedAll' = OfferedAll /\ SendingAll' = SendingAll
  BY <1>1 DEF OfferedAll, Offered, SendingAll, Sending
<1>3. CASE UNCHANGED reader
  <2>1. Handled' = Handled  BY <1>3 DEF Handled
  <2> QED  BY <1>1, <1>2, <2>1, Unseen DEF QueuesKept
<1>4. CASE ~UNCHANGED reader
  <2>1. Connect(c) /\ ~AtCapacity
    BY <1>4 DEF ClientNext, Connect, ReceiveReply, Disconnect, SendOther, SendUpdate
  <2>2. reader[c] = "absent" /\ reader' = [reader EXCEPT ![c] = "reading"]
    BY <2>1 DEF Connect, IndInv, Slots
  <2>3. c \notin Handled /\ Handled' = Handled \cup {c}
    BY <2>2 DEF Handled, IndInv, Slots
  <2>4. Cardinality(Handled) < MaxSessions
    BY <2>1, MTServerAssumption DEF AtCapacity, IndInv, Slots, SlotAccounting
  <2>5. Service!Cardinality(Handled) = Cardinality(Handled)
    BY Zenon DEF Service!Cardinality, Cardinality
  <2>6. Service!Open(c)
    BY <1>1, <1>2, <2>3, <2>4, <2>5 DEF Service!Open, OfferedAll, SendingAll, Sending
  <2> QED  BY <2>6 DEF Service!Next
<1> QED  BY <1>3, <1>4

(* The reader leaves: without a consumer, or after its end, nothing is being answered. *)
LEMMA LeaveService ==
  ASSUME IndInv, NEW c \in Conns, reader' = [reader EXCEPT ![c] = "gone"],
         reader[c] \in {"reading", "initializing", "draining"},
         consumer[c] \in {"none", "done"},
         UNCHANGED <<latest_partial, consumer, current, put_finals, done_finals, done_partial>>
  PROVE  [Service!Next]_(Service!vars)
<1>1. OfferedAll' = OfferedAll /\ SendingAll' = SendingAll
  BY DEF OfferedAll, Offered, SendingAll, Sending
<1>2. c \in Handled /\ Handled' = Handled \ {c}  BY DEF Handled, IndInv, Slots
<1>3. SendingAll[c] = 0  BY DEF SendingAll, Sending
<1>4. Service!Close(c)
  BY <1>1, <1>2, <1>3 DEF Service!Close, OfferedAll, SendingAll, Sending
<1> QED  BY <1>4 DEF Service!Next

(* The reader: an update it puts in the mailbox is accepted by the service. *)
LEMMA ReaderService ==
  ASSUME IndInv, OrderInv, NEW c \in Conns, ReaderNext(c)
  PROVE  [Service!Next]_(Service!vars)
<1>a. /\ reader \in [Conns -> {"absent", "reading", "initializing", "draining", "gone"}]
      /\ latest_partial \in [Conns -> Updates \cup {NoUpdate}]
      /\ consumer \in [Conns -> {"none", "ready", "waiting", "submitted", "sending", "done"}]
      /\ wire[c] \in Seq(Frames)
  BY DEF IndInv, ClientTyped, Slots, MailboxTyped, ConsumerTyped
<1>1. CASE ReadUpdate(c)
  <2>1. PICK u \in Updates : u = Head(wire[c])  BY <1>1, HeadUpdate DEF IndInv, ReadUpdate
  <2>2. /\ wire[c] # <<>> /\ u.kind = "update" /\ reader[c] = "reading"
        /\ UNCHANGED <<reader, consumer, current, done_finals, done_partial>>
        /\ put_finals' = [put_finals EXCEPT ![c] = IF u.is_final THEN Append(@, u) ELSE @]
        /\ latest_partial' = [latest_partial EXCEPT ![c] = IF u.is_final THEN @ ELSE u]
    BY <1>1, <2>1 DEF ReadUpdate, Reading, put, workVars
  <2>3. c \in Handled /\ Handled' = Handled /\ SendingAll' = SendingAll
    BY <2>2 DEF Handled, SendingAll, Sending
  <2>4. CASE u.is_final
    <3>1. /\ put_finals' = [put_finals EXCEPT ![c] = Append(@, u)]
          /\ latest_partial' = latest_partial
      BY <1>a, <2>2, <2>4
    <3>2. OfferedAll' = OfferedAll  BY <2>2, <3>1 DEF OfferedAll, Offered
    <3>3. Service!AcceptFinal(c, u)
      BY <2>2, <2>3, <3>1, <3>2
         DEF Service!AcceptFinal, OfferedAll, SendingAll, Sending
    <3> QED  BY <2>4, <3>3 DEF Service!Next
  <2>5. CASE ~u.is_final
    <3>1. put_finals' = put_finals
      BY <2>2, <2>5 DEF IndInv, MailboxTyped
    <3>2. latest_partial'[c] = u /\ u # NoUpdate
          /\ \A d \in Conns : d # c => latest_partial'[d] = latest_partial[d]
      BY <1>a, <2>2, <2>5, NoneAssumption
    <3>3. Offered(c)' = u.seq /\ \A d \in Conns : d # c => Offered(d)' = Offered(d)
      BY <2>2, <3>2 DEF Offered
    <3>4. OfferedAll' = [OfferedAll EXCEPT ![c] = u.seq]  BY <3>3, OfferedRaised
    <3>5. u.seq > OfferedAll[c] /\ u.seq \in 1 .. MaxFrames
      <4>1. u = wire[c][1] /\ 1 \in 1 .. Len(wire[c])  BY <1>a, <2>1, <2>2
      <4>2. Offered(c) < u.seq  BY <2>2, <4>1 DEF OrderInv, Ordered, WireOrder
      <4>3. Offered(c) \in Nat /\ u.seq \in 1 .. MaxFrames
        BY Numbers, MTServerAssumption DEF Updates
      <4> QED  BY <4>2, <4>3, MTServerAssumption DEF OfferedAll
    <3>6. Service!AcceptPartial(c, u.seq)
      BY <2>2, <2>3, <3>1, <3>4, <3>5
         DEF Service!AcceptPartial, OfferedAll, SendingAll, Sending
    <3> QED  BY <3>5, <3>6 DEF Service!Next
  <2> QED  BY <2>4, <2>5
<1>2. CASE ReadInit(c) \/ InitSent(c) \/ ReadRejected(c)
  <2>1. /\ UNCHANGED <<latest_partial, current, put_finals, done_finals, done_partial>>
        /\ reader[c] \in {"reading", "initializing"}
        /\ \/ UNCHANGED reader
           \/ \E to \in {"reading", "initializing"} : reader' = [reader EXCEPT ![c] = to]
    BY <1>2 DEF ReadInit, InitSent, ReadRejected, Rejected, Reading, mailboxVars, workVars
  <2>2. \/ UNCHANGED consumer
        \/ consumer[c] = "none" /\ consumer' = [consumer EXCEPT ![c] = "ready"]
    BY <1>2 DEF ReadInit, InitSent, ReadRejected, IndInv, NotYetConsuming
  <2>3. \A d \in Conns : Offered(d)' = Offered(d) /\ Sending(d)' = Sending(d)
    BY <1>a, <2>1, <2>2 DEF Offered, Sending
  <2>4. Handled' = Handled  BY <1>a, <2>1 DEF Handled
  <2> QED  BY <2>1, <2>3, <2>4, OfferedKept, SendingKept, Unseen DEF QueuesKept
<1>3. CASE ReadBadInit(c) \/ ReaderEnds(c) \/ ReaderJoins(c)
  <2>1. /\ UNCHANGED <<latest_partial, consumer, current, put_finals, done_finals, done_partial>>
        /\ reader[c] \in {"reading", "initializing", "draining"}
        /\ \/ reader' = [reader EXCEPT ![c] = "draining"]
           \/ reader' = [reader EXCEPT ![c] = "gone"] /\ consumer[c] \in {"none", "done"}
    BY <1>3 DEF ReadBadInit, ReaderEnds, ReaderJoins, Rejected, Reading, Leave, initialized,
                mailboxVars, workVars
  <2>2. CASE reader' = [reader EXCEPT ![c] = "draining"]
    <3>1. Handled' = Handled  BY <1>a, <2>1, <2>2 DEF Handled
    <3>2. \A d \in Conns : Offered(d)' = Offered(d) /\ Sending(d)' = Sending(d)
      BY <2>1 DEF Offered, Sending
    <3> QED  BY <2>1, <3>1, <3>2, OfferedKept, SendingKept, Unseen DEF QueuesKept
  <2>3. CASE reader' = [reader EXCEPT ![c] = "gone"] /\ consumer[c] \in {"none", "done"}
    BY <2>1, <2>3, LeaveService
  <2> QED  BY <2>1, <2>2, <2>3
<1> QED  BY <1>1, <1>2, <1>3 DEF ReaderNext

(* The consumer: what it takes was offered already; what it sends, or fails to, answers. *)
LEMMA ConsumerService ==
  ASSUME IndInv, OrderInv, NEW c \in Conns, ConsumerNext(c)
  PROVE  [Service!Next]_(Service!vars)
<1>a. /\ latest_partial \in [Conns -> Updates \cup {NoUpdate}]
      /\ current \in [Conns -> Updates \cup {NoUpdate}]
      /\ consumer \in [Conns -> {"none", "ready", "waiting", "submitted", "sending", "done"}]
      /\ latest_partial[c] # NoUpdate => ~latest_partial[c].is_final
      /\ finals[c] \in Seq(Updates) /\ \A i \in 1 .. Len(finals[c]) : finals[c][i].is_final
  BY DEF IndInv, MailboxTyped, ConsumerTyped
<1>0. UNCHANGED <<reader, put_finals, done_finals, done_partial>>
  BY DEF ConsumerNext, ConsumerGets, ConsumerSends, SendFails, workVars
<1>h. Handled' = Handled  BY <1>0 DEF Handled
<1>1. CASE ConsumerGets(c)
  <2>1. \/ /\ finals[c] # <<>> /\ current' = [current EXCEPT ![c] = Head(finals[c])]
           /\ consumer' = [consumer EXCEPT ![c] = "submitted"] /\ UNCHANGED latest_partial
        \/ /\ latest_partial[c] # NoUpdate /\ current' = [current EXCEPT ![c] = latest_partial[c]]
           /\ consumer' = [consumer EXCEPT ![c] = "submitted"]
           /\ latest_partial' = [latest_partial EXCEPT ![c] = NoUpdate]
        \/ /\ UNCHANGED <<latest_partial, current>>
           /\ \E to \in {"done", "waiting"} : consumer' = [consumer EXCEPT ![c] = to]
    BY <1>1 DEF ConsumerGets, Take, ReturnPartial
  <2>2. consumer[c] \in {"ready", "waiting"}  BY <1>1 DEF ConsumerGets
  <2>3. finals[c] # <<>> => Head(finals[c]).is_final
    <3>1. finals[c] # <<>> => Head(finals[c]) = finals[c][1] /\ 1 \in 1 .. Len(finals[c])
      BY <1>a
    <3> QED  BY <1>a, <3>1
  <2>4. \A d \in Conns : Offered(d)' = Offered(d)  BY <1>0, <1>a, <2>1, <2>2, <2>3 DEF Offered
  <2>5. \A d \in Conns : Sending(d)' = Sending(d)  BY <1>a, <2>1, <2>2 DEF Sending
  <2> QED  BY <1>0, <1>h, <2>4, <2>5, OfferedKept, SendingKept, Unseen DEF QueuesKept
<1>2. CASE ConsumerSends(c) \/ SendFails(c)
  <2>1. /\ consumer[c] = "sending" /\ UNCHANGED latest_partial
        /\ UNCHANGED current \/ current' = [current EXCEPT ![c] = NoUpdate]
        /\ \E to \in {"done", "ready"} : consumer' = [consumer EXCEPT ![c] = to]
    BY <1>2 DEF ConsumerSends, SendFails, mailboxVars
  <2>2. \A d \in Conns : Offered(d)' = Offered(d)  BY <1>0, <1>a, <2>1 DEF Offered
  <2>3. Sending(c)' = 0 /\ \A d \in Conns : d # c => Sending(d)' = Sending(d)
    BY <1>a, <2>1 DEF Sending
  <2>4. OfferedAll' = OfferedAll /\ SendingAll' = [SendingAll EXCEPT ![c] = 0]
    BY <2>2, <2>3, OfferedKept, SendingSet
  <2>5. SendingAll[c] # 0
    <3>1. current[c] \in Updates  BY <2>1 DEF IndInv, ConsumerTyped
    <3>2. current[c].seq # 0  BY <3>1, MTServerAssumption DEF Updates
    <3> QED  BY <2>1, <3>2 DEF SendingAll, Sending
  <2>6. Service!Answer(c)
    BY <1>0, <1>h, <2>4, <2>5 DEF Service!Answer, OfferedAll, SendingAll, Sending
  <2> QED  BY <2>6 DEF Service!Next
<1> QED  BY <1>1, <1>2 DEF ConsumerNext

(* The executor: a final it processes is the next one in order, a partial is newer than
   the last one. *)
LEMMA ExecutorService ==
  ASSUME IndInv, OrderInv, NEW c \in Conns, ExecutorNext(c)
  PROVE  [Service!Next]_(Service!vars)
<1>a. /\ consumer \in [Conns -> {"none", "ready", "waiting", "submitted", "sending", "done"}]
      /\ done_partial \in [Conns -> 0 .. MaxFrames]
      /\ done_finals[c] \in Seq(Updates) /\ finals[c] \in Seq(Updates)
  BY DEF IndInv, ConsumerTyped, SessionTyped, MailboxTyped
<1>1. /\ consumer[c] = "submitted" /\ consumer' = [consumer EXCEPT ![c] = "sending"]
      /\ UNCHANGED <<reader, current, latest_partial, put_finals>>
      /\ IF current[c].is_final
           THEN /\ done_finals' = [done_finals EXCEPT ![c] = Append(@, current[c])]
                /\ UNCHANGED done_partial
           ELSE /\ done_partial' = [done_partial EXCEPT ![c] = current[c].seq]
                /\ UNCHANGED done_finals
  BY DEF ExecutorNext, WorkFinal, WorkPartial, WorkFails, Respond, mailboxVars
<1>2. current[c] \in Updates  BY <1>1 DEF IndInv, ConsumerTyped
<1>3. \A d \in Conns : Offered(d)' = Offered(d)  BY <1>a, <1>1 DEF Offered
<1>4. Sending(c)' = current[c].seq /\ \A d \in Conns : d # c => Sending(d)' = Sending(d)
  BY <1>a, <1>1 DEF Sending
<1>5. OfferedAll' = OfferedAll /\ SendingAll' = [SendingAll EXCEPT ![c] = current[c].seq]
  BY <1>3, <1>4, OfferedKept, SendingSet
<1>6. SendingAll[c] = 0  BY <1>1 DEF SendingAll, Sending
<1>7. c \in Handled /\ Handled' = Handled
  BY <1>1 DEF Handled, OrderInv, Ordered, Awake
<1>8. CASE current[c].is_final
  <2> DEFINE k == Len(done_finals[c]) + 1
  <2>1. k <= Len(put_finals[c]) /\ put_finals[c][k] = current[c]
    <3>1. InFlight(c) = <<current[c]>>  BY <1>1, <1>8 DEF InFlight
    <3>2. put_finals[c] = done_finals[c] \o <<current[c]>> \o finals[c]
      BY <3>1 DEF IndInv, FinalsSticky
    <3>3. ASSUME NEW p \in Seq(Updates), NEW q \in Seq(Updates), NEW x \in Updates
          PROVE  /\ Len(p) + 1 <= Len(p \o <<x>> \o q)
                 /\ (p \o <<x>> \o q)[Len(p) + 1] = x
      OBVIOUS
    <3> DEFINE all == done_finals[c] \o <<current[c]>> \o finals[c]
    <3>4. k <= Len(all) /\ all[k] = current[c]  BY <1>a, <1>2, <3>3
    <3> HIDE DEF all, k
    <3>5. put_finals[c] = all  BY <3>2 DEF all
    <3> QED  BY <3>4, <3>5
  <2>2. /\ done_finals' = [done_finals EXCEPT ![c] = Append(@, put_finals[c][k])]
        /\ SendingAll' = [SendingAll EXCEPT ![c] = put_finals[c][k].seq]
        /\ UNCHANGED <<put_finals, done_partial>>
    BY <1>1, <1>5, <1>8, <2>1
  <2>3. Service!ProcessFinal(c)
    BY <1>5, <1>6, <1>7, <2>1, <2>2
       DEF Service!ProcessFinal, OfferedAll, SendingAll, Sending
  <2> QED  BY <2>3 DEF Service!Next
<1>9. CASE ~current[c].is_final
  <2>0. PICK n \in 1 .. MaxFrames : n = current[c].seq  BY <1>2 DEF Updates
  <2>1. done_partial[c] < n /\ n <= OfferedAll[c]
    <3>1. /\ done_partial[c] \in Nat
          /\ latest_partial[c] # NoUpdate => latest_partial[c].seq \in Nat
      BY <1>a, MTServerAssumption DEF IndInv, MailboxTyped, Updates
    <3>2. Latest(c)  BY DEF OrderInv, Ordered
    <3> QED  BY <1>1, <1>9, <2>0, <3>1, <3>2, MTServerAssumption DEF Latest, Offered, OfferedAll
  <2>2. /\ done_partial' = [done_partial EXCEPT ![c] = n]
        /\ UNCHANGED <<put_finals, done_finals>>
    BY <1>1, <1>9, <2>0
  <2>3. Service!ProcessPartial(c, n)
    BY <1>5, <1>6, <1>7, <2>0, <2>1, <2>2
       DEF Service!ProcessPartial, OfferedAll, SendingAll, Sending
  <2> QED  BY <2>3 DEF Service!Next
<1> QED  BY <1>8, <1>9

(* mt_server.py as a whole: every run of the coroutines, the mailboxes and the executor
   keeps the promises of the service. *)
THEOREM ServiceImplemented == Spec => ImplementsService
<1>1. Init => Service!Init  BY InitService
<1>2. IndInv /\ OrderInv /\ [Next]_vars => [Service!Next]_(Service!vars)
  <2> SUFFICES ASSUME IndInv, OrderInv, [Next]_vars PROVE [Service!Next]_(Service!vars)
    OBVIOUS
  <2>1. CASE UNCHANGED vars
    <3>1. /\ QueuesKept /\ UNCHANGED <<reader, latest_partial, consumer, current>>
      BY <2>1 DEF vars, mailboxVars, workVars, QueuesKept
    <3>2. \A d \in Conns : Offered(d)' = Offered(d) /\ Sending(d)' = Sending(d)
      BY <3>1 DEF QueuesKept, Offered, Sending
    <3>3. Handled' = Handled  BY <3>1 DEF Handled
    <3> QED  BY <3>1, <3>2, <3>3, OfferedKept, SendingKept, Unseen
  <2>2. CASE Next
    <3>1. PICK c \in Conns :
            ClientNext(c) \/ ReaderNext(c) \/ ConsumerNext(c) \/ ExecutorNext(c)
      BY <2>2 DEF Next
    <3> QED  BY <3>1, ClientService, ReaderService, ConsumerService, ExecutorService
  <2> QED  BY <2>1, <2>2
<1>3. Spec => [](IndInv /\ OrderInv)  BY OrderInvariance
<1> QED  BY <1>1, <1>2, <1>3, PTL DEF Spec, ImplementsService, Service!Spec

-----------------------------------------------------------------------------
(* What an orderly client, who waits for the reply to each update, is answered. *)

(* An update that nothing has processed: it is of the session's utterance, and the client
   has gone on to the next one only if the update closes it. *)
Unprocessed(c, u) ==
  /\ u \in Updates /\ u.utt = session[c].utterance_id
  /\ client[c].utt = IF u.is_final THEN u.utt + 1 ELSE u.utt

(* A response to the update in flight: it answers its utterance, which the session has
   left if the response is final, the client only if it closed it itself. *)
Processed(c, r) ==
  /\ r \in Responses /\ ~r.error /\ AnswersItsUtterance(r)
  /\ r.forced_final <=> is_forced(r.update)
  /\ r.final <=> r.update.is_final \/ is_forced(r.update)
  /\ session[c].utterance_id = IF r.final THEN r.update.utt + 1 ELSE r.update.utt
  /\ client[c].utt = IF r.update.is_final THEN r.update.utt + 1 ELSE r.update.utt

(* The places an update in flight, or its answer, can be. *)
NoneIn(w) == \A i \in 1 .. Len(w) : w[i].kind # "update"
OnlyIn(w, u) ==
  \E i \in 1 .. Len(w) :
    w[i] = u /\ u.kind = "update" /\ \A j \in 1 .. Len(w) : w[j].kind = "update" => j = i
NothingQueued(c) == finals[c] = <<>> /\ latest_partial[c] = NoUpdate
Idle(c) == consumer[c] \notin {"submitted", "sending"}
Quiet(c) == NoneIn(wire[c]) /\ NothingQueued(c) /\ Idle(c) /\ replies[c] = <<>>

(* The stages of the update an orderly client waits for; it is lost with the client. *)
Sent(c) ==
  /\ NothingQueued(c) /\ Idle(c) /\ replies[c] = <<>>
  /\ \E u \in Updates : OnlyIn(wire[c], u) /\ Unprocessed(c, u)
Waits(c) ==
  /\ NoneIn(wire[c]) /\ Idle(c) /\ replies[c] = <<>>
  /\ \E u \in Updates : Unprocessed(c, u) /\
       \/ u.is_final /\ finals[c] = <<u>> /\ latest_partial[c] = NoUpdate
       \/ ~u.is_final /\ finals[c] = <<>> /\ latest_partial[c] = u
Works(c) ==
  /\ NoneIn(wire[c]) /\ NothingQueued(c) /\ replies[c] = <<>>
  /\ consumer[c] = "submitted" /\ Unprocessed(c, current[c])
Answering(c) ==
  /\ NoneIn(wire[c]) /\ NothingQueued(c) /\ replies[c] = <<>>
  /\ consumer[c] = "sending" /\ Processed(c, response[c])
Answered(c) ==
  /\ NoneIn(wire[c]) /\ NothingQueued(c) /\ Idle(c)
  /\ \E r \in Responses : replies[c] = <<r>> /\ Processed(c, r)
Lost(c) == Quiet(c) /\ phase[c] # "open"

(* One update at a time: an orderly client waits for the one it sent, and otherwise
   nothing is in flight and both ends agree on the open utterance. *)
Turn(c) ==
  IF client[c].waiting
    THEN Sent(c) \/ Waits(c) \/ Works(c) \/ Answering(c) \/ Answered(c) \/ Lost(c)
    ELSE Quiet(c) /\ client[c].utt = session[c].utterance_id

(* The session of an orderly client: each segment is of an earlier utterance of its own
   and is translated; only the open utterance has an accepted partial. *)
Segmented(s) ==
  /\ Len(s.utt_translations) = Len(s.utt_sources)
  /\ s.accepted \subseteq {s.utterance_id}
  /\ \A i \in 1 .. Len(s.utt_sources) : s.utt_sources[i] < s.utterance_id
  /\ \A i, j \in 1 .. Len(s.utt_sources) : s.utt_sources[i] = s.utt_sources[j] => i = j

(* Nothing is in flight on a connection before init_ok. *)
Fresh(c) ==
  /\ phase[c] = "off" => ~initialized(c)
  /\ ~initialized(c) => client[c].utt = 0 /\ ~client[c].waiting /\ Quiet(c)

Paced(c) == Fresh(c) /\ (Orderly(c) => Turn(c) /\ Segmented(session[c]))
TurnInv == \A c \in Conns : Paced(c)

-----------------------------------------------------------------------------
(* The frames on the wire, of which at most one is an update: sending and reading. *)
LEMMA WireSends ==
  ASSUME NEW w \in Seq(Frames), NEW f \in Frames
  PROVE  /\ f.kind # "update" /\ NoneIn(w) => NoneIn(Append(w, f))
         /\ f.kind # "update" => \A u \in Updates : OnlyIn(w, u) => OnlyIn(Append(w, f), u)
         /\ f.kind = "update" /\ NoneIn(w) => OnlyIn(Append(w, f), f)
<1> DEFINE t == Append(w, f)
<1>1. /\ Len(t) = Len(w) + 1 /\ t[Len(w) + 1] = f /\ Len(w) \in Nat
      /\ \A i \in 1 .. Len(w) : t[i] = w[i]
  OBVIOUS
<1> HIDE DEF t
<1>2. /\ 1 .. Len(t) = 1 .. Len(w) \cup {Len(w) + 1} /\ Len(w) + 1 \in 1 .. Len(t)
      /\ \A i \in 1 .. Len(w) : i # Len(w) + 1
  BY <1>1
<1>3. f.kind # "update" /\ NoneIn(w) => NoneIn(t)  BY <1>1, <1>2 DEF NoneIn
<1>4. ASSUME f.kind # "update", NEW u \in Updates, OnlyIn(w, u) PROVE OnlyIn(t, u)
  BY <1>1, <1>2, <1>4 DEF OnlyIn
<1>5. f.kind = "update" /\ NoneIn(w) => OnlyIn(t, f)  BY <1>1, <1>2 DEF NoneIn, OnlyIn
<1> QED  BY <1>3, <1>4, <1>5 DEF t

LEMMA WireReads ==
  ASSUME NEW w \in Seq(Frames), w # <<>>
  PROVE  /\ NoneIn(w) => Head(w).kind # "update" /\ NoneIn(Tail(w))
         /\ \A u \in Updates : OnlyIn(w, u) =>
              IF Head(w).kind = "update" THEN Head(w) = u /\ NoneIn(Tail(w))
                                         ELSE OnlyIn(Tail(w), u)
<1> DEFINE t == Tail(w)
<1> DEFINE h == Head(w)
<1>1. /\ Len(t) + 1 = Len(w) /\ Len(t) \in Nat /\ h = w[1] /\ 1 \in 1 .. Len(w)
      /\ \A i \in 1 .. Len(t) : t[i] = w[i + 1]
  OBVIOUS
<1> HIDE DEF t, h
<1>2. /\ \A i \in 1 .. Len(t) : i + 1 \in 1 .. Len(w) /\ i + 1 # 1 /\ i \in Nat
      /\ \A i \in 1 .. Len(w) : i # 1 => i - 1 \in 1 .. Len(t) /\ (i - 1) + 1 = i
  BY <1>1
<1>3. NoneIn(w) => h.kind # "update" /\ NoneIn(t)  BY <1>1, <1>2 DEF NoneIn
<1>4. ASSUME NEW u \in Updates, OnlyIn(w, u)
      PROVE  IF h.kind = "update" THEN h = u /\ NoneIn(t) ELSE OnlyIn(t, u)
  <2>1. PICK i \in 1 .. Len(w) :
          w[i] = u /\ u.kind = "update" /\ \A j \in 1 .. Len(w) : w[j].kind = "update" => j = i
    BY <1>4 DEF OnlyIn
  <2>2. CASE h.kind = "update"
    <3>1. i = 1  BY <1>1, <2>1, <2>2
    <3> QED  BY <1>1, <1>2, <2>1, <2>2, <3>1 DEF NoneIn
  <2>3. CASE h.kind # "update"
    <3>1. i # 1  BY <1>1, <2>1, <2>3
    <3>2. i - 1 \in 1 .. Len(t) /\ t[i - 1] = u  BY <1>1, <1>2, <2>1, <3>1
    <3>3. ASSUME NEW j \in 1 .. Len(t), t[j].kind = "update" PROVE j = i - 1
      <4>1. j + 1 = i  BY <1>1, <1>2, <2>1, <3>3
      <4> QED  BY <4>1, <1>2
    <3> QED  BY <2>1, <2>3, <3>2, <3>3 DEF OnlyIn
  <2> QED  BY <2>2, <2>3
<1> QED  BY <1>3, <1>4 DEF t, h

-----------------------------------------------------------------------------
(* A step that does not concern connection d. *)
Untouched(d) ==
  /\ phase'[d] = phase[d] /\ client'[d] = client[d] /\ wire'[d] = wire[d]
  /\ replies'[d] = replies[d] /\ finals'[d] = finals[d]
  /\ latest_partial'[d] = latest_partial[d] /\ consumer'[d] = consumer[d]
  /\ current'[d] = current[d] /\ response'[d] = response[d] /\ session'[d] = session[d]
  /\ faults' = 0 => faults = 0

(* What a response says of its connection depends on two fields. *)
LEMMA SameView ==
  ASSUME NEW c \in Conns, client'[c].utt = client[c].utt,
         session'[c].utterance_id = session[c].utterance_id
  PROVE  /\ \A u : Unprocessed(c, u)' <=> Unprocessed(c, u)
         /\ \A r : Processed(c, r)' <=> Processed(c, r)
BY DEF Unprocessed, Processed

(* A step beside the update in flight: frames that are no updates, the ends of the
   connection, and a consumer with nothing to do. *)
Beside(c) ==
  /\ client'[c].utt = client[c].utt /\ client'[c].waiting = client[c].waiting
  /\ client'[c].paced = client[c].paced /\ (faults' = 0 => faults = 0)
  /\ NoneIn(wire[c]) => NoneIn(wire[c])'
  /\ \A u \in Updates : OnlyIn(wire[c], u) => OnlyIn(wire'[c], u)
  /\ replies'[c] = replies[c] /\ finals'[c] = finals[c]
  /\ latest_partial'[c] = latest_partial[c] /\ session'[c] = session[c]
  /\ current'[c] = current[c] /\ response'[c] = response[c]
  /\ \/ consumer'[c] = consumer[c]
     \/ Idle(c) /\ Idle(c)' /\ initialized(c)' /\ phase'[c] # "off"
  /\ phase'[c] = "off" => phase[c] = "off"
  /\ phase'[c] = "open" => phase[c] \in {"off", "open"}

LEMMA BesideKept == ASSUME NEW c \in Conns, Paced(c), Beside(c) PROVE Paced(c)'
<1>1. /\ \A u : Unprocessed(c, u)' <=> Unprocessed(c, u)
      /\ \A r : Processed(c, r)' <=> Processed(c, r)
  BY SameView DEF Beside
<1>2. NothingQueued(c)' <=> NothingQueued(c)  BY DEF NothingQueued, Beside
<1>3. Idle(c)' <=> Idle(c)  BY DEF Idle, Beside
<1>4. Quiet(c) => Quiet(c)'  BY <1>2, <1>3 DEF Quiet, Beside
<1>5. Fresh(c)'  BY <1>4 DEF Paced, Fresh, initialized, Beside
<1>6. ASSUME Orderly(c)' PROVE Turn(c)' /\ Segmented(session[c])'
  <2>1. Turn(c) /\ Segmented(session[c])  BY <1>6 DEF Paced, Orderly, Beside
  <2>2. Segmented(session[c])'  BY <2>1 DEF Segmented, Beside
  <2>3. CASE ~client[c].waiting  BY <1>4, <2>1, <2>3 DEF Turn, Beside
  <2>4. CASE client[c].waiting
    <3>1. client'[c].waiting  BY <2>4 DEF Beside
    <3>2. CASE Sent(c)
      <4>1. Sent(c)'  BY <1>1, <1>2, <1>3, <3>2 DEF Sent, Beside
      <4> QED  BY <2>2, <3>1, <4>1 DEF Turn
    <3>3. CASE Waits(c)
      <4>1. Waits(c)'  BY <1>1, <1>3, <3>3 DEF Waits, Beside
      <4> QED  BY <2>2, <3>1, <4>1 DEF Turn
    <3>4. CASE Works(c)
      <4>1. Works(c)'  BY <1>1, <1>2, <3>4 DEF Works, Beside, Idle
      <4> QED  BY <2>2, <3>1, <4>1 DEF Turn
    <3>5. CASE Answering(c)
      <4>1. Answering(c)'  BY <1>1, <1>2, <3>5 DEF Answering, Beside, Idle
      <4> QED  BY <2>2, <3>1, <4>1 DEF Turn
    <3>6. CASE Answered(c)
      <4>1. Answered(c)'  BY <1>1, <1>2, <1>3, <3>6 DEF Answered, Beside
      <4> QED  BY <2>2, <3>1, <4>1 DEF Turn
    <3>7. CASE Lost(c)
      <4>1. phase[c] # "off"  BY <2>4 DEF Paced, Fresh
      <4>2. Lost(c)'  BY <1>4, <3>7, <4>1 DEF Lost, Beside
      <4> QED  BY <2>2, <3>1, <4>2 DEF Turn
    <3> QED  BY <2>1, <2>4, <3>2, <3>3, <3>4, <3>5, <3>6, <3>7 DEF Turn
  <2> QED  BY <2>2, <2>3, <2>4
<1> QED  BY <1>5, <1>6 DEF Paced

LEMMA UntouchedKept == ASSUME NEW d \in Conns, Paced(d), Untouched(d) PROVE Paced(d)'
<1>1. Beside(d)  BY DEF Untouched, Beside, NoneIn
<1> QED  BY <1>1, BesideKept

(* Every handler concerns one connection. *)
LEMMA OthersKept ==
  ASSUME TurnInv, NEW c \in Conns, \A d \in Conns : d # c => Untouched(d), Paced(c)'
  PROVE  TurnInv'
BY UntouchedKept DEF TurnInv

(* The variables are functions on the connections. *)
LEMMA Functional ==
  ASSUME IndInv
  PROVE  /\ phase \in [Conns -> Phases] /\ client \in [Conns -> ClientType]
         /\ wire \in [Conns -> Seq(Frames)] /\ replies \in [Conns -> Seq(Responses)]
         /\ finals \in [Conns -> Seq(Updates)]
         /\ latest_partial \in [Conns -> Updates \cup {NoUpdate}]
         /\ consumer \in [Conns -> {"none", "ready", "waiting", "submitted", "sending", "done"}]
         /\ current \in [Conns -> Updates \cup {NoUpdate}]
         /\ response \in [Conns -> Responses \cup {NoUpdate}]
         /\ session \in [Conns -> SessionType] /\ faults \in Nat
BY DEF IndInv, ClientTyped, MailboxTyped, ConsumerTyped, SessionTyped

-----------------------------------------------------------------------------
(* The client is let in, sends another frame or leaves: beside the update in flight. *)
LEMMA ClientBeside ==
  ASSUME IndInv, NEW c \in Conns, Paced(c),
         \/ Connect(c) \/ Disconnect(c)
         \/ \E kind \in {"init", "bad_init", "junk"} : SendOther(c, kind)
  PROVE  Beside(c) /\ \A d \in Conns : d # c => Untouched(d)
<1>0. /\ phase \in [Conns -> Phases] /\ client \in [Conns -> ClientType]
      /\ wire \in [Conns -> Seq(Frames)]
  BY Functional
<1>1. CASE Connect(c) \/ Disconnect(c)
  <2>1. /\ UNCHANGED <<client, wire, replies, finals, latest_partial, consumer, current,
                       response, session, faults>>
        /\ \A d \in Conns : d # c => phase'[d] = phase[d]
        /\ phase[c] \in {"off", "open"} /\ phase'[c] # "off"
    BY <1>0, <1>1 DEF Connect, Disconnect, mailboxVars, workVars
  <2> QED  BY <2>1 DEF Beside, Untouched, NoneIn
<1>2. CASE \E kind \in {"init", "bad_init", "junk"} : SendOther(c, kind)
  <2>1. PICK kind \in {"init", "bad_init", "junk"} : SendOther(c, kind)  BY <1>2
  <2> DEFINE f == [kind |-> kind]
  <2> DEFINE k == [client[c] EXCEPT !.seq = client[c].seq + 1]
  <2>2. f \in Frames /\ f.kind # "update"  BY DEF Frames
  <2>3. k.utt = client[c].utt /\ k.waiting = client[c].waiting /\ k.paced = client[c].paced
    BY <1>0 DEF ClientType
  <2>4. /\ wire' = [wire EXCEPT ![c] = Append(wire[c], f)]
        /\ client' = [client EXCEPT ![c] = k]
        /\ UNCHANGED <<phase, replies, finals, latest_partial, consumer, current, response,
                       session, faults>>
    BY <1>0, <2>1 DEF SendOther, mailboxVars, workVars
  <2> HIDE DEF f, k
  <2>5. /\ wire[c] \in Seq(Frames) /\ wire'[c] = Append(wire[c], f) /\ client'[c] = k
        /\ \A d \in Conns : d # c => wire'[d] = wire[d] /\ client'[d] = client[d]
    BY <1>0, <2>4
  <2>6. /\ NoneIn(wire[c]) => NoneIn(wire'[c])
        /\ \A u \in Updates : OnlyIn(wire[c], u) => OnlyIn(wire'[c], u)
    BY <2>2, <2>5, WireSends
  <2>7. NoneIn(wire[c])' <=> NoneIn(wire'[c])  BY DEF NoneIn
  <2>8. /\ phase[c] \in Phases /\ phase'[c] = phase[c]  BY <1>0, <2>4
  <2>9. phase[c] # "off"  BY <2>1 DEF SendOther
  <2>10. Beside(c)  BY <2>3, <2>4, <2>5, <2>6, <2>7, <2>8 DEF Beside
  <2> QED  BY <2>4, <2>5, <2>10 DEF Untouched
<1> QED  BY <1>1, <1>2

(* An update is sent: by a client that waits, it ends the order; otherwise it is the one in
   flight, of the utterance both ends are at. *)
LEMMA SendKept ==
  ASSUME IndInv, NEW c \in Conns, Paced(c), NEW words \in 1 .. MaxWords,
         NEW is_final \in BOOLEAN, SendUpdate(c, words, is_final)
  PROVE  Paced(c)' /\ \A d \in Conns : d # c => Untouched(d)
<1>0. /\ phase \in [Conns -> Phases] /\ client \in [Conns -> ClientType]
      /\ wire \in [Conns -> Seq(Frames)] /\ client[c] \in ClientType
  BY Functional
<1> DEFINE f == [kind |-> "update", seq |-> client[c].seq + 1, utt |-> client[c].utt,
                 words |-> words, is_final |-> is_final]
<1> DEFINE k == [utt |-> IF is_final THEN client[c].utt + 1 ELSE client[c].utt,
                 words |-> IF is_final THEN 0 ELSE words,
                 seq |-> client[c].seq + 1, waiting |-> TRUE,
                 paced |-> client[c].paced /\ ~client[c].waiting]
<1>1. client[c].utt \in Utts /\ client[c].seq \in 0 .. MaxFrames /\ client[c].seq < MaxFrames
  BY <1>0, MTServerAssumption DEF SendUpdate, Utts, ClientType
<1>2. f \in Updates  BY <1>1, MTServerAssumption DEF SendUpdate, Updates
<1>3. f \in Frames /\ f.kind = "update" /\ f.utt = client[c].utt /\ (f.is_final <=> is_final)
  BY <1>2 DEF Frames
<1>4. /\ k.utt = IF is_final THEN client[c].utt + 1 ELSE client[c].utt
      /\ k.waiting /\ (k.paced <=> client[c].paced /\ ~client[c].waiting)
  OBVIOUS
<1>5. /\ wire' = [wire EXCEPT ![c] = Append(wire[c], f)]
      /\ client' = [client EXCEPT ![c] = k]
      /\ UNCHANGED <<phase, replies, finals, latest_partial, consumer, current, response,
                     session, faults>>
      /\ phase[c] = "open" /\ initialized(c)
  BY <1>0 DEF SendUpdate, mailboxVars, workVars
<1> HIDE DEF f, k
<1>6. /\ wire[c] \in Seq(Frames) /\ wire'[c] = Append(wire[c], f) /\ client'[c] = k
      /\ \A d \in Conns : d # c => wire'[d] = wire[d] /\ client'[d] = client[d]
  BY <1>0, <1>5
<1>7. \A d \in Conns : d # c => Untouched(d)  BY <1>5, <1>6 DEF Untouched
<1>8. Fresh(c)'  BY <1>5 DEF Fresh, initialized
<1>9. ASSUME Orderly(c)' PROVE Turn(c)' /\ Segmented(session[c])'
  <2>1. Orderly(c) /\ ~client[c].waiting  BY <1>4, <1>5, <1>6, <1>9 DEF Orderly
  <2>2. Quiet(c) /\ client[c].utt = session[c].utterance_id /\ Segmented(session[c])
    BY <2>1 DEF Paced, Turn
  <2>a. PICK u \in Updates : u = f  BY <1>2
  <2>3. Unprocessed(c, u)'
    BY <2>a, <1>3, <1>4, <1>5, <1>6, <2>2 DEF Unprocessed
  <2>4. OnlyIn(wire'[c], u)  BY <2>a, <1>3, <1>6, <2>2, WireSends DEF Quiet
  <2>5. Sent(c)'  BY <1>5, <2>2, <2>3, <2>4 DEF Sent, Quiet, NothingQueued, Idle
  <2>6. Segmented(session[c])'  BY <1>5, <2>2 DEF Segmented
  <2> QED  BY <1>4, <1>6, <2>5, <2>6 DEF Turn
<1> QED  BY <1>7, <1>8, <1>9 DEF Paced

(* A reply is read: after it the client is at the session's utterance, also when the
   server closed the utterance itself. *)
LEMMA ReceiveKept ==
  ASSUME IndInv, NEW c \in Conns, Paced(c), ReceiveReply(c)
  PROVE  Paced(c)' /\ \A d \in Conns : d # c => Untouched(d)
<1>0. /\ client \in [Conns -> ClientType] /\ replies \in [Conns -> Seq(Responses)]
      /\ client[c] \in ClientType
  BY Functional
<1> DEFINE k == AfterReply(client[c], Head(replies[c]))
<1>1. /\ client' = [client EXCEPT ![c] = k]
      /\ replies' = [replies EXCEPT ![c] = Tail(replies[c])]
      /\ UNCHANGED <<phase, wire, finals, latest_partial, consumer, current, response,
                     session, faults>>
      /\ phase[c] = "open" /\ replies[c] # <<>>
  BY <1>0 DEF ReceiveReply, mailboxVars, workVars
<1>2. k.paced = client[c].paced /\ k.waiting = FALSE
  BY <1>0 DEF AfterReply, ClientType
<1> HIDE DEF k
<1>3. /\ client'[c] = k /\ replies'[c] = Tail(replies[c])
      /\ \A d \in Conns : d # c => replies'[d] = replies[d] /\ client'[d] = client[d]
  BY <1>0, <1>1
<1>4. \A d \in Conns : d # c => Untouched(d)  BY <1>1, <1>3 DEF Untouched
<1>5. initialized(c)  BY <1>1 DEF Paced, Fresh, Quiet
<1>6. Fresh(c)'  BY <1>1, <1>5 DEF Fresh, initialized
<1>7. ASSUME Orderly(c)' PROVE Turn(c)' /\ Segmented(session[c])'
  <2>1. Turn(c) /\ Segmented(session[c])  BY <1>1, <1>2, <1>3, <1>7 DEF Paced, Orderly
  <2>2. Answered(c)
    BY <1>1, <2>1 DEF Turn, Quiet, Sent, Waits, Works, Answering, Lost
  <2>3. PICK r \in Responses : replies[c] = <<r>> /\ Processed(c, r)  BY <2>2 DEF Answered
  <2>4. Head(replies[c]) = r /\ replies'[c] = <<>>  BY <1>3, <2>3
  <2>5. r.utterance_id = r.update.utt /\ ~r.error  BY <2>3 DEF Processed, AnswersItsUtterance
  <2>6. k.utt = session[c].utterance_id
    <3>1. k = AfterReply(client[c], r)  BY <2>4 DEF k
    <3>2. client[c].utt \in Nat /\ r.update \in Updates /\ r.update.utt \in Nat
      BY <1>0, MTServerAssumption DEF ClientType, Responses, Updates, Utts
    <3>3. r.final <=> r.update.is_final \/ r.forced_final  BY <2>3 DEF Processed
    <3>4. r.forced_final => ~r.update.is_final  BY <2>3 DEF Processed, is_forced
    <3>5. /\ session[c].utterance_id = IF r.final THEN r.update.utt + 1 ELSE r.update.utt
          /\ client[c].utt = IF r.update.is_final THEN r.update.utt + 1 ELSE r.update.utt
      BY <2>3 DEF Processed
    <3>6. k.utt = IF r.forced_final /\ r.update.utt = client[c].utt THEN client[c].utt + 1
                  ELSE client[c].utt
      BY <1>0, <2>5, <3>1 DEF AfterReply, ClientType
    <3>7. CASE r.forced_final  BY <3>2, <3>3, <3>4, <3>5, <3>6, <3>7
    <3>8. CASE ~r.forced_final  BY <3>2, <3>3, <3>5, <3>6, <3>8
    <3> QED  BY <3>7, <3>8
  <2>7. Quiet(c)'
    BY <1>1, <2>2, <2>4 DEF Quiet, Answered, NothingQueued, Idle, NoneIn
  <2>8. Segmented(session[c])'  BY <1>1, <2>1 DEF Segmented
  <2> QED  BY <1>1, <1>2, <1>3, <2>6, <2>7, <2>8 DEF Turn
<1> QED  BY <1>4, <1>6, <1>7 DEF Paced

LEMMA ClientTurns == ASSUME IndInv, TurnInv, NEW c \in Conns, ClientNext(c) PROVE TurnInv'
<1>1. Paced(c)  BY DEF TurnInv
<1>2. CASE \/ Connect(c) \/ Disconnect(c)
           \/ \E kind \in {"init", "bad_init", "junk"} : SendOther(c, kind)
  BY <1>1, <1>2, ClientBeside, BesideKept, OthersKept
<1>3. CASE \E words \in 1 .. MaxWords, is_final \in BOOLEAN : SendUpdate(c, words, is_final)
  BY <1>1, <1>3, SendKept, OthersKept
<1>4. CASE ReceiveReply(c)  BY <1>1, <1>4, ReceiveKept, OthersKept
<1> QED  BY <1>2, <1>3, <1>4 DEF ClientNext

-----------------------------------------------------------------------------
(* The reader takes a frame that is no update, or ends: beside the update in flight. *)
LEMMA ReaderBeside ==
  ASSUME IndInv, NEW c \in Conns, Paced(c),
         InitSent(c) \/ ReadBadInit(c) \/ ReadRejected(c) \/ ReaderEnds(c) \/ ReaderJoins(c)
  PROVE  Beside(c) /\ \A d \in Conns : d # c => Untouched(d)
<1>0. /\ phase \in [Conns -> Phases] /\ wire \in [Conns -> Seq(Frames)]
      /\ consumer \in [Conns -> {"none", "ready", "waiting", "submitted", "sending", "done"}]
      /\ wire[c] \in Seq(Frames)
  BY Functional
<1>1. /\ UNCHANGED <<client, replies, finals, latest_partial, current, response, session,
                     faults>>
      /\ \/ UNCHANGED wire
         \/ /\ wire[c] # <<>> /\ Head(wire[c]).kind # "update"
            /\ wire' = [wire EXCEPT ![c] = Tail(wire[c])]
  BY DEF InitSent, ReadBadInit, ReadRejected, ReaderEnds, ReaderJoins, Rejected, Reading,
         NextFrame, clientVars, mailboxVars, workVars
<1>2. /\ phase' = phase \/ phase' = [phase EXCEPT ![c] = "closed"]
      /\ \/ UNCHANGED consumer
         \/ /\ InitSent(c) /\ phase' = phase /\ reader[c] = "initializing"
            /\ consumer' = [consumer EXCEPT ![c] = "ready"]
  BY DEF InitSent, ReadBadInit, ReadRejected, ReaderEnds, ReaderJoins, Leave, clientVars
<1>3. reader[c] = "initializing" => consumer[c] = "none" /\ phase[c] # "off"
  BY DEF IndInv, NotYetConsuming, Slots
<1>4. /\ NoneIn(wire[c]) => NoneIn(wire[c])'
      /\ \A u \in Updates : OnlyIn(wire[c], u) => OnlyIn(wire'[c], u)
      /\ \A d \in Conns : d # c => wire'[d] = wire[d]
  <2>1. CASE UNCHANGED wire  BY <2>1 DEF NoneIn
  <2>2. CASE /\ wire[c] # <<>> /\ Head(wire[c]).kind # "update"
             /\ wire' = [wire EXCEPT ![c] = Tail(wire[c])]
    <3>1. wire'[c] = Tail(wire[c]) /\ \A d \in Conns : d # c => wire'[d] = wire[d]
      BY <1>0, <2>2
    <3>2. /\ NoneIn(wire[c]) => NoneIn(wire'[c])
          /\ \A u \in Updates : OnlyIn(wire[c], u) => OnlyIn(wire'[c], u)
      BY <1>0, <2>2, <3>1, WireReads
    <3>3. NoneIn(wire[c])' <=> NoneIn(wire'[c])  BY DEF NoneIn
    <3> QED  BY <3>1, <3>2, <3>3
  <2> QED  BY <1>1, <2>1, <2>2
<1>5. /\ phase'[c] = phase[c] \/ phase'[c] = "closed"
      /\ phase[c] \in Phases
      /\ \A d \in Conns : d # c => phase'[d] = phase[d] /\ consumer'[d] = consumer[d]
  BY <1>0, <1>2
<1>6. \/ consumer'[c] = consumer[c]
      \/ Idle(c) /\ Idle(c)' /\ initialized(c)' /\ phase'[c] # "off"
  BY <1>0, <1>2, <1>3 DEF Idle, initialized
<1>7. Beside(c)  BY <1>1, <1>4, <1>5, <1>6 DEF Beside, Phases
<1>8. \A d \in Conns : d # c => Untouched(d)  BY <1>1, <1>4, <1>5 DEF Untouched
<1> QED  BY <1>7, <1>8

(* init opens the session, at the first utterance like the client. *)
LEMMA InitKept ==
  ASSUME IndInv, NEW c \in Conns, Paced(c), ReadInit(c)
  PROVE  Paced(c)' /\ \A d \in Conns : d # c => Untouched(d)
<1>0. wire \in [Conns -> Seq(Frames)] /\ session \in [Conns -> SessionType]
      /\ wire[c] \in Seq(Frames)
  BY Functional
<1>1. /\ UNCHANGED <<phase, client, replies, finals, latest_partial, consumer, current,
                     response, faults>>
      /\ session' = [session EXCEPT ![c] = NewSession]
      /\ wire' = [wire EXCEPT ![c] = Tail(wire[c])]
      /\ wire[c] # <<>> /\ ~initialized(c) /\ phase[c] # "off"
  BY DEF ReadInit, Reading, NextFrame, mailboxVars, IndInv, Slots
<1>2. /\ wire'[c] = Tail(wire[c]) /\ session'[c] = NewSession
      /\ \A d \in Conns : d # c => wire'[d] = wire[d] /\ session'[d] = session[d]
  BY <1>0, <1>1
<1>3. client[c].utt = 0 /\ ~client[c].waiting /\ Quiet(c)  BY <1>1 DEF Paced, Fresh
<1>4. NoneIn(wire'[c])  BY <1>0, <1>1, <1>2, <1>3, WireReads DEF Quiet
<1>5. Quiet(c)'
  BY <1>1, <1>3, <1>4 DEF Quiet, NothingQueued, Idle, NoneIn
<1>6. Fresh(c)'  BY <1>1, <1>3, <1>5 DEF Fresh, initialized
<1>7. Turn(c)'  BY <1>1, <1>2, <1>3, <1>5 DEF Turn, NewSession
<1>8. Segmented(session[c])'
  <2>1. /\ NewSession.utt_sources = <<>> /\ NewSession.utt_translations = <<>>
        /\ NewSession.accepted = {}
    BY DEF NewSession
  <2> QED  BY <1>2, <2>1 DEF Segmented
<1>9. \A d \in Conns : d # c => Untouched(d)  BY <1>1, <1>2 DEF Untouched
<1> QED  BY <1>6, <1>7, <1>8, <1>9 DEF Paced

(* The update in flight goes from the wire to the mailbox, which was empty. *)
LEMMA ReadKept ==
  ASSUME IndInv, NEW c \in Conns, Paced(c), ReadUpdate(c)
  PROVE  Paced(c)' /\ \A d \in Conns : d # c => Untouched(d)
<1>0. /\ wire \in [Conns -> Seq(Frames)] /\ finals \in [Conns -> Seq(Updates)]
      /\ latest_partial \in [Conns -> Updates \cup {NoUpdate}]
      /\ wire[c] \in Seq(Frames) /\ finals[c] \in Seq(Updates)
  BY Functional
<1> DEFINE h == Head(wire[c])
<1>1. /\ UNCHANGED <<phase, client, replies, consumer, current, response, session, faults>>
      /\ wire' = [wire EXCEPT ![c] = Tail(wire[c])]
      /\ finals' = [finals EXCEPT ![c] = IF h.is_final THEN Append(finals[c], h) ELSE finals[c]]
      /\ latest_partial' = [latest_partial EXCEPT ![c] = IF h.is_final THEN latest_partial[c] ELSE h]
      /\ wire[c] # <<>> /\ h.kind = "update" /\ initialized(c)
  BY <1>0 DEF ReadUpdate, Reading, NextFrame, put, workVars
<1>2. PICK u \in Updates : u = h  BY HeadUpdate DEF IndInv, ReadUpdate
<1> HIDE DEF h
<1>3. /\ wire'[c] = Tail(wire[c])
      /\ finals'[c] = IF u.is_final THEN Append(finals[c], u) ELSE finals[c]
      /\ latest_partial'[c] = IF u.is_final THEN latest_partial[c] ELSE u
      /\ \A d \in Conns : d # c => /\ wire'[d] = wire[d] /\ finals'[d] = finals[d]
                                   /\ latest_partial'[d] = latest_partial[d]
  BY <1>0, <1>1, <1>2
<1>4. \A d \in Conns : d # c => Untouched(d)  BY <1>1, <1>3 DEF Untouched
<1>5. Fresh(c)'  BY <1>1 DEF Paced, Fresh, initialized
<1>6. ASSUME Orderly(c)' PROVE Turn(c)' /\ Segmented(session[c])'
  <2>1. Turn(c) /\ Segmented(session[c])  BY <1>1, <1>6 DEF Paced, Orderly
  <2>2. ~NoneIn(wire[c])  BY <1>0, <1>1, WireReads DEF h
  <2>3. client[c].waiting /\ Sent(c)
    BY <2>1, <2>2 DEF Turn, Quiet, Waits, Works, Answering, Answered, Lost
  <2>4. PICK v \in Updates : OnlyIn(wire[c], v) /\ Unprocessed(c, v)  BY <2>3 DEF Sent
  <2>5. u = v /\ NoneIn(wire'[c])  BY <1>0, <1>1, <1>2, <1>3, <2>4, WireReads DEF h
  <2>6. Unprocessed(c, u)'  BY <1>1, <2>4, <2>5, SameView
  <2>7. \/ u.is_final /\ finals'[c] = <<u>> /\ latest_partial'[c] = NoUpdate
        \/ ~u.is_final /\ finals'[c] = <<>> /\ latest_partial'[c] = u
    BY <1>3, <2>3 DEF Sent, NothingQueued
  <2>8. Waits(c)'  BY <1>1, <2>3, <2>5, <2>6, <2>7 DEF Waits, Sent, Idle, NoneIn
  <2>9. Segmented(session[c])'  BY <1>1, <2>1 DEF Segmented
  <2> QED  BY <1>1, <2>3, <2>8, <2>9 DEF Turn
<1> QED  BY <1>4, <1>5, <1>6 DEF Paced

LEMMA ReaderTurns == ASSUME IndInv, TurnInv, NEW c \in Conns, ReaderNext(c) PROVE TurnInv'
<1>1. Paced(c)  BY DEF TurnInv
<1>2. CASE InitSent(c) \/ ReadBadInit(c) \/ ReadRejected(c) \/ ReaderEnds(c) \/ ReaderJoins(c)
  BY <1>1, <1>2, ReaderBeside, BesideKept, OthersKept
<1>3. CASE ReadInit(c)  BY <1>1, <1>3, InitKept, OthersKept
<1>4. CASE ReadUpdate(c)  BY <1>1, <1>4, ReadKept, OthersKept
<1> QED  BY <1>2, <1>3, <1>4 DEF ReaderNext

-----------------------------------------------------------------------------
(* The consumer takes the update in flight, which leaves the mailbox empty. *)
LEMMA TakeKept ==
  ASSUME IndInv, NEW c \in Conns, Paced(c), ConsumerGets(c)
  PROVE  Paced(c)' /\ \A d \in Conns : d # c => Untouched(d)
<1>0. /\ finals \in [Conns -> Seq(Updates)]
      /\ latest_partial \in [Conns -> Updates \cup {NoUpdate}]
      /\ consumer \in [Conns -> {"none", "ready", "waiting", "submitted", "sending", "done"}]
      /\ current \in [Conns -> Updates \cup {NoUpdate}] /\ finals[c] \in Seq(Updates)
  BY Functional
<1>1. /\ UNCHANGED <<phase, client, wire, replies, response, session, faults>>
      /\ consumer[c] \in {"ready", "waiting"}
  BY DEF ConsumerGets, clientVars
<1>2. CASE \/ /\ finals[c] # <<>> /\ Take(c, Head(finals[c]))
              /\ finals' = [finals EXCEPT ![c] = Tail(finals[c])] /\ UNCHANGED latest_partial
           \/ /\ finals[c] = <<>> /\ latest_partial[c] # NoUpdate /\ ReturnPartial(c)
              /\ UNCHANGED finals
  <2> DEFINE h == IF finals[c] # <<>> THEN Head(finals[c]) ELSE latest_partial[c]
  <2>1. /\ consumer' = [consumer EXCEPT ![c] = "submitted"]
        /\ current' = [current EXCEPT ![c] = h]
    BY <1>2 DEF Take, ReturnPartial
  <2>2. PICK u \in Updates : u = h  BY <1>0, <1>2
  <2>3. /\ consumer'[c] = "submitted" /\ current'[c] = u
        /\ \A d \in Conns : d # c => consumer'[d] = consumer[d] /\ current'[d] = current[d]
    BY <1>0, <2>1, <2>2
  <2>4. /\ \/ /\ finals[c] # <<>> /\ finals'[c] = Tail(finals[c])
              /\ latest_partial'[c] = latest_partial[c]
           \/ finals[c] = <<>> /\ finals'[c] = <<>> /\ latest_partial'[c] = NoUpdate
        /\ \A d \in Conns : d # c => /\ finals'[d] = finals[d]
                                     /\ latest_partial'[d] = latest_partial[d]
    BY <1>0, <1>2 DEF ReturnPartial
  <2>5. \A d \in Conns : d # c => Untouched(d)  BY <1>1, <2>3, <2>4 DEF Untouched
  <2>6. Fresh(c)'  BY <1>1, <2>3 DEF Paced, Fresh, initialized
  <2>7. ASSUME Orderly(c)' PROVE Turn(c)' /\ Segmented(session[c])'
    <3>1. Turn(c) /\ Segmented(session[c])  BY <1>1, <2>7 DEF Paced, Orderly
    <3>2. ~NothingQueued(c)  BY <1>2 DEF NothingQueued
    <3>3. client[c].waiting /\ Waits(c)
      BY <3>1, <3>2 DEF Turn, Quiet, Sent, Works, Answering, Answered, Lost
    <3>4. PICK v \in Updates : Unprocessed(c, v) /\
            \/ v.is_final /\ finals[c] = <<v>> /\ latest_partial[c] = NoUpdate
            \/ ~v.is_final /\ finals[c] = <<>> /\ latest_partial[c] = v
      BY <3>3 DEF Waits
    <3>5. u = v /\ finals'[c] = <<>> /\ latest_partial'[c] = NoUpdate
      <4>1. CASE finals[c] = <<v>> /\ latest_partial[c] = NoUpdate
        <5>1. Head(<<v>>) = v /\ Tail(<<v>>) = <<>> /\ <<v>> # <<>>  OBVIOUS
        <5> QED  BY <2>2, <2>4, <4>1, <5>1
      <4>2. CASE finals[c] = <<>> /\ latest_partial[c] = v
        BY <2>2, <2>4, <4>2
      <4> QED  BY <3>4, <4>1, <4>2
    <3>6. Unprocessed(c, u)'  BY <1>1, <3>4, <3>5, SameView
    <3>7. Works(c)'
      BY <1>1, <2>3, <3>3, <3>5, <3>6 DEF Works, Waits, NothingQueued, NoneIn, Unprocessed
    <3>8. Segmented(session[c])'  BY <1>1, <3>1 DEF Segmented
    <3> QED  BY <1>1, <3>3, <3>7, <3>8 DEF Turn
  <2> QED  BY <2>5, <2>6, <2>7 DEF Paced
<1>3. CASE \E to \in {"done", "waiting"} :
             consumer' = [consumer EXCEPT ![c] = to] /\ UNCHANGED <<finals, latest_partial, current>>
  <2>1. /\ consumer'[c] \in {"done", "waiting"}
        /\ \A d \in Conns : d # c => consumer'[d] = consumer[d]
    BY <1>0, <1>3
  <2>2. phase[c] # "off"  BY <1>1 DEF Paced, Fresh, initialized
  <2>3. phase[c] \in Phases  BY Functional
  <2>4. Beside(c)  BY <1>1, <1>3, <2>1, <2>2, <2>3 DEF Beside, Idle, initialized, NoneIn, Phases
  <2>5. \A d \in Conns : d # c => Untouched(d)  BY <1>1, <1>3, <2>1 DEF Untouched
  <2> QED  BY <2>4, <2>5, BesideKept
<1> QED  BY <1>2, <1>3 DEF ConsumerGets

(* The answer is sent, or lost because the client has gone. *)
LEMMA AnswerKept ==
  ASSUME IndInv, NEW c \in Conns, Paced(c), ConsumerSends(c) \/ SendFails(c)
  PROVE  Paced(c)' /\ \A d \in Conns : d # c => Untouched(d)
<1>0. /\ consumer \in [Conns -> {"none", "ready", "waiting", "submitted", "sending", "done"}]
      /\ current \in [Conns -> Updates \cup {NoUpdate}]
      /\ response \in [Conns -> Responses \cup {NoUpdate}]
      /\ replies \in [Conns -> Seq(Responses)] /\ response[c] \in Responses
  BY Functional DEF IndInv, ConsumerTyped, ConsumerSends, SendFails
<1>1. /\ UNCHANGED <<phase, client, wire, finals, latest_partial, session, faults>>
      /\ consumer[c] = "sending"
      /\ \E to \in {"ready", "done"} : consumer' = [consumer EXCEPT ![c] = to]
      /\ IF phase[c] = "open" THEN replies' = [replies EXCEPT ![c] = Append(replies[c], response[c])]
                              ELSE replies' = [replies EXCEPT ![c] = replies[c]]
      /\ \/ UNCHANGED <<current, response>>
         \/ /\ current' = [current EXCEPT ![c] = NoUpdate]
            /\ response' = [response EXCEPT ![c] = NoUpdate]
  BY <1>0 DEF ConsumerSends, SendFails, Reply, clientVars, mailboxVars, workVars
<1>2. /\ consumer'[c] \in {"ready", "done"}
      /\ replies'[c] = IF phase[c] = "open" THEN Append(replies[c], response[c]) ELSE replies[c]
      /\ \A d \in Conns : d # c => /\ consumer'[d] = consumer[d] /\ replies'[d] = replies[d]
                                   /\ current'[d] = current[d] /\ response'[d] = response[d]
  BY <1>0, <1>1
<1>3. \A d \in Conns : d # c => Untouched(d)  BY <1>1, <1>2 DEF Untouched
<1>4. Fresh(c)'  BY <1>1, <1>2 DEF Paced, Fresh, initialized
<1>5. ASSUME Orderly(c)' PROVE Turn(c)' /\ Segmented(session[c])'
  <2>1. Turn(c) /\ Segmented(session[c])  BY <1>1, <1>5 DEF Paced, Orderly
  <2>2. client[c].waiting /\ Answering(c)
    BY <1>1, <2>1 DEF Turn, Quiet, Sent, Waits, Works, Answered, Lost, Idle
  <2>3. Segmented(session[c])'  BY <1>1, <2>1 DEF Segmented
  <2>4. NoneIn(wire[c])' /\ NothingQueued(c)' /\ Idle(c)'
    BY <1>1, <1>2, <2>2 DEF Answering, NoneIn, NothingQueued, Idle
  <2>5. CASE phase[c] = "open"
    <3>1. PICK r \in Responses : r = response[c]  BY <1>0
    <3>2. replies'[c] = <<r>>  BY <1>2, <2>2, <2>5, <3>1 DEF Answering
    <3>3. Processed(c, r)'  BY <1>1, <2>2, <3>1, SameView DEF Answering
    <3>4. Answered(c)'  BY <2>4, <3>2, <3>3 DEF Answered
    <3> QED  BY <1>1, <2>2, <2>3, <3>4 DEF Turn
  <2>6. CASE phase[c] # "open"
    <3>1. replies'[c] = <<>>  BY <1>2, <2>2, <2>6 DEF Answering
    <3>2. Lost(c)'  BY <1>1, <2>4, <2>6, <3>1 DEF Lost, Quiet
    <3> QED  BY <1>1, <2>2, <2>3, <3>2 DEF Turn
  <2> QED  BY <2>5, <2>6
<1> QED  BY <1>3, <1>4, <1>5 DEF Paced

LEMMA ConsumerTurns == ASSUME IndInv, TurnInv, NEW c \in Conns, ConsumerNext(c) PROVE TurnInv'
<1>1. Paced(c)  BY DEF TurnInv
<1>2. CASE ConsumerGets(c)  BY <1>1, <1>2, TakeKept, OthersKept
<1>3. CASE ConsumerSends(c) \/ SendFails(c)  BY <1>1, <1>3, AnswerKept, OthersKept
<1> QED  BY <1>2, <1>3 DEF ConsumerNext

-----------------------------------------------------------------------------
(* finalize_utterance and sync_committed_translations on a session that is up to date: the
   utterance becomes one segment, and its translation is of nothing else. *)
LEMMA FinalSynced ==
  ASSUME NEW s \in SessionType, Segmented(s), NEW u \in Updates, u.utt = s.utterance_id,
         NEW f, f = finalize_utterance(s, u),
         NEW t, t = sync_committed_translations(f, Pending(f))
  PROVE  /\ t \in SessionType /\ t.utterance_id = s.utterance_id
         /\ t.utt_sources = Append(s.utt_sources, u.utt) /\ t.accepted = {}
         /\ Len(t.utt_translations) = Len(s.utt_sources) + 1
         /\ t.utt_translations[Len(t.utt_translations)] = {u.utt}
<1>1. /\ s.utt_sources \in Seq(Utts) /\ s.utt_translations \in Seq(SUBSET Utts)
      /\ u.utt \in Utts /\ s.utterance_id \in Nat
  BY DEF SessionType, Updates
<1> DEFINE n == Append(s.utt_sources, u.utt)
<1> DEFINE m == Len(s.utt_sources)
<1>2. /\ m \in Nat /\ Len(s.utt_translations) = m /\ s.accepted \subseteq {u.utt}
  BY <1>1 DEF Segmented
<1>3. n \in Seq(Utts) /\ Len(n) = m + 1 /\ n[m + 1] = u.utt  BY <1>1, <1>2
<1>4. f = [s EXCEPT !.utt_sources = n]  BY DEF finalize_utterance
<1> HIDE DEF n
<1>5. /\ f \in SessionType /\ f.utt_sources = n /\ f.utt_translations = s.utt_translations
      /\ f.accepted = s.accepted /\ f.utterance_id = s.utterance_id
  BY <1>3, <1>4 DEF SessionType
<1> HIDE DEF m
<1>6. Pending(f) = 1  BY <1>2, <1>3, <1>5 DEF Pending
<1> DEFINE From(i) == {f.utt_sources[i]} \cup (IF i = Len(f.utt_sources) THEN f.accepted ELSE {})
<1> DEFINE new == [i \in 1 .. 1 |-> From(m + i)]
<1> DEFINE a == IF 1 > 0 /\ m + 1 = Len(f.utt_sources) THEN {} ELSE f.accepted
<1>7. new[1] = {u.utt} /\ new \in Seq(SUBSET Utts) /\ Len(new) = 1
  <2>1. From(m + 1) = {u.utt}  BY <1>2, <1>3, <1>5
  <2>2. new[1] = {u.utt}  BY <2>1
  <2>3. {u.utt} \in SUBSET Utts /\ \A i \in 1 .. 1 : From(m + i) = {u.utt}  BY <1>1, <2>1
  <2> HIDE DEF From
  <2>4. new \in [1 .. 1 -> SUBSET Utts]  BY <2>3
  <2> QED  BY <2>2, <2>4
<1>8. a = {}  BY <1>3, <1>5
<1>9. t = [f EXCEPT !.utt_translations = s.utt_translations \o new, !.accepted = a]
  BY <1>2, <1>5, <1>6 DEF sync_committed_translations
<1> HIDE DEF new, a
<1> DEFINE all == s.utt_translations \o new
<1>10. all \in Seq(SUBSET Utts) /\ Len(all) = m + 1 /\ all[m + 1] = {u.utt}
  <2>1. ASSUME NEW S, NEW p \in Seq(S), NEW q \in Seq(S), Len(q) = 1
        PROVE  /\ p \o q \in Seq(S) /\ Len(p \o q) = Len(p) + 1
               /\ (p \o q)[Len(p) + 1] = q[1]
    <3> DEFINE w == p \o q
    <3>a. w \in Seq(S)  OBVIOUS
    <3>b. Len(w) = Len(p) + Len(q) /\ Len(p) \in Nat  OBVIOUS
    <3>1. w \in Seq(S) /\ Len(w) = Len(p) + 1 /\ Len(p) \in Nat  BY <2>1, <3>a, <3>b
    <3>2. \A i \in 1 .. Len(w) : w[i] = IF i <= Len(p) THEN p[i] ELSE q[i - Len(p)]
      OBVIOUS
    <3> HIDE DEF w
    <3>3. w[Len(p) + 1] = q[1]
      <4>1. Len(p) + 1 \in 1 .. Len(w) /\ ~(Len(p) + 1 <= Len(p)) /\ (Len(p) + 1) - Len(p) = 1
        BY <3>1
      <4> QED  BY <3>2, <4>1
    <3> QED  BY <3>1, <3>3 DEF w
  <2>2. s.utt_translations \in Seq(SUBSET Utts) /\ Len(s.utt_translations) = m  BY <1>1, <1>2
  <2>3. new \in Seq(SUBSET Utts) /\ Len(new) = 1 /\ new[1] = {u.utt}  BY <1>7
  <2> QED  BY <2>1, <2>2, <2>3
<1> HIDE DEF all
<1>11. t = [utterance_id |-> s.utterance_id, utt_sources |-> n, utt_translations |-> all,
            accepted |-> {}]
  BY <1>5, <1>8, <1>9 DEF SessionType, all
<1>12. t \in SessionType  BY <1>1, <1>3, <1>10, <1>11 DEF SessionType
<1> QED  BY <1>10, <1>11, <1>12 DEF n, m

(* One more segment, of the utterance the session leaves. *)
LEMMA FinalSegmented ==
  ASSUME NEW s \in SessionType, Segmented(s), NEW t \in SessionType,
         t.utterance_id = s.utterance_id + 1, t.accepted = {},
         t.utt_sources = Append(s.utt_sources, s.utterance_id),
         Len(t.utt_translations) = Len(t.utt_sources)
  PROVE  Segmented(t)
<1> DEFINE p == s.utt_sources
<1> DEFINE q == t.utt_sources
<1>1. p \in Seq(Utts) /\ s.utterance_id \in Nat /\ \A i \in 1 .. Len(p) : p[i] \in Nat
  <2>1. p \in Seq(Utts) /\ s.utterance_id \in Nat  BY DEF SessionType
  <2>2. \A x \in Utts : x \in Nat  BY MTServerAssumption DEF Utts
  <2>3. ASSUME NEW i \in 1 .. Len(p) PROVE p[i] \in Nat
    <3>1. p[i] \in Utts  BY <2>1
    <3> QED  BY <2>2, <3>1
  <2> QED  BY <2>1, <2>3
<1>2. /\ \A i \in 1 .. Len(p) : p[i] < s.utterance_id
      /\ \A i, j \in 1 .. Len(p) : p[i] = p[j] => i = j
  BY DEF Segmented
<1>3. /\ Len(q) = Len(p) + 1 /\ Len(p) \in Nat /\ q[Len(p) + 1] = s.utterance_id
      /\ \A i \in 1 .. Len(p) : q[i] = p[i]
  BY <1>1
<1> HIDE DEF p, q
<1>4. \A i \in 1 .. Len(q) : q[i] < s.utterance_id + 1  BY <1>1, <1>2, <1>3
<1>5. ASSUME NEW i \in 1 .. Len(q), NEW j \in 1 .. Len(q), q[i] = q[j] PROVE i = j
  <2>1. \A k \in 1 .. Len(q) : k = Len(p) + 1 \/ (k \in 1 .. Len(p) /\ q[k] # s.utterance_id)
    BY <1>1, <1>2, <1>3
  <2>2. CASE i = Len(p) + 1  BY <1>3, <1>5, <2>1, <2>2
  <2>3. CASE j = Len(p) + 1  BY <1>3, <1>5, <2>1, <2>3
  <2>4. CASE i \in 1 .. Len(p) /\ j \in 1 .. Len(p)  BY <1>2, <1>3, <1>5, <2>4
  <2> QED  BY <2>1, <2>2, <2>3, <2>4
<1> QED  BY <1>4, <1>5 DEF Segmented, q

(* Nothing is pending in a session that is up to date. *)
LEMMA PartialSynced ==
  ASSUME NEW s \in SessionType, Segmented(s),
         NEW t, t = sync_committed_translations(s, Pending(s))
  PROVE  /\ t \in SessionType /\ t.utterance_id = s.utterance_id /\ t.accepted = s.accepted
         /\ t.utt_sources = s.utt_sources
         /\ Len(t.utt_translations) = Len(s.utt_translations)
<1>1. /\ s.utt_translations \in Seq(SUBSET Utts) /\ s.utt_sources \in Seq(Utts)
      /\ Len(s.utt_translations) = Len(s.utt_sources)
  BY DEF SessionType, Segmented
<1>2. Pending(s) = 0 /\ 0 \in 0 .. Pending(s)  BY <1>1 DEF Pending
<1> DEFINE new == [i \in 1 .. 0 |->
                    {s.utt_sources[Len(s.utt_translations) + i]} \cup
                    (IF Len(s.utt_translations) + i = Len(s.utt_sources) THEN s.accepted ELSE {})]
<1>3. t = [s EXCEPT !.utt_translations = s.utt_translations \o new, !.accepted = s.accepted]
  BY <1>2 DEF sync_committed_translations
<1>4. /\ t \in SessionType /\ t.utt_sources = s.utt_sources
      /\ Len(t.utt_translations) = Len(s.utt_translations) + 0
  BY <1>1, <1>2, SyncTyped
<1>5. Len(t.utt_translations) = Len(s.utt_translations)  BY <1>1, <1>4
<1> HIDE DEF new
<1>6. t.utterance_id = s.utterance_id /\ t.accepted = s.accepted  BY <1>3 DEF SessionType
<1> QED  BY <1>4, <1>5, <1>6

(* The call of the update in flight succeeds: the session moves on with a final, the
   response is labelled with the utterance it was of. *)
LEMMA WorkKept ==
  ASSUME IndInv, NEW c \in Conns, Paced(c), consumer[c] = "submitted", faults' = faults,
         NEW t \in SessionType, NEW r \in Responses, Respond(c, t, r),
         Orderly(c) /\ Works(c) /\ Segmented(session[c]) =>
           /\ Segmented(t) /\ r.update = current[c] /\ ~r.error /\ AnswersItsUtterance(r)
           /\ r.forced_final <=> is_forced(current[c])
           /\ r.final <=> current[c].is_final \/ is_forced(current[c])
           /\ t.utterance_id = IF r.final THEN session[c].utterance_id + 1
                                          ELSE session[c].utterance_id
  PROVE  Paced(c)' /\ \A d \in Conns : d # c => Untouched(d)
<1>0. /\ consumer \in [Conns -> {"none", "ready", "waiting", "submitted", "sending", "done"}]
      /\ session \in [Conns -> SessionType] /\ response \in [Conns -> Responses \cup {NoUpdate}]
  BY Functional
<1>1. /\ UNCHANGED <<phase, client, wire, replies, finals, latest_partial, current, faults>>
      /\ session' = [session EXCEPT ![c] = t] /\ response' = [response EXCEPT ![c] = r]
      /\ consumer' = [consumer EXCEPT ![c] = "sending"]
  BY DEF Respond, clientVars, mailboxVars
<1>2. /\ session'[c] = t /\ response'[c] = r /\ consumer'[c] = "sending"
      /\ \A d \in Conns : d # c => /\ session'[d] = session[d] /\ response'[d] = response[d]
                                   /\ consumer'[d] = consumer[d]
  BY <1>0, <1>1
<1>3. \A d \in Conns : d # c => Untouched(d)  BY <1>1, <1>2 DEF Untouched
<1>4. Fresh(c)'  BY <1>1, <1>2 DEF Paced, Fresh, initialized
<1>5. ASSUME Orderly(c)' PROVE Turn(c)' /\ Segmented(session[c])'
  <2>1. Orderly(c) /\ Turn(c) /\ Segmented(session[c])  BY <1>1, <1>5 DEF Paced, Orderly
  <2>2. client[c].waiting /\ Works(c)
    BY <2>1 DEF Turn, Quiet, Sent, Waits, Answering, Answered, Lost, Idle
  <2>3. /\ Segmented(t) /\ r.update = current[c] /\ ~r.error /\ AnswersItsUtterance(r)
        /\ r.forced_final <=> is_forced(current[c])
        /\ r.final <=> current[c].is_final \/ is_forced(current[c])
        /\ t.utterance_id = IF r.final THEN session[c].utterance_id + 1
                                       ELSE session[c].utterance_id
    BY <2>1, <2>2
  <2>4. Segmented(session[c])'  BY <1>2, <2>3 DEF Segmented
  <2>5. PICK q \in Responses : q = r  OBVIOUS
  <2>6. Processed(c, r)'
    <3>1. /\ current[c].utt = session[c].utterance_id
          /\ client[c].utt = IF current[c].is_final THEN current[c].utt + 1 ELSE current[c].utt
      BY <2>2 DEF Works, Unprocessed
    <3> QED  BY <1>1, <1>2, <2>3, <3>1 DEF Processed, AnswersItsUtterance, is_forced
  <2>7. Answering(c)'
    BY <1>1, <1>2, <2>2, <2>6 DEF Answering, Works, NothingQueued, NoneIn, Processed,
                                AnswersItsUtterance, is_forced
  <2> QED  BY <1>1, <2>2, <2>4, <2>7 DEF Turn
<1> QED  BY <1>3, <1>4, <1>5 DEF Paced

LEMMA ExecutorTurns == ASSUME IndInv, TurnInv, NEW c \in Conns, ExecutorNext(c) PROVE TurnInv'
<1> DEFINE u == current[c]
<1> DEFINE old == session[c]
<1> DEFINE f == finalize_utterance(old, u)
<1>0. Paced(c)  BY DEF TurnInv
<1>1. consumer[c] = "submitted"  BY DEF ExecutorNext, WorkFinal, WorkPartial, WorkFails
<1>2. /\ u \in Updates /\ old \in SessionType /\ faults \in Nat
      /\ Len(old.utt_translations) <= Len(old.utt_sources)
      /\ Len(old.utt_translations) \in Nat /\ Len(old.utt_sources) \in Nat
      /\ u.utt \in Utts
  <2>1. u \in Updates /\ u.utt \in Utts  BY <1>1 DEF IndInv, ConsumerTyped, Updates
  <2>2. /\ old \in SessionType /\ faults \in Nat
        /\ Len(old.utt_translations) <= Len(old.utt_sources)
    BY DEF IndInv, SessionTyped
  <2> QED  BY <2>1, <2>2 DEF SessionType
<1>3. Works(c) => u.utt = old.utterance_id  BY DEF Works, Unprocessed
<1>4. CASE WorkFinal(c)
  <2> DEFINE s == sync_committed_translations(f, Pending(f))
  <2> DEFINE t == [s EXCEPT !.utterance_id = s.utterance_id + 1]
  <2> DEFINE r == FinalResponse(u, s)
  <2>1. Respond(c, t, r) /\ faults' = faults /\ (u.is_final \/ is_forced(u))
    BY <1>4 DEF WorkFinal
  <2>2. /\ f \in SessionType /\ Len(f.utt_translations) = Len(old.utt_translations)
        /\ Len(f.utt_sources) = Len(old.utt_sources) + 1
    BY <1>2, FinalizeTyped
  <2>3. Pending(f) \in 0 .. Pending(f)  BY <1>2, <2>2 DEF Pending
  <2>4. Works(c) /\ Segmented(old) =>
          /\ s.utterance_id = old.utterance_id
          /\ s.utt_sources = Append(old.utt_sources, u.utt) /\ s.accepted = {}
          /\ Len(s.utt_translations) = Len(old.utt_sources) + 1
          /\ s.utt_translations[Len(s.utt_translations)] = {u.utt}
    BY <1>2, <1>3, FinalSynced
  <2> HIDE DEF f
  <2>5. /\ s \in SessionType /\ s.utt_sources = f.utt_sources
        /\ Len(s.utt_translations) = Len(f.utt_translations) + Pending(f)
    BY <1>2, <2>2, <2>3, SyncTyped
  <2> HIDE DEF s
  <2>6. Len(s.utt_translations) = Len(s.utt_sources) /\ Len(s.utt_translations) >= 1
    BY <1>2, <2>2, <2>5 DEF Pending
  <2>7. r \in Responses  BY <1>2, <2>5, <2>6, FinalResponseTyped
  <2>8. /\ s.utterance_id + 1 \in Nat
        /\ t = [utterance_id |-> s.utterance_id + 1, utt_sources |-> s.utt_sources,
                utt_translations |-> s.utt_translations, accepted |-> s.accepted]
    BY <2>5 DEF SessionType
  <2> HIDE DEF t
  <2>9. t \in SessionType  BY <2>5, <2>8 DEF SessionType
  <2>10. /\ r.update = u /\ ~r.error /\ r.utterance_id = s.utterance_id
         /\ (r.forced_final <=> is_forced(u)) /\ r.final
         /\ r.of = s.utt_translations[Len(s.utt_translations)]
    BY DEF FinalResponse
  <2> HIDE DEF r
  <2>11. ASSUME Works(c), Segmented(old)
         PROVE  /\ Segmented(t) /\ AnswersItsUtterance(r)
                /\ t.utterance_id = old.utterance_id + 1
    <3>1. t.utterance_id = old.utterance_id + 1  BY <2>4, <2>8, <2>11
    <3>2. AnswersItsUtterance(r)  BY <1>3, <2>4, <2>10, <2>11 DEF AnswersItsUtterance
    <3>3. t.utt_sources = Append(old.utt_sources, old.utterance_id) /\ t.accepted = {}
      BY <1>3, <2>4, <2>8, <2>11
    <3>4. Len(t.utt_translations) = Len(t.utt_sources)  BY <2>6, <2>8
    <3>5. Segmented(t)  BY <1>2, <2>9, <2>11, <3>1, <3>3, <3>4, FinalSegmented
    <3> QED  BY <3>1, <3>2, <3>5
  <2>12. Paced(c)' /\ \A d \in Conns : d # c => Untouched(d)
    BY <1>0, <1>1, <2>1, <2>7, <2>9, <2>10, <2>11, WorkKept
  <2> QED  BY <2>12, OthersKept
<1>5. CASE WorkPartial(c)
  <2> DEFINE s == sync_committed_translations(old, Pending(old))
  <2>1. PICK t \in RenderedPartials(s, u) :
          Respond(c, t, [update |-> u, error |-> FALSE, utterance_id |-> t.utterance_id,
                         forced_final |-> FALSE, final |-> FALSE, of |-> t.accepted])
    BY <1>5 DEF WorkPartial
  <2> DEFINE r == [update |-> u, error |-> FALSE, utterance_id |-> t.utterance_id,
                   forced_final |-> FALSE, final |-> FALSE, of |-> t.accepted]
  <2>2. Respond(c, t, r) /\ faults' = faults /\ ~u.is_final /\ ~is_forced(u)
    BY <1>5, <2>1 DEF WorkPartial
  <2>3. Pending(old) \in 0 .. Pending(old)  BY <1>2 DEF Pending
  <2>4. /\ s \in SessionType /\ s.utt_sources = old.utt_sources
    BY <1>2, <2>3, SyncTyped
  <2>5. Segmented(old) =>
          /\ s.utterance_id = old.utterance_id /\ s.accepted = old.accepted
          /\ s.utt_sources = old.utt_sources
          /\ Len(s.utt_translations) = Len(old.utt_translations)
    BY <1>2, PartialSynced
  <2> HIDE DEF s
  <2>6. \E a \in {s.accepted, s.accepted \cup {u.utt}} :
          t = [utterance_id |-> s.utterance_id, utt_sources |-> s.utt_sources,
               utt_translations |-> s.utt_translations, accepted |-> a]
    BY <2>1, <2>4 DEF RenderedPartials, SessionType
  <2>7. t \in SessionType  BY <1>2, <2>4, <2>6 DEF SessionType
  <2>8. /\ r.update = u /\ ~r.error /\ r.utterance_id = t.utterance_id
        /\ ~r.forced_final /\ ~r.final /\ r.of = t.accepted
    OBVIOUS
  <2>9. r \in Responses  BY <1>2, <2>7 DEF Responses, SessionType
  <2> HIDE DEF r
  <2>10. ASSUME Works(c), Segmented(old)
         PROVE  /\ Segmented(t) /\ AnswersItsUtterance(r)
                /\ t.utterance_id = old.utterance_id
    <3>1. /\ t.utterance_id = old.utterance_id /\ t.utt_sources = old.utt_sources
          /\ t.utt_translations = s.utt_translations
          /\ Len(t.utt_translations) = Len(old.utt_translations)
          /\ t.accepted \subseteq old.accepted \cup {u.utt}
      BY <2>5, <2>6, <2>10
    <3>2. t.accepted \subseteq {old.utterance_id}  BY <1>3, <2>10, <3>1 DEF Segmented
    <3>3. Segmented(t)  BY <2>10, <3>1, <3>2 DEF Segmented
    <3>4. AnswersItsUtterance(r)  BY <1>3, <2>8, <2>10, <3>1, <3>2 DEF AnswersItsUtterance
    <3> QED  BY <3>1, <3>3, <3>4
  <2>11. Paced(c)' /\ \A d \in Conns : d # c => Untouched(d)
    BY <1>0, <1>1, <2>2, <2>7, <2>8, <2>9, <2>10, WorkKept
  <2> QED  BY <2>11, OthersKept
<1>6. CASE WorkFails(c)
  <2>1. faults' # 0 /\ faults' = faults + 1  BY <1>2, <1>6 DEF WorkFails
  <2>2. PICK t, r : Respond(c, t, r)  BY <1>6 DEF WorkFails
  <2>3. /\ UNCHANGED <<phase, client, wire, replies, finals, latest_partial, current>>
        /\ consumer' = [consumer EXCEPT ![c] = "sending"]
    BY <2>2 DEF Respond, clientVars, mailboxVars
  <2>4. ASSUME NEW d \in Conns PROVE Paced(d)'
    <3>1. Fresh(d)  BY DEF TurnInv, Paced
    <3>2. \/ consumer'[d] = consumer[d]
          \/ initialized(d) /\ initialized(d)'
      BY <1>1, <2>3, Functional DEF initialized
    <3>3. Fresh(d)'
      BY <2>3, <3>1, <3>2 DEF Fresh, initialized, Quiet, NothingQueued, Idle, NoneIn
    <3> QED  BY <2>1, <3>3 DEF Paced, Orderly
  <2> QED  BY <2>4 DEF TurnInv
<1> QED  BY <1>4, <1>5, <1>6 DEF ExecutorNext

-----------------------------------------------------------------------------
LEMMA InitTurns == Init => TurnInv
<1> SUFFICES ASSUME Init, NEW c \in Conns PROVE Paced(c)  BY DEF TurnInv
<1>1. /\ client[c].utt = 0 /\ ~client[c].waiting /\ session[c] = NewSession
      /\ wire[c] = <<>> /\ finals[c] = <<>> /\ latest_partial[c] = NoUpdate
      /\ consumer[c] = "none" /\ replies[c] = <<>>
  BY DEF Init, NewClient
<1>2. Quiet(c)  BY <1>1 DEF Quiet, NoneIn, NothingQueued, Idle
<1>3. /\ session[c].utterance_id = 0 /\ session[c].utt_sources = <<>>
      /\ session[c].utt_translations = <<>> /\ session[c].accepted = {}
  BY <1>1 DEF NewSession
<1>4. Turn(c)  BY <1>1, <1>2, <1>3 DEF Turn
<1>5. Segmented(session[c])  BY <1>3 DEF Segmented
<1>6. Fresh(c)  BY <1>1, <1>2 DEF Fresh, initialized
<1> QED  BY <1>4, <1>5, <1>6 DEF Paced

LEMMA NextTurns == IndInv /\ TurnInv /\ [Next]_vars => TurnInv'
<1> SUFFICES ASSUME IndInv, TurnInv, [Next]_vars PROVE TurnInv'  OBVIOUS
<1>1. CASE UNCHANGED vars
  <2>1. \A d \in Conns : Untouched(d)
    BY <1>1 DEF vars, clientVars, mailboxVars, workVars, Untouched
  <2> QED  BY <2>1, UntouchedKept DEF TurnInv
<1>2. CASE Next
  <2>1. PICK c \in Conns : ClientNext(c) \/ ReaderNext(c) \/ ConsumerNext(c) \/ ExecutorNext(c)
    BY <1>2 DEF Next
  <2> QED  BY <2>1, ClientTurns, ReaderTurns, ConsumerTurns, ExecutorTurns
<1> QED  BY <1>1, <1>2

(* One update at a time is in flight for a client that waits for its replies, and both
   ends agree on the open utterance when none is. *)
THEOREM TurnInvariance == Spec => [](IndInv /\ TurnInv)
<1>1. Init => IndInv /\ TurnInv  BY InitInv, InitTurns
<1>2. Spec => []IndInv  BY Invariance
<1>3. IndInv /\ TurnInv /\ [Next]_vars => TurnInv'  BY NextTurns
<1> QED  BY <1>1, <1>2, <1>3, PTL DEF Spec

(* Every reply an orderly client has not read yet answers its utterance. *)
LEMMA OrderlyReplies ==
  ASSUME IndInv, TurnInv, NEW c \in Conns, Orderly(c), NEW final, NEW r \in Answers(c, final)
  PROVE  AnswersItsUtterance(r)
<1>1. PICK i \in 1 .. Len(replies[c]) : r = replies[c][i]  BY DEF Answers
<1>2. Turn(c)  BY DEF TurnInv, Paced
<1>3. replies[c] # <<>>  BY <1>1
<1>4. Answered(c)
  BY <1>2, <1>3 DEF Turn, Quiet, Sent, Waits, Works, Answering, Lost
<1>5. PICK q \in Responses : replies[c] = <<q>> /\ Processed(c, q)  BY <1>4 DEF Answered
<1>6. r = q  BY <1>1, <1>5
<1> QED  BY <1>5, <1>6 DEF Processed

(* process_update: an orderly client is never shown a partial of another utterance, across
   finals, forced finals and the reordering of the mailbox. *)
THEOREM PartialsOfUtterance == Spec => []OrderlyPartials
<1>1. IndInv /\ TurnInv => OrderlyPartials  BY OrderlyReplies DEF OrderlyPartials
<1> QED  BY <1>1, TurnInvariance, PTL

(* The final text of an utterance, closed by the client or by the server, is the
   translation of that utterance and no other. *)
THEOREM FinalsOfUtterance == Spec => []OrderlyFinals
<1>1. IndInv /\ TurnInv => OrderlyFinals  BY OrderlyReplies DEF OrderlyFinals
<1> QED  BY <1>1, TurnInvariance, PTL

(* finalize_utterance: an utterance of an orderly client becomes one source segment, also
   when a forced final closed it on the server first. *)
THEOREM OneSegment == Spec => []OneSegmentPerUtterance
<1>1. TurnInv => OneSegmentPerUtterance
  BY DEF TurnInv, Paced, Segmented, OneSegmentPerUtterance
<1> QED  BY <1>1, TurnInvariance, PTL
=============================================================================
