------------------------------ MODULE MTServer ------------------------------
(***************************************************************************)
(* The text-in MT server of src/src/alignatt4llm/mt_server.py: the         *)
(* connections of serve_mt, and for each connection the reader coroutine,  *)
(* the UpdateMailbox, the consumer coroutine and the session, all sharing  *)
(* the one-worker executor of TextMTEngine.                                *)
(*                                                                         *)
(* One action is one run of a coroutine from one await to the next, or one *)
(* call on the executor thread.  The text of an utterance is abstracted to *)
(* the utterance it came from: an accepted target is the set of client     *)
(* utterances whose source it translates.  TextSession.tla has the words.  *)
(***************************************************************************)
EXTENDS Naturals, Sequences, FiniteSets

CONSTANTS
  Conns,              \* client connections
  MaxSessions,        \* --max-sessions
  MaxUtteranceWords,  \* --max-utterance-words; 0 switches the rollover off
  MaxFrames,          \* bound: frames one client sends
  MaxUtts,            \* bound: utterances of one client
  MaxWords,           \* bound: committed words of one utterance
  MaxFaults,          \* bound: failing MT calls
  NoUpdate            \* the None of the mailbox and of the consumer

ASSUME MTServerAssumption ==
  /\ IsFiniteSet(Conns) /\ MaxSessions \in Nat /\ MaxUtteranceWords \in Nat
  /\ MaxFrames \in Nat /\ MaxUtts \in Nat /\ MaxWords \in Nat /\ MaxFaults \in Nat

VARIABLES
  phase,           \* the client's end of the websocket
  client,          \* the client's view of its open utterance
  wire,            \* frames sent by the client, not yet read by the reader
  replies,         \* frames sent by the server, not yet read by the client
  active,          \* sessions counted by serve_mt
  reader,          \* where the reader coroutine is
  finals,          \* UpdateMailbox._finals
  latest_partial,  \* UpdateMailbox._latest_partial
  event,           \* UpdateMailbox._event
  closed,          \* UpdateMailbox.closed
  consumer,        \* where the consumer coroutine is
  current,         \* the update the consumer took from the mailbox
  response,        \* the response the consumer is about to send
  jobs,            \* the executor's queue of submitted calls
  session,         \* the server's session, of one connection
  faults,          \* failed MT calls so far
  put_finals,      \* history: the finals put in the mailbox
  done_finals,     \* history: the finals the executor has processed
  done_partial     \* history: seq of the last partial processed

clientVars  == <<phase, client, wire, replies>>
mailboxVars == <<finals, latest_partial, event, closed>>
workVars    == <<jobs, session, faults, done_finals, done_partial>>
vars == <<clientVars, active, reader, mailboxVars, consumer, current, response,
          workVars, put_finals>>

Utts    == 0 .. MaxUtts
Updates == [kind : {"update"}, seq : 1 .. MaxFrames, utt : Utts,
            words : 0 .. MaxWords, is_final : BOOLEAN]
Frames  == Updates \cup [kind : {"init", "bad_init", "junk"}]

\* None is not an update.
ASSUME NoneAssumption == NoUpdate \notin Updates

\* A client that has sent nothing, and a session with nothing translated.  A client is
\* waiting for the reply to its last update; it is paced as long as it never sent an
\* update while it waited (history).
NewClient == [utt |-> 0, words |-> 0, seq |-> 0, waiting |-> FALSE, paced |-> TRUE]
NewSession ==
  [utterance_id |-> 0, utt_sources |-> <<>>, utt_translations |-> <<>>, accepted |-> {}]

Init ==
  /\ phase = [c \in Conns |-> "off"] /\ client = [c \in Conns |-> NewClient]
  /\ wire = [c \in Conns |-> <<>>]   /\ replies = [c \in Conns |-> <<>>]
  /\ active = 0                      /\ reader = [c \in Conns |-> "absent"]
  /\ finals = [c \in Conns |-> <<>>] /\ latest_partial = [c \in Conns |-> NoUpdate]
  /\ event = [c \in Conns |-> FALSE] /\ closed = [c \in Conns |-> FALSE]
  /\ consumer = [c \in Conns |-> "none"] /\ current = [c \in Conns |-> NoUpdate]
  /\ response = [c \in Conns |-> NoUpdate]
  /\ jobs = <<>>                     /\ session = [c \in Conns |-> NewSession]
  /\ faults = 0
  /\ put_finals = [c \in Conns |-> <<>>] /\ done_finals = [c \in Conns |-> <<>>]
  /\ done_partial = [c \in Conns |-> 0]

-----------------------------------------------------------------------------
\* connection.session exists and the client has been sent init_ok.
initialized(c) == consumer[c] # "none"

(* The client, as docs/mt_server_protocol.md asks of it.                   *)

OverCapacity == active > MaxSessions     \* mutant
AtCapacity == active >= MaxSessions

\* serve_mt's handler: a connection beyond the capacity is refused at once.
Connect(c) ==
  /\ phase[c] = "off"
  /\ IF AtCapacity
       THEN /\ phase' = [phase EXCEPT ![c] = "refused"]
            /\ UNCHANGED <<active, reader>>
       ELSE /\ phase' = [phase EXCEPT ![c] = "open"]
            /\ active' = active + 1
            /\ reader' = [reader EXCEPT ![c] = "reading"]
  /\ UNCHANGED <<client, wire, replies, mailboxVars, consumer, current, response,
                 workVars, put_finals>>

\* The other frames: init, an init the server rejects, and "junk", which is not
\* JSON, not an object, of an unknown type, or an update before init.
SendOther(c, kind) ==
  /\ phase[c] = "open" /\ client[c].seq < MaxFrames
  /\ wire' = [wire EXCEPT ![c] = Append(@, [kind |-> kind])]
  /\ client' = [client EXCEPT ![c].seq = @ + 1]
  /\ UNCHANGED <<phase, replies, active, reader, mailboxVars, consumer, current,
                 response, workVars, put_finals>>

\* Updates follow init_ok.  An update carries the whole open utterance, so its
\* committed words only grow; after a final the next belongs to the next utterance.
SendUpdate(c, words, is_final) ==
  /\ phase[c] = "open" /\ client[c].seq < MaxFrames
  /\ initialized(c) /\ client[c].utt < MaxUtts
  /\ words \in {client[c].words, client[c].words + 1} /\ words \in 1 .. MaxWords
  /\ wire' = [wire EXCEPT ![c] =
       Append(@, [kind |-> "update", seq |-> client[c].seq + 1, utt |-> client[c].utt,
                  words |-> words, is_final |-> is_final])]
  /\ client' = [client EXCEPT ![c] =
       [utt |-> IF is_final THEN @.utt + 1 ELSE @.utt,
        words |-> IF is_final THEN 0 ELSE words,
        seq |-> @.seq + 1, waiting |-> TRUE, paced |-> @.paced /\ ~@.waiting]]
  /\ UNCHANGED <<phase, replies, active, reader, mailboxVars, consumer, current,
                 response, workVars, put_finals>>

\* What the client k makes of a reply r.  After a server-side rollover it starts the
\* next utterance; when its final was dropped and it has sent nothing since, the
\* utterance is open again.
AfterReply(k, r) ==
  LET rolled  == ~r.error /\ r.forced_final /\ r.utterance_id = k.utt
      dropped == r.error /\ r.update.is_final /\ r.update.seq = k.seq
  IN  IF rolled THEN [k EXCEPT !.utt = @ + 1, !.words = 0, !.waiting = FALSE]
      ELSE IF dropped THEN [k EXCEPT !.utt = r.update.utt, !.words = r.update.words,
                                     !.waiting = FALSE]
      ELSE [k EXCEPT !.waiting = FALSE]

ReceiveReply(c) ==
  /\ phase[c] = "open" /\ replies[c] # <<>>
  /\ client' = [client EXCEPT ![c] = AfterReply(@, Head(replies[c]))]
  /\ replies' = [replies EXCEPT ![c] = Tail(@)]
  /\ UNCHANGED <<phase, wire, active, reader, mailboxVars, consumer, current,
                 response, workVars, put_finals>>

Disconnect(c) ==
  /\ phase[c] = "open"
  /\ phase' = [phase EXCEPT ![c] = "closed"]
  /\ UNCHANGED <<client, wire, replies, active, reader, mailboxVars, consumer,
                 current, response, workVars, put_finals>>
-----------------------------------------------------------------------------
(* The reader: the body of handle_connection.                              *)

\* UpdateMailbox.close.  (Mutant: the event is not set.)
close_silently(c) == closed' = [closed EXCEPT ![c] = TRUE] /\ UNCHANGED event
close(c) == closed' = [closed EXCEPT ![c] = TRUE] /\ event' = [event EXCEPT ![c] = TRUE]

\* (Mutant: the slot is given back before the consumer is awaited, and again after it.)
LeaveTwice(c) ==
  /\ close(c)
  /\ active' = active - 1
  /\ reader' = [reader EXCEPT ![c] = IF initialized(c) THEN "draining" ELSE "gone"]
  /\ phase' = IF initialized(c) THEN phase ELSE [phase EXCEPT ![c] = "closed"]

\* The finally block: the mailbox is closed and, when there is a consumer, awaited.
Leave(c) ==
  /\ close(c)
  /\ IF initialized(c)
       THEN /\ reader' = [reader EXCEPT ![c] = "draining"]
            /\ UNCHANGED <<active, phase>>
       ELSE /\ reader' = [reader EXCEPT ![c] = "gone"]
            /\ active' = active - 1
            /\ phase' = [phase EXCEPT ![c] = "closed"]

Reading(c, kind) == reader[c] = "reading" /\ wire[c] # <<>> /\ Head(wire[c]).kind = kind

NextFrame(c) == wire' = [wire EXCEPT ![c] = Tail(@)]

Reply(c, r) == replies' = [replies EXCEPT ![c] = IF phase[c] = "open" THEN Append(@, r) ELSE @]

NoReply(u) == [update |-> u, error |-> TRUE, utterance_id |-> 0, forced_final |-> FALSE,
               final |-> FALSE, of |-> {}]

\* handle_init accepts the message: the session exists from here, the consumer
\* only once init_ok has been sent.
ReadInit(c) ==
  /\ Reading(c, "init") /\ ~initialized(c)
  /\ NextFrame(c)
  /\ session' = [session EXCEPT ![c] = NewSession]
  /\ reader' = [reader EXCEPT ![c] = "initializing"]
  /\ UNCHANGED <<phase, client, replies, active, mailboxVars, consumer, current,
                 response, jobs, faults, done_finals, done_partial, put_finals>>

InitSent(c) ==
  /\ reader[c] = "initializing"
  /\ reader' = [reader EXCEPT ![c] = "reading"]
  /\ consumer' = [consumer EXCEPT ![c] = "ready"]
  /\ UNCHANGED <<clientVars, active, mailboxVars, current, response, workVars,
                 put_finals>>

\* handle_init rejects the first init: error, close, return.
ReadBadInit(c) ==
  /\ Reading(c, "bad_init") /\ ~initialized(c)
  /\ NextFrame(c) /\ Leave(c)
  /\ UNCHANGED <<client, replies, finals, latest_partial, consumer, current,
                 response, workVars, put_finals>>

\* The frames answered with bad_protocol, and nothing else.
Rejected(c) ==
  \/ Reading(c, "junk")
  \/ (Reading(c, "init") \/ Reading(c, "bad_init")) /\ initialized(c)

ReadRejected(c) ==
  /\ Rejected(c) /\ NextFrame(c)
  /\ UNCHANGED <<phase, client, replies, active, reader, mailboxVars, consumer, current,
                 response, workVars, put_finals>>

\* Mutants: a final replaces the finals that wait; put does not set the event.
put_only_final(c, u) ==
  /\ finals' = [finals EXCEPT ![c] = IF u.is_final THEN <<u>> ELSE @]
  /\ put_finals' = [put_finals EXCEPT ![c] = IF u.is_final THEN Append(@, u) ELSE @]
  /\ latest_partial' = [latest_partial EXCEPT ![c] = IF u.is_final THEN @ ELSE u]
  /\ event' = [event EXCEPT ![c] = TRUE]

put_silently(c, u) ==
  /\ finals' = [finals EXCEPT ![c] = IF u.is_final THEN Append(@, u) ELSE @]
  /\ put_finals' = [put_finals EXCEPT ![c] = IF u.is_final THEN Append(@, u) ELSE @]
  /\ latest_partial' = [latest_partial EXCEPT ![c] = IF u.is_final THEN @ ELSE u]
  /\ UNCHANGED event

\* UpdateMailbox.put: finals are queued, a partial replaces the one not yet taken.
put(c, u) ==
  /\ finals' = [finals EXCEPT ![c] = IF u.is_final THEN Append(@, u) ELSE @]
  /\ put_finals' = [put_finals EXCEPT ![c] = IF u.is_final THEN Append(@, u) ELSE @]
  /\ latest_partial' = [latest_partial EXCEPT ![c] = IF u.is_final THEN @ ELSE u]
  /\ event' = [event EXCEPT ![c] = TRUE]

ReadUpdate(c) ==
  /\ Reading(c, "update") /\ initialized(c)
  /\ NextFrame(c) /\ put(c, Head(wire[c]))
  /\ UNCHANGED <<phase, client, replies, active, reader, closed, consumer, current,
                 response, workVars>>

\* The reader stops: the client has gone and every frame was read; the send of
\* init_ok or of an error fails; a frame that is no JSON object raises.
ReaderEnds(c) ==
  /\ \/ reader[c] = "reading" /\ phase[c] = "closed" /\ (wire[c] = <<>> \/ Rejected(c))
     \/ reader[c] = "initializing" /\ phase[c] = "closed"
     \/ Reading(c, "junk")
  /\ Leave(c)
  /\ UNCHANGED <<client, wire, replies, finals, latest_partial, consumer, current,
                 response, workVars, put_finals>>

\* Mutant: the consumer is not awaited.
JoinsAtOnce(c) ==
  /\ reader[c] = "draining"
  /\ reader' = [reader EXCEPT ![c] = "gone"]
  /\ active' = active - 1
  /\ phase' = [phase EXCEPT ![c] = "closed"]
  /\ UNCHANGED <<client, wire, replies, mailboxVars, consumer, current, response,
                 workVars, put_finals>>

\* The reader has awaited the consumer; serve_mt's finally gives the slot back.
ReaderJoins(c) ==
  /\ reader[c] = "draining" /\ consumer[c] = "done"
  /\ reader' = [reader EXCEPT ![c] = "gone"]
  /\ active' = active - 1
  /\ phase' = [phase EXCEPT ![c] = "closed"]
  /\ UNCHANGED <<client, wire, replies, mailboxVars, consumer, current, response,
                 workVars, put_finals>>

-----------------------------------------------------------------------------
(* The consumer, and UpdateMailbox.get.                                    *)

\* Mutant: the call is submitted and not awaited.
TakeNoAwait(c, u) ==
  /\ current' = [current EXCEPT ![c] = u]
  /\ consumer' = [consumer EXCEPT ![c] = "ready"]
  /\ jobs' = Append(jobs, c)

Take(c, u) ==
  /\ current' = [current EXCEPT ![c] = u]
  /\ consumer' = [consumer EXCEPT ![c] = "submitted"]
  /\ jobs' = Append(jobs, c)

\* get returns the partial and forgets it.  (Mutant: it stays.)
ReturnPartialAgain(c) == Take(c, latest_partial[c]) /\ UNCHANGED latest_partial
ReturnPartial(c) ==
  Take(c, latest_partial[c]) /\ latest_partial' = [latest_partial EXCEPT ![c] = NoUpdate]

\* Mutant: the latest partial first.
ConsumerGetsPartialFirst(c) ==
  /\ consumer[c] = "ready" \/ (consumer[c] = "waiting" /\ event[c])
  /\ \/ /\ latest_partial[c] # NoUpdate
        /\ ReturnPartial(c)
        /\ UNCHANGED <<finals, event>>
     \/ /\ latest_partial[c] = NoUpdate /\ finals[c] # <<>>
        /\ Take(c, Head(finals[c]))
        /\ finals' = [finals EXCEPT ![c] = Tail(@)]
        /\ UNCHANGED <<latest_partial, event>>
     \/ /\ finals[c] = <<>> /\ latest_partial[c] = NoUpdate
        /\ event' = [event EXCEPT ![c] = FALSE]
        /\ consumer' = [consumer EXCEPT ![c] = IF closed[c] THEN "done" ELSE "waiting"]
        /\ UNCHANGED <<finals, latest_partial, current, jobs>>
  /\ UNCHANGED <<clientVars, active, reader, closed, response, session, faults,
                 done_finals, done_partial, put_finals>>

\* One turn of get's loop: a final first, then the latest partial, then the end;
\* with none of them the consumer clears the event and waits for it.
ConsumerGets(c) ==
  /\ consumer[c] = "ready" \/ (consumer[c] = "waiting" /\ event[c])
  /\ \/ /\ finals[c] # <<>>
        /\ Take(c, Head(finals[c]))
        /\ finals' = [finals EXCEPT ![c] = Tail(@)]
        /\ UNCHANGED <<latest_partial, event>>
     \/ /\ finals[c] = <<>> /\ latest_partial[c] # NoUpdate
        /\ ReturnPartial(c)
        /\ UNCHANGED <<finals, event>>
     \/ /\ finals[c] = <<>> /\ latest_partial[c] = NoUpdate /\ closed[c]
        /\ consumer' = [consumer EXCEPT ![c] = "done"]
        /\ UNCHANGED <<finals, latest_partial, event, current, jobs>>
     \/ /\ finals[c] = <<>> /\ latest_partial[c] = NoUpdate /\ ~closed[c]
        /\ event' = [event EXCEPT ![c] = FALSE]
        /\ consumer' = [consumer EXCEPT ![c] = "waiting"]
        /\ UNCHANGED <<finals, latest_partial, current, jobs>>
  /\ UNCHANGED <<clientVars, active, reader, closed, response, session, faults,
                 done_finals, done_partial, put_finals>>

\* websocket.send of the response; on a closed connection it may raise, which
\* ends the consumer.
ConsumerSends(c) ==
  /\ consumer[c] = "sending"
  /\ Reply(c, response[c])
  /\ consumer' = [consumer EXCEPT ![c] = "ready"]
  /\ current' = [current EXCEPT ![c] = NoUpdate]
  /\ response' = [response EXCEPT ![c] = NoUpdate]
  /\ UNCHANGED <<phase, client, wire, active, reader, mailboxVars, workVars, put_finals>>

SendFails(c) ==
  /\ consumer[c] = "sending" /\ phase[c] = "closed"
  /\ consumer' = [consumer EXCEPT ![c] = "done"]
  /\ UNCHANGED <<clientVars, active, reader, mailboxVars, current, response, workVars,
                 put_finals>>

-----------------------------------------------------------------------------
(* The executor: MTServerConnection.process_update_sync.                   *)

is_forced(u) ==
  ~u.is_final /\ MaxUtteranceWords > 0 /\ u.words > MaxUtteranceWords

\* finalize_utterance: one more source segment, its translation still to come.
finalize_utterance(s, u) == [s EXCEPT !.utt_sources = Append(@, u.utt)]

Pending(s) == Len(s.utt_sources) - Len(s.utt_translations)

\* Mutant: the accepted partial is not reset.
SyncKeepsPartial(s, k) ==
  LET done == Len(s.utt_translations)
      last == Len(s.utt_sources)
      From(i) == {s.utt_sources[i]} \cup (IF i = last THEN s.accepted ELSE {})
  IN  [s EXCEPT !.utt_translations = @ \o [i \in 1 .. k |-> From(done + i)]]

\* sync_committed_translations after k of its MT calls.  Only the last segment
\* continues the accepted partial, which its translation then resets.
sync_committed_translations(s, k) ==
  LET done == Len(s.utt_translations)
      last == Len(s.utt_sources)
      From(i) == {s.utt_sources[i]} \cup (IF i = last THEN s.accepted ELSE {})
  IN  [s EXCEPT !.utt_translations = @ \o [i \in 1 .. k |-> From(done + i)],
                !.accepted = IF k > 0 /\ done + k = last THEN {} ELSE @]

\* A draft for the open utterance extends the accepted target, or accepts nothing.
RenderedPartials(s, u) == {s, [s EXCEPT !.accepted = @ \cup {u.utt}]}

Respond(c, s, r) ==
  /\ jobs # <<>> /\ Head(jobs) = c
  /\ jobs' = Tail(jobs)
  /\ session' = [session EXCEPT ![c] = s]
  /\ response' = [response EXCEPT ![c] = r]
  /\ consumer' = [consumer EXCEPT ![c] = "sending"]
  /\ IF current[c].is_final
       THEN /\ done_finals' = [done_finals EXCEPT ![c] = Append(@, current[c])]
            /\ UNCHANGED done_partial
       ELSE /\ done_partial' = [done_partial EXCEPT ![c] = current[c].seq]
            /\ UNCHANGED done_finals
  /\ UNCHANGED <<clientVars, active, reader, mailboxVars, current, put_finals>>

\* Mutants: labelled after the increment; a rollover not announced as forced.
LateResponse(u, s) ==
  [update |-> u, error |-> FALSE, utterance_id |-> s.utterance_id + 1,
   forced_final |-> is_forced(u), final |-> TRUE,
   of |-> s.utt_translations[Len(s.utt_translations)]]

UnannouncedResponse(u, s) ==
  [update |-> u, error |-> FALSE, utterance_id |-> s.utterance_id,
   forced_final |-> FALSE, final |-> TRUE,
   of |-> s.utt_translations[Len(s.utt_translations)]]

\* The response to a final, of a session whose utterance_id is not incremented yet.
FinalResponse(u, s) ==
  [update |-> u, error |-> FALSE, utterance_id |-> s.utterance_id,
   forced_final |-> is_forced(u), final |-> TRUE,
   of |-> s.utt_translations[Len(s.utt_translations)]]

WorkFinal(c) ==
  LET u == current[c]
      f == finalize_utterance(session[c], u)
      s == sync_committed_translations(f, Pending(f))
  IN  /\ consumer[c] = "submitted" /\ (u.is_final \/ is_forced(u))
      /\ Respond(c, [s EXCEPT !.utterance_id = @ + 1], FinalResponse(u, s))
      /\ UNCHANGED faults

WorkPartial(c) ==
  LET u == current[c]
      s == sync_committed_translations(session[c], Pending(session[c]))
  IN  /\ consumer[c] = "submitted" /\ ~u.is_final /\ ~is_forced(u)
      /\ \E t \in RenderedPartials(s, u) :
           Respond(c, t, [update |-> u, error |-> FALSE, utterance_id |-> t.utterance_id,
                          forced_final |-> FALSE, final |-> FALSE, of |-> t.accepted])
      /\ UNCHANGED faults

\* The call raises, before it touched the session (a malformed clock, a backend that
\* fails to load) or in an MT call: what ran before stays, and the client gets
\* processing_failed.
WorkFails(c) ==
  LET u == current[c]
      f == IF u.is_final \/ is_forced(u) THEN finalize_utterance(session[c], u)
                                         ELSE session[c]
  IN  /\ consumer[c] = "submitted" /\ faults < MaxFaults
      /\ \/ Respond(c, session[c], NoReply(u))
         \/ \E k \in 0 .. Pending(f) :
              /\ (u.is_final \/ is_forced(u)) => k < Pending(f)
              /\ Respond(c, sync_committed_translations(f, k), NoReply(u))
      /\ faults' = faults + 1

-----------------------------------------------------------------------------
ClientNext(c) ==
  \/ Connect(c) \/ ReceiveReply(c) \/ Disconnect(c)
  \/ \E kind \in {"init", "bad_init", "junk"} : SendOther(c, kind)
  \/ \E words \in 1 .. MaxWords, is_final \in BOOLEAN : SendUpdate(c, words, is_final)

ReaderNext(c) ==
  \/ ReadInit(c) \/ InitSent(c) \/ ReadBadInit(c) \/ ReadRejected(c) \/ ReadUpdate(c)
  \/ ReaderEnds(c) \/ ReaderJoins(c)

ConsumerNext(c) == ConsumerGets(c) \/ ConsumerSends(c) \/ SendFails(c)

ExecutorNext(c) == WorkFinal(c) \/ WorkPartial(c) \/ WorkFails(c)

Next ==
  \E c \in Conns : ClientNext(c) \/ ReaderNext(c) \/ ConsumerNext(c) \/ ExecutorNext(c)

Spec == Init /\ [][Next]_vars

\* The event loop runs every ready coroutine, the executor every submitted call;
\* nothing is promised of the clients.
Fairness ==
  \A c \in Conns : WF_vars(ReaderNext(c)) /\ WF_vars(ConsumerNext(c)) /\ WF_vars(ExecutorNext(c))

-----------------------------------------------------------------------------
(* Properties.                                                             *)

Responses == [update : Updates, error : BOOLEAN, utterance_id : Nat,
              forced_final : BOOLEAN, final : BOOLEAN, of : SUBSET Utts]

\* Every variable keeps its type: the records and queues of handle_connection.
TypeOK ==
  /\ phase \in [Conns -> {"off", "open", "closed", "refused"}]
  /\ client \in [Conns -> [utt : Nat, words : 0 .. MaxWords, seq : 0 .. MaxFrames,
                            waiting : BOOLEAN, paced : BOOLEAN]]
  /\ wire \in [Conns -> Seq(Frames)] /\ replies \in [Conns -> Seq(Responses)]
  /\ active \in Nat
  /\ reader \in [Conns -> {"absent", "reading", "initializing", "draining", "gone"}]
  /\ finals \in [Conns -> Seq(Updates)]
  /\ latest_partial \in [Conns -> Updates \cup {NoUpdate}]
  /\ event \in [Conns -> BOOLEAN] /\ closed \in [Conns -> BOOLEAN]
  /\ consumer \in [Conns -> {"none", "ready", "waiting", "submitted", "sending", "done"}]
  /\ current \in [Conns -> Updates \cup {NoUpdate}]
  /\ response \in [Conns -> Responses \cup {NoUpdate}]
  /\ jobs \in Seq(Conns)
  /\ session \in [Conns -> [utterance_id : Nat, utt_sources : Seq(Utts),
                             utt_translations : Seq(SUBSET Utts), accepted : SUBSET Utts]]
  /\ faults \in Nat
  /\ put_finals \in [Conns -> Seq(Updates)] /\ done_finals \in [Conns -> Seq(Updates)]
  /\ done_partial \in [Conns -> 0 .. MaxFrames]

\* The final the executor works on, between mailbox and done_finals.
InFlight(c) ==
  IF consumer[c] = "submitted" /\ current[c].is_final THEN <<current[c]>> ELSE <<>>

\* "is_final updates are sticky and always processed, in order": none the reader
\* put in the mailbox is lost, repeated or overtaken by another final.
FinalsSticky ==
  \A c \in Conns : put_finals[c] = done_finals[c] \o InFlight(c) \o finals[c]

\* Latest wins: the partial that waits is newer than every partial the session has
\* rendered or is rendering, so a partial never undoes a newer one.
LatestPartialWins ==
  \A c \in Conns :
    /\ latest_partial[c] # NoUpdate => latest_partial[c].seq > done_partial[c]
    /\ consumer[c] = "submitted" /\ ~current[c].is_final =>
         /\ current[c].seq > done_partial[c]
         /\ latest_partial[c] # NoUpdate => latest_partial[c].seq > current[c].seq

\* A consumer waits for the event only while there is nothing for it to do: no
\* put and no close is lost between the check of the queues and the wait.
NoLostWakeup ==
  \A c \in Conns :
    consumer[c] = "waiting" /\ ~event[c] =>
      finals[c] = <<>> /\ latest_partial[c] = NoUpdate /\ ~closed[c]

\* A session is not locked: whatever a client sends while a call runs, a connection
\* never has two calls on the executor.
OneCallPerSession == \A i, j \in 1 .. Len(jobs) : jobs[i] = jobs[j] => i = j

\* serve_mt's counter is the number of connections being handled, and never more
\* than --max-sessions: no path out of handle_connection keeps its slot.
Handled == {c \in Conns : reader[c] \in {"reading", "initializing", "draining"}}
SlotAccounting == active = Cardinality(Handled) /\ active <= MaxSessions

\* What the protocol says of a reply: it is labelled with the utterance of the update
\* it answers; a partial's committed_text translates nothing but that utterance, a
\* final's text exactly that utterance.
AnswersItsUtterance(r) ==
  /\ r.utterance_id = r.update.utt
  /\ IF r.final THEN r.of = {r.update.utt} ELSE r.of \subseteq {r.update.utt}

Answers(c, final) ==
  {r \in {replies[c][i] : i \in 1 .. Len(replies[c])} : ~r.error /\ r.final = final}

\* A client that waits for each reply, of a server whose MT calls succeed.
Orderly(c) == client[c].paced /\ faults = 0

\* An orderly client is never shown a partial of another utterance, across finals,
\* forced finals and reordering in the mailbox.
OrderlyPartials ==
  \A c \in Conns : Orderly(c) => \A r \in Answers(c, FALSE) : AnswersItsUtterance(r)

\* The final text an orderly client gets for an utterance, when it closes it or when
\* the server rolls it over, is the translation of that utterance and no other.
OrderlyFinals ==
  \A c \in Conns : Orderly(c) => \A r \in Answers(c, TRUE) : AnswersItsUtterance(r)

\* An utterance of an orderly client becomes one source segment of the session, also
\* when a forced final closed it on the server first.
OneSegmentPerUtterance ==
  \A c \in Conns : Orderly(c) => \A i, j \in 1 .. Len(session[c].utt_sources) :
    session[c].utt_sources[i] = session[c].utt_sources[j] => i = j

\* "processing_failed (that update was dropped; the session stays usable)"
\* (docs/mt_server_protocol.md:138): sending it again does not repeat its segment.
DroppedLeavesNoSegment ==
  \A c \in Conns : client[c].paced => \A i, j \in 1 .. Len(session[c].utt_sources) :
    session[c].utt_sources[i] = session[c].utt_sources[j] => i = j

\* The newest partial the mailbox was given: it waits, is being processed, or has been.
Offered(c) ==
  IF latest_partial[c] # NoUpdate THEN latest_partial[c].seq
  ELSE IF consumer[c] = "submitted" /\ ~current[c].is_final THEN current[c].seq
  ELSE done_partial[c]

\* The service seen through the server: an update is answered when the consumer has
\* sent its response, or has failed to.
Service == INSTANCE UpdateService WITH
  Clients <- Conns, Capacity <- MaxSessions, Numbers <- 1 .. MaxFrames,
  Finals <- {u \in Updates : u.is_final},
  serving <- Handled, accepted <- put_finals, processed <- done_finals,
  offered <- [c \in Conns |-> Offered(c)], shown <- done_partial,
  answering <- [c \in Conns |-> IF consumer[c] = "sending" THEN current[c].seq ELSE 0]

\* Every interleaving of the coroutines and the executor is a run of the service: the
\* mailbox, the await of each call and the capacity counter keep its promises
\* (handle_connection, UpdateMailbox, serve_mt).
ImplementsService == Service!Spec

\* Every final that reached the mailbox is processed, unless the client leaves: no
\* other final and no stream of partials, however long, starves it (UpdateMailbox.get).
FinalsProcessed ==
  \A c \in Conns : \A k \in 1 .. MaxFrames :
    (Len(put_finals[c]) >= k) ~> (Len(done_finals[c]) >= k \/ phase[c] = "closed")

\* When the client has gone, the consumer ends, the reader joins it and the slot is
\* free again, whatever was queued, running or being sent.
SlotReleased ==
  \A c \in Conns : (phase[c] = "closed") ~> (reader[c] \in {"absent", "gone"})
=============================================================================
