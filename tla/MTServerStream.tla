--------------------------- MODULE MTServerStream ---------------------------
(* MTServer with clients whose stream of partials never ends: the mailbox and the
   executor have to reach a final also when there is always one more partial. *)
EXTENDS MTServer

\* After its last numbered frame a client sends that number again, as often as it likes:
\* one more partial of its open utterance whenever the reader has read the one before.
\* The guards on the two queues bound the model.
SendMore(c) ==
  /\ phase[c] = "open" /\ initialized(c)
  /\ client[c].seq = MaxFrames /\ client[c].utt < MaxUtts
  /\ wire[c] = <<>> /\ replies[c] = <<>>
  /\ wire' = [wire EXCEPT ![c] =
       <<[kind |-> "update", seq |-> MaxFrames, utt |-> client[c].utt, words |-> 1,
          is_final |-> FALSE]>>]
  /\ client' = [client EXCEPT ![c].waiting = TRUE, ![c].paced = @ /\ ~client[c].waiting]
  /\ UNCHANGED <<phase, replies, active, reader, mailboxVars, consumer, current,
                 response, workVars, put_finals>>

StreamSpec == Init /\ [][Next \/ \E c \in Conns : SendMore(c)]_vars /\ Fairness
=============================================================================
