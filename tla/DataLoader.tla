----------------------------- MODULE DataLoader -----------------------------
(***************************************************************************)
(* The data loader (tools/data-loader/main.go): pipelined SETs, replies    *)
(* read in order, and a reconnect that retries the batch.                  *)
(*                                                                         *)
(* A key stands for the call of genKeyValue that made it, and counts as    *)
(* one unit of writtenBytes. Two calls may make the same name              *)
(* (genFeatureFlag and genRateLimit draw from few), so that the server may *)
(* hold fewer names than it has executed calls.                            *)
(*                                                                         *)
(* The server executes the commands of a connection in order; when the     *)
(* connection goes, it has received some prefix of what was sent and the   *)
(* client some prefix of the replies. A server that has been demoted, or   *)
(* that is out of memory, refuses every SET until that is over.            *)
(***************************************************************************)
EXTENDS Integers, Sequences, SequencesExt, FiniteSets

CONSTANTS
    BatchSize,  \* BATCH_SIZE
    Target,     \* TARGET_GB, in keys
    Faults,     \* kinds of fault that may happen
    MaxFaults,  \* how many happen in one behaviour
    MaxRefused  \* bound: a server that goes on refusing gets no further

FaultKinds == {"dial", "break", "timeout", "late", "refuse"}

\* A BATCH_SIZE of 0 acts as 1: a key is appended before the batch is compared.
ASSUME LoaderAssumption ==
    /\ BatchSize \in Nat \ {0} /\ Target \in Nat
    /\ Faults \subseteq FaultKinds /\ MaxFaults \in Nat
    /\ MaxRefused \in Nat

VARIABLES
    pc,       \* where main and flush are
    conn,     \* the connection: nil, open or broken
    idx,      \* number of keys generated
    batch,    \* keys not yet flushed
    next,     \* the reply flush reads next, counted within the batch
    final,    \* the loop was left: this is the last flush
    written,  \* keyCount, and writtenBytes with it
    inbox,    \* commands on their way to the server
    replies,  \* replies on their way back
    shifted,  \* an INFO was given up whose reply is still to come
    executed, \* keys whose SET the server has executed
    refused,  \* keys the server answered with an error
    refusing, \* the server is refusing every SET (READONLY, OOM)
    faults    \* faults so far

vars == <<pc, conn, idx, batch, next, final, written, inbox, replies, shifted,
          executed, refused, refusing, faults>>
net    == <<conn, inbox, replies, shifted>>
server == <<executed, refused, refusing>>
loader == <<idx, batch, next, final, written>>

Info == 0   \* the INFO command; keys count from 1

\* What readReply makes of a reply: the string "OK", an error, any other
\* value, such as the string of INFO, or bytes that are no reply.
ReplyKinds == {"OK", "error", "info", "garbled"}

\* The values every variable stays within: what is sent, executed or refused is
\* a key that was generated.
TypeOK ==
    /\ pc \in {"dial", "info", "loop", "flush", "read", "failed", "done",
               "fatal", "panic"}
    /\ conn \in {"nil", "open", "broken"}
    /\ idx \in Nat /\ next \in Nat /\ written \in Nat /\ faults \in Nat
    /\ batch \in Seq(1 .. idx)
    /\ final \in BOOLEAN /\ shifted \in BOOLEAN
    /\ inbox \in Seq(0 .. idx)
    /\ replies \in Seq(ReplyKinds)
    /\ executed \subseteq 1 .. idx /\ refused \subseteq 1 .. idx
    /\ refusing \in BOOLEAN

\* A fault of kind k happens, within the budget.
Fault(k) == k \in Faults /\ faults < MaxFaults /\ faults' = faults + 1
NoFault  == UNCHANGED faults

Init ==
    /\ pc = "dial" /\ conn = "nil"
    /\ idx = 0 /\ batch = <<>> /\ next = 1 /\ final = FALSE /\ written = 0
    /\ inbox = <<>> /\ replies = <<>> /\ shifted = FALSE
    /\ executed = {} /\ refused = {} /\ refusing = FALSE /\ faults = 0

\* When a connection ends the server has received some of the commands, and
\* executes those that it does not refuse; nobody reads the replies.
ExecuteReceived ==
    \E k \in 0 .. (IF refusing THEN 0 ELSE Len(inbox)) :
       executed' = executed \cup (ToSet(SubSeq(inbox, 1, k)) \ {Info})

-----------------------------------------------------------------------------
(* Connecting.                                                             *)

\* dial succeeds, and identify writes INFO. The address may lead to another
\* server by now.
Dial ==
    /\ pc = "dial"
    /\ conn' = "open" /\ inbox' = <<Info>> /\ replies' = <<>> /\ shifted' = FALSE
    /\ refusing' \in {refusing, FALSE}
    /\ pc' = "info"
    /\ UNCHANGED <<loader, executed, refused, faults>>

\* The first dial fails: log.Fatalf.
DialFatal ==
    /\ pc = "dial" /\ idx = 0
    /\ Fault("dial")
    /\ pc' = "fatal"
    /\ UNCHANGED <<net, loader, server>>

\* A later dial fails: it returns a nil connection, and the loop goes on after
\* two seconds.
DialFailed ==
    /\ pc = "dial" /\ idx > 0
    /\ Fault("dial")
    /\ conn' = "nil" /\ inbox' = <<>> /\ replies' = <<>> /\ shifted' = FALSE
    /\ pc' = "loop"
    /\ UNCHANGED <<loader, server>>

\* identify reads the reply of INFO.
InfoReply ==
    /\ pc = "info" /\ replies # <<>>
    /\ replies' = Tail(replies)
    /\ pc' = "loop"
    /\ UNCHANGED <<conn, inbox, shifted, loader, server, faults>>

\* Mutant of InfoError: identify has no answer to a connection that broke.
InfoErrorBlocks ==
    /\ pc = "info" /\ conn = "open" /\ replies = <<>>
    /\ Fault("late")
    /\ shifted' = TRUE
    /\ pc' = "loop"
    /\ UNCHANGED <<conn, inbox, replies, loader, server>>

\* identify fails, and main ignores that. When its deadline passed, the reply or
\* the rest of it is still to come, on a connection that stays in use.
InfoError ==
    /\ pc = "info" /\ replies = <<>>
    /\ \/ conn = "broken" /\ NoFault /\ UNCHANGED shifted
       \/ conn = "open" /\ Fault("late") /\ shifted' = TRUE
    /\ pc' = "loop"
    /\ UNCHANGED <<conn, inbox, replies, loader, server>>

-----------------------------------------------------------------------------
(* The loop and flush.                                                     *)

\* Mutant of Generate: idx is not incremented.
GenerateSame ==
    /\ pc = "loop"
    /\ batch' = Append(batch, idx + 1)
    /\ pc' = IF Len(batch') >= BatchSize \/ written >= Target THEN "flush" ELSE "loop"
    /\ UNCHANGED <<net, idx, next, final, written, server, faults>>

\* One key is generated and appended; the batch is flushed when it is full, or
\* when the target has been reached.
Generate ==
    /\ pc = "loop"
    /\ idx' = idx + 1
    /\ batch' = Append(batch, idx')
    /\ pc' = IF Len(batch') >= BatchSize \/ written >= Target THEN "flush" ELSE "loop"
    /\ UNCHANGED <<net, next, final, written, server, faults>>

\* A signal ends the loop; the final flush has nothing to do for an empty batch.
Stop ==
    /\ pc = "loop"
    /\ final' = TRUE
    /\ pc' = IF batch = <<>> THEN "done" ELSE "flush"
    /\ UNCHANGED <<net, idx, batch, next, written, server, faults>>

\* The SETs of the whole batch are written. A connection that the server has
\* closed may still take them.
WriteBatch ==
    /\ pc = "flush" /\ conn \in {"open", "broken"}
    /\ inbox' = IF conn = "open" THEN inbox \o batch ELSE inbox
    /\ next' = 1
    /\ pc' = "read"
    /\ UNCHANGED <<conn, replies, shifted, idx, batch, final, written, server, faults>>

\* The write fails. One that misses its deadline has the effect of WriteBatch and
\* then of the timeout in ReadError.
WriteError ==
    /\ pc = "flush" /\ conn = "broken"
    /\ pc' = "failed"
    /\ UNCHANGED <<net, loader, server, faults>>

\* SetWriteDeadline is called on a nil connection.
Panic ==
    /\ pc = "flush" /\ conn = "nil"
    /\ pc' = "panic"
    /\ UNCHANGED <<net, loader, server, faults>>

\* Only the string "OK" counts; an error reply, or any other, does not.
Counts(reply) == reply = "OK"

\* One reply per key of the batch.
ReadReply ==
    /\ pc = "read" /\ next <= Len(batch)
    /\ replies # <<>> /\ Head(replies) # "garbled"
    /\ written' = IF Counts(Head(replies)) THEN written + 1 ELSE written
    /\ replies' = Tail(replies)
    /\ next' = next + 1
    /\ UNCHANGED <<pc, conn, inbox, shifted, idx, batch, final, server, faults>>

\* The connection is gone, the deadline of 30 s passed, or readReply finds no
\* reply in what it reads.
ReadError ==
    /\ pc = "read" /\ next <= Len(batch)
    /\ \/ replies = <<>> /\ conn = "broken" /\ NoFault
       \/ replies = <<>> /\ conn = "open" /\ Fault("timeout")
       \/ replies # <<>> /\ Head(replies) = "garbled" /\ NoFault
    /\ pc' = "failed"
    /\ UNCHANGED <<net, loader, server>>

\* Mutant of FlushDone: the batch is not emptied.
FlushDoneKeeps ==
    /\ pc = "read" /\ next > Len(batch)
    /\ pc' = IF final \/ written >= Target THEN "done" ELSE "loop"
    /\ UNCHANGED <<net, loader, server, faults>>

\* All replies are in. Once the target is reached the loop ends, and the final
\* flush has nothing to do.
FlushDone ==
    /\ pc = "read" /\ next > Len(batch)
    /\ batch' = <<>>
    /\ pc' = IF final \/ written >= Target THEN "done" ELSE "loop"
    /\ UNCHANGED <<net, idx, next, final, written, server, faults>>

\* The final flush is not repeated: the program ends with a warning.
GiveUp ==
    /\ pc = "failed" /\ final
    /\ pc' = "done"
    /\ UNCHANGED <<net, loader, server, faults>>

\* Mutants of Reconnect: the batch is dropped; the old connection stays in use.
ReconnectDrops ==
    /\ pc = "failed" /\ ~final
    /\ batch' = <<>>
    /\ pc' = "dial"
    /\ UNCHANGED <<net, idx, next, final, written, server, faults>>
ReconnectReuses ==
    /\ pc = "failed" /\ ~final
    /\ pc' = IF conn = "open" THEN "loop" ELSE "dial"
    /\ UNCHANGED <<net, loader, server, faults>>

\* conn.Close: the batch is kept for the next connection. The server still
\* executes what it has received.
Reconnect ==
    /\ pc = "failed" /\ ~final
    /\ ExecuteReceived
    /\ conn' = "broken" /\ inbox' = <<>> /\ replies' = <<>>
    /\ pc' = "dial"
    /\ UNCHANGED <<shifted, loader, refused, refusing, faults>>

-----------------------------------------------------------------------------
(* The server and the network.                                             *)

\* From now on the server refuses every SET: it is demoted, or out of memory.
Refuse ==
    /\ ~refusing /\ pc \notin {"done", "fatal", "panic"}
    /\ Fault("refuse")
    /\ refusing' = TRUE
    /\ UNCHANGED <<pc, net, loader, executed, refused>>

\* It is promoted again, or has memory again.
Accept ==
    /\ refusing
    /\ refusing' = FALSE
    /\ UNCHANGED <<pc, net, loader, executed, refused, faults>>

\* SET k is executed or refused, and answered.
ServerSet(k) ==
    \/ /\ ~refusing
       /\ executed' = executed \cup {k} /\ replies' = Append(replies, "OK")
       /\ UNCHANGED refused
    \/ /\ refusing /\ Cardinality(refused \cup {k}) <= MaxRefused
       /\ refused' = refused \cup {k} /\ replies' = Append(replies, "error")
       /\ UNCHANGED executed

\* The next command is executed. Of an INFO that was given up the client may have
\* consumed a part: the rest is no reply, but may begin with an integer.
Serve ==
    /\ conn = "open" /\ inbox # <<>>
    /\ \/ /\ Head(inbox) = Info
          /\ \E r \in {<<"info">>}
                \cup (IF shifted THEN {<<"garbled">>, <<"info", "garbled">>} ELSE {}) :
                replies' = replies \o r
          /\ UNCHANGED <<executed, refused>>
       \/ Head(inbox) # Info /\ ServerSet(Head(inbox))
    /\ inbox' = Tail(inbox)
    /\ UNCHANGED <<pc, conn, shifted, loader, refusing, faults>>

\* The connection breaks: some of the commands are executed, some of the
\* replies arrive.
Break ==
    /\ conn = "open" /\ pc \notin {"done", "fatal", "panic"}
    /\ Fault("break")
    /\ conn' = "broken"
    /\ ExecuteReceived
    /\ \E k \in 0 .. Len(replies) : replies' = SubSeq(replies, 1, k)
    /\ inbox' = <<>>
    /\ UNCHANGED <<pc, shifted, loader, refused, refusing>>

Loader ==
    \/ Dial \/ DialFatal \/ DialFailed \/ InfoReply \/ InfoError
    \/ Generate \/ WriteBatch \/ WriteError \/ Panic
    \/ ReadReply \/ ReadError \/ FlushDone \/ GiveUp \/ Reconnect

Next == Loader \/ Stop \/ Serve \/ Break \/ Refuse \/ Accept

Spec == Init /\ [][Next]_vars

\* main runs on, and the server answers as long as the connection lasts. Nothing
\* makes a server accept SETs again.
FairSpec == Spec /\ WF_vars(Loader) /\ WF_vars(Serve)

-----------------------------------------------------------------------------

\* A key leaves the batch only when the server has answered its SET, through
\* broken connections, timeouts and retries, on a connection whose replies are
\* "in sync" (main.go:290-341).
AnsweredBeforeDropped ==
    [][~shifted /\ batch' # batch /\ batch' = <<>>
       => ToSet(batch) \subseteq executed \cup refused]_vars

\* A retried batch has one more key each time, because the loop appends before
\* it flushes (main.go:356-361); it grows by no more than that.
BatchBounded == Len(batch) <= BatchSize + faults

\* A replayed batch counts its acknowledged keys again, so that keyCount runs
\* ahead of the calls of genKeyValue whose SET was executed: by less than a batch
\* for each fault, late and shifted replies included (main.go:310-339). It says
\* nothing of the names the server holds: calls that make the same name count
\* each time, without any fault.
OvercountBounded ==
    written <= Cardinality(executed) + faults * (BatchSize + faults - 2)

\* Unless it panics or cannot connect at first, the loader ends, whatever the
\* connection and the replies were, if the servers do not refuse for ever
\* (main.go:348-396). They may: the connection to a demoted master is kept
\* (main.go:319-327), nothing is counted on it, and the loop goes round until a
\* signal stops it.
Finishes ==
    <>[]~refusing /\ [](pc \notin {"panic", "fatal"}) => <>(pc = "done")

\* "[RECONNECT] dial failed: %v - retrying in 2s" (main.go:369): a failed dial
\* is followed by another attempt.
DialRetried == pc # "panic"
=============================================================================
