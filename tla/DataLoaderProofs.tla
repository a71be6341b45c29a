-------------------------- MODULE DataLoaderProofs --------------------------
(***************************************************************************)
(* Proofs about the data loader: how long a batch gets, which keys have    *)
(* been answered when it is dropped, and how far writtenBytes runs ahead   *)
(* of what the server has executed.                                        *)
(***************************************************************************)
EXTENDS DataLoader, SequenceTheorems, FiniteSetTheorems, TLAPS

-----------------------------------------------------------------------------
(* The inductive invariant.                                                *)

\* The faults that failed flushes have been charged with: a connection that is
\* broken or shifted has cost a fault, and may still fail one flush for it.
Active == pc \in {"info", "loop", "flush", "read"}
Spent  == IF Active /\ (conn = "broken" \/ shifted) THEN faults - 1 ELSE faults

\* A retried batch is longer by one key for each fault charged, and a flush fails
\* only on a fault.
BatchInv ==
    /\ Spent >= 0
    /\ pc \in {"dial", "info", "loop", "failed"} => Len(batch) <= BatchSize - 1 + Spent
    /\ pc \in {"flush", "read"} => Len(batch) <= BatchSize + Spent
    /\ Len(batch) <= BatchSize + faults
    /\ \A i \in 1 .. Len(replies) : replies[i] = "garbled" => shifted

\* While replies are in sync, the first replies of a flush answer the first keys
\* of the batch, and the commands for the others are still on their way.
Answered == next - 1 + Len(replies)
SyncInv ==
    /\ conn # "open" => inbox = <<>>
    /\ ~shifted /\ pc = "info" => Len(inbox) + Len(replies) <= 1
    /\ ~shifted /\ pc = "info" /\ conn = "open" => Len(inbox) + Len(replies) = 1
    /\ ~shifted /\ pc \in {"loop", "flush"} => inbox = <<>> /\ replies = <<>>
    /\ pc = "read" => next >= 1
    /\ ~shifted /\ pc = "read" =>
          /\ Answered <= Len(batch)
          /\ \A i \in 1 .. Answered : batch[i] \in executed \cup refused
          /\ conn = "open" =>
                /\ Len(inbox) = Len(batch) - Answered
                /\ \A i \in 1 .. Len(inbox) : inbox[i] = batch[Answered + i]

\* The keys on their way are distinct, and older than those of the batch until
\* the batch is sent.
Increasing(s) == \A i, j \in 1 .. Len(s) : i < j => s[i] < s[j]
KeyInv ==
    /\ Increasing(batch) /\ Increasing(inbox)
    /\ pc \in {"info", "loop", "flush"} =>
          \A i \in 1 .. Len(inbox), j \in 1 .. Len(batch) : inbox[i] < batch[j]

\* The replies that are still to be counted.
OKs(s) == {i \in 1 .. Len(s) : s[i] = "OK"}

\* What is counted is executed, less the keys that will be sent again; a failed
\* flush gives up fewer keys than it has.
Lead == Spent * (BatchSize + faults - 2)
CountInv ==
    /\ pc \in {"info", "loop", "flush"} =>
          written + Cardinality(OKs(replies))
          <= Cardinality(executed \ (ToSet(inbox) \cup ToSet(batch))) + Lead
    /\ pc = "read" =>
          /\ written + Cardinality(OKs(replies))
             <= Cardinality(executed \ ToSet(inbox)) + Lead
          /\ written <= Cardinality(executed \ ToSet(batch)) + Lead + next - 1
    /\ pc \in {"dial", "failed"} =>
          written <= Cardinality(executed \ ToSet(batch)) + Lead
    /\ written <= Cardinality(executed) + faults * (BatchSize + faults - 2)

-----------------------------------------------------------------------------
(* Sequences.                                                              *)

\* What taking a reply or a command off the head of a stream leaves.
LEMMA Behead ==
    ASSUME NEW S, NEW s \in Seq(S), s # <<>>
    PROVE  /\ Head(s) = s[1] /\ s[1] \in S
           /\ Tail(s) \in Seq(S) /\ Len(s) \in Nat \ {0}
           /\ Len(Tail(s)) = Len(s) - 1
           /\ \A i \in 1 .. Len(Tail(s)) : Tail(s)[i] = s[i + 1]
BY HeadTailProperties, LenProperties, EmptySeq, ElementOfSeq

\* What a connection that breaks leaves of a stream (Break, Reconnect).
LEMMA Prefix ==
    ASSUME NEW S, NEW s \in Seq(S), NEW k \in 0 .. Len(s)
    PROVE  /\ SubSeq(s, 1, k) \in Seq(S) /\ Len(SubSeq(s, 1, k)) = k
           /\ \A i \in 1 .. k : SubSeq(s, 1, k)[i] = s[i]
<1>1. Len(s) \in Nat
  BY LenProperties
<1>2. \A i \in 1 .. k : s[i] \in S
  BY <1>1, ElementOfSeq
<1> QED BY <1>1, <1>2, SubSeqProperties

\* The elements of a sequence are those at its positions.
LEMMA Elements ==
    ASSUME NEW S, NEW s \in Seq(S)
    PROVE  /\ ToSet(s) = {s[i] : i \in 1 .. Len(s)} /\ ToSet(s) \subseteq S
           /\ Len(s) \in Nat /\ \A i \in 1 .. Len(s) : s[i] \in S
BY LenProperties, ElementOfSeq DEF ToSet

\* The keys that a server executes from what it has received.
LEMMA Received ==
    ASSUME TypeOK, ExecuteReceived
    PROVE  executed \subseteq executed' /\ executed' \subseteq 1 .. idx
<1>1. Len(inbox) \in Nat
  BY LenProperties DEF TypeOK
<1>2. PICK k \in 0 .. Len(inbox) :
         executed' = executed \cup (ToSet(SubSeq(inbox, 1, k)) \ {Info})
  BY <1>1 DEF ExecuteReceived, TypeOK
<1>3. SubSeq(inbox, 1, k) \in Seq(0 .. idx)
  BY Prefix DEF TypeOK
<1>4. ToSet(SubSeq(inbox, 1, k)) \subseteq 0 .. idx
  BY <1>3, Elements, Zenon
<1>5. ToSet(SubSeq(inbox, 1, k)) \ {Info} \subseteq 1 .. idx
  BY <1>4 DEF Info, TypeOK
<1>6. executed \subseteq 1 .. idx
  BY DEF TypeOK
<1> QED BY <1>2, <1>5, <1>6, Zenon

-----------------------------------------------------------------------------
(* Type correctness.                                                       *)

\* Every step of the loader, the server and the network keeps the types.
LEMMA TypeNext == TypeOK /\ [Next]_vars => TypeOK'
<1> SUFFICES ASSUME TypeOK, Next PROVE TypeOK'
  BY Zenon DEF TypeOK, vars
<1>0. inbox # <<>> /\ Head(inbox) # Info => Head(inbox) \in 1 .. idx
  BY Behead DEF TypeOK, Info
<1> USE DEF Next, Loader, Dial, DialFatal, DialFailed, InfoReply, InfoError,
            Generate, Stop, WriteBatch, WriteError, Panic, ReadReply, ReadError,
            FlushDone, GiveUp, Reconnect, Serve, Break, Refuse, Accept, net,
            server, loader
<1>1. pc' \in {"dial", "info", "loop", "flush", "read", "failed", "done", "fatal", "panic"}
  BY DEF TypeOK
<1>2. conn' \in {"nil", "open", "broken"}
  BY DEF TypeOK
<1>3. /\ idx' \in Nat /\ next' \in Nat /\ written' \in Nat
      /\ idx' = idx \/ idx' = idx + 1
  <2>1. idx \in Nat /\ next \in Nat /\ written \in Nat
    BY Zenon DEF TypeOK
  <2>2. idx' \in {idx, idx + 1}
    BY Zenon
  <2>3. next' \in {next, 1, next + 1}
    BY Zenon
  <2>4. written' \in {written, written + 1}
    BY Zenon
  <2>5. \A a \in Nat : \A b \in {a, 1, a + 1} : b \in Nat
    OBVIOUS
  <2> QED BY <2>1, <2>2, <2>3, <2>4, <2>5, Zenon
<1>4. faults' \in Nat
  <2>1. faults' = faults \/ faults' = faults + 1
    BY Zenon DEF Fault, NoFault
  <2> QED BY <2>1 DEF TypeOK
<1>5. final' \in BOOLEAN /\ shifted' \in BOOLEAN
  BY Zenon DEF TypeOK
<1>6. batch' \in Seq(1 .. idx')
  <2>1. /\ <<>> \in Seq(1 .. idx) /\ batch \in Seq(1 .. idx)
        /\ Append(batch, idx + 1) \in Seq(1 .. (idx + 1))
    BY DEF TypeOK
  <2>2. CASE Generate
    BY <2>1, <2>2
  <2>3. CASE ~Generate
    BY <2>1, <2>3, Zenon DEF TypeOK
  <2> QED BY <2>2, <2>3
<1>7. inbox' \in Seq(0 .. idx')
  <2>1. /\ <<>> \in Seq(0 .. idx) /\ <<Info>> \in Seq(0 .. idx)
        /\ inbox \in Seq(0 .. idx) /\ inbox \in Seq(0 .. (idx + 1))
        /\ batch \in Seq(0 .. idx)
    BY DEF TypeOK, Info
  <2>2. inbox \o batch \in Seq(0 .. idx)
    BY <2>1, ConcatProperties
  <2>3. inbox # <<>> => Tail(inbox) \in Seq(0 .. idx)
    BY <2>1, Behead
  <2>4. CASE Generate
    BY <2>1, <2>4
  <2>5. CASE ~Generate
    BY <2>1, <2>2, <2>3, <2>5, Zenon DEF TypeOK
  <2> QED BY <2>4, <2>5
<1>8. replies' \in Seq(ReplyKinds)
  <2>1. replies \in Seq(ReplyKinds) /\ <<>> \in Seq(ReplyKinds)
    BY DEF TypeOK
  <2>2. CASE Serve
    <3>1. /\ Append(replies, "OK") \in Seq(ReplyKinds)
          /\ Append(replies, "error") \in Seq(ReplyKinds)
      BY <2>1 DEF ReplyKinds
    <3>2. "info" \in ReplyKinds /\ "garbled" \in ReplyKinds
      BY DEF ReplyKinds
    <3>3. {<<"info">>, <<"garbled">>, <<"info", "garbled">>} \subseteq Seq(ReplyKinds)
      BY <3>2
    <3>4. \A r \in Seq(ReplyKinds) : replies \o r \in Seq(ReplyKinds)
      BY <2>1, ConcatProperties
    <3> QED BY <2>2, <3>1, <3>3, <3>4, Zenon DEF ServerSet
  <2>3. CASE Break
    BY <2>1, <2>3, Prefix
  <2>4. CASE ~Serve /\ ~Break
    <3>1. replies # <<>> => Tail(replies) \in Seq(ReplyKinds)
      BY <2>1, Behead
    <3> QED BY <2>1, <2>4, <3>1, Zenon
  <2> QED BY <2>2, <2>3, <2>4, Zenon
<1>9. executed' \subseteq 1 .. idx'
  <2>1. CASE Reconnect \/ Break
    BY <2>1, Received, Zenon
  <2>2. CASE Serve
    <3>1. Head(inbox) # Info => Head(inbox) \in 1 .. idx
      BY <1>0, <2>2, Zenon
    <3> QED BY <2>2, <3>1, Zenon DEF TypeOK, ServerSet
  <2>3. CASE ~(Reconnect \/ Break \/ Serve)
    <3>1. UNCHANGED executed
      BY <2>3
    <3> QED BY <1>3, <3>1 DEF TypeOK
  <2> QED BY <2>1, <2>2, <2>3
<1>10. refused' \subseteq 1 .. idx'
  <2>1. CASE Serve
    <3>1. Head(inbox) # Info => Head(inbox) \in 1 .. idx
      BY <1>0, <2>1, Zenon
    <3> QED BY <2>1, <3>1, Zenon DEF TypeOK, ServerSet
  <2>2. CASE ~Serve
    <3>1. UNCHANGED refused
      BY <2>2
    <3> QED BY <1>3, <3>1 DEF TypeOK
  <2> QED BY <2>1, <2>2
<1>11. refusing' \in BOOLEAN
  <2>1. refusing' \in {refusing, TRUE, FALSE}
    BY Zenon
  <2> QED BY <2>1, Zenon DEF TypeOK
<1> HIDE DEF Next
<1> QED BY <1>1, <1>2, <1>3, <1>4, <1>5, <1>6, <1>7, <1>8, <1>9, <1>10, <1>11
        DEF TypeOK

\* Nothing is generated, sent or executed at first.
LEMMA TypeInit == Init => TypeOK
<1> SUFFICES ASSUME Init PROVE TypeOK
  OBVIOUS
<1>1. batch \in Seq(1 .. idx) /\ inbox \in Seq(0 .. idx) /\ replies \in Seq(ReplyKinds)
  BY DEF Init
<1>2. final \in BOOLEAN /\ shifted \in BOOLEAN /\ refusing \in BOOLEAN
  BY Zenon DEF Init
<1> QED BY <1>1, <1>2 DEF Init, TypeOK

\* The loader's variables keep their types: what is sent, executed or refused is
\* a key that genKeyValue made (main.go:290-396).
THEOREM TypeCorrect == Spec => []TypeOK
BY TypeInit, TypeNext, PTL DEF Spec

-----------------------------------------------------------------------------
(* The length of a batch.                                                  *)

\* While replies are in sync, each command gets one (Serve).
LEMMA ServeInSync ==
    ASSUME Serve, ~shifted
    PROVE  \/ replies' = replies \o <<"info">>
           \/ \E r \in {"OK", "error"} : replies' = Append(replies, r)
<1>1. CASE Head(inbox) = Info
  <2>1. (IF shifted THEN {<<"garbled">>, <<"info", "garbled">>} ELSE {}) = {}
    OBVIOUS
  <2> QED BY <1>1, <2>1, Zenon DEF Serve
<1>2. CASE Head(inbox) # Info
  BY <1>2 DEF Serve, ServerSet
<1> QED BY <1>1, <1>2

\* Only the rest of an INFO that was given up is no reply (Serve).
LEMMA GarbledNext ==
    ASSUME TypeOK, Next,
           \A i \in 1 .. Len(replies) : replies[i] = "garbled" => shifted
    PROVE  \A i \in 1 .. Len(replies') : replies'[i] = "garbled" => shifted'
<1>1. replies \in Seq(ReplyKinds) /\ Len(replies) \in Nat
  BY LenProperties DEF TypeOK
<1>2. CASE Serve
  <2>1. UNCHANGED shifted
    BY <1>2 DEF Serve
  <2>2. ASSUME NEW r \in {"OK", "error"}, replies' = Append(replies, r)
        PROVE  \A i \in 1 .. Len(replies') : replies'[i] = "garbled" => shifted'
    BY <1>1, <2>1, <2>2, AppendProperties
  <2>3. ASSUME ~shifted, replies' = replies \o <<"info">>
        PROVE  \A i \in 1 .. Len(replies') : replies'[i] # "garbled"
    <3>1. <<"info">> \in Seq(ReplyKinds) /\ Len(<<"info">>) = 1 /\ <<"info">>[1] = "info"
      BY DEF ReplyKinds
    <3> QED BY <1>1, <2>3, <3>1, ConcatProperties
  <2>4. CASE shifted
    BY <2>1, <2>4
  <2>5. CASE ~shifted
    BY <1>2, <2>2, <2>3, <2>5, ServeInSync
  <2> QED BY <2>4, <2>5
<1>3. CASE Break
  <2>1. PICK k \in 0 .. Len(replies) : replies' = SubSeq(replies, 1, k)
    BY <1>3 DEF Break
  <2> QED BY <1>1, <1>3, <2>1, Prefix DEF Break
<1>4. CASE replies' = <<>>
  BY <1>4
<1>5. CASE InfoReply \/ ReadReply
  <2>1. replies # <<>> /\ replies' = Tail(replies) /\ UNCHANGED shifted
    BY <1>5 DEF InfoReply, ReadReply
  <2> QED BY <1>1, <2>1, Behead
<1>6. CASE UNCHANGED <<replies, shifted>>
  BY <1>6
<1> QED BY <1>2, <1>3, <1>4, <1>5, <1>6
        DEF Next, Loader, Dial, DialFatal, DialFailed, InfoError, Generate, Stop,
            WriteBatch, WriteError, Panic, ReadError, FlushDone, GiveUp, Reconnect,
            Refuse, Accept, net

\* Every step keeps the bounds on the batch.
LEMMA BatchNext ==
    ASSUME TypeOK, BatchInv, Next
    PROVE  BatchInv'
<1>1. /\ BatchSize \in Nat \ {0} /\ faults \in Nat /\ Len(batch) \in Nat
      /\ shifted \in BOOLEAN /\ batch \in Seq(1 .. idx)
  BY LoaderAssumption, LenProperties DEF TypeOK
<1>2. \A i \in 1 .. Len(replies') : replies'[i] = "garbled" => shifted'
  BY GarbledNext DEF BatchInv
<1> USE DEF BatchInv, Spent, Active, Fault, NoFault
<1>3. CASE Dial \/ DialFailed
  <2>1. /\ pc = "dial" /\ pc' \in {"info", "loop"} /\ conn' # "broken" /\ ~shifted'
        /\ batch' = batch /\ (faults' = faults \/ faults' = faults + 1)
    BY <1>3, Zenon DEF Dial, DialFailed, loader
  <2>2. Spent = faults /\ Spent' = faults'
    BY <2>1
  <2> QED BY <1>1, <1>2, <2>1, <2>2
<1>12. CASE DialFatal \/ InfoReply
  BY <1>1, <1>2, <1>12 DEF DialFatal, InfoReply, net, loader
<1>4. CASE InfoError
  BY <1>1, <1>2, <1>4 DEF InfoError, loader
<1>5. CASE Generate
  <2>1. Len(batch') = Len(batch) + 1
    BY <1>1, <1>5, AppendProperties DEF Generate
  <2> QED BY <1>1, <1>2, <1>5, <2>1 DEF Generate, net
<1>6. CASE Stop \/ WriteBatch \/ WriteError \/ Panic
  BY <1>1, <1>2, <1>6 DEF Stop, WriteBatch, WriteError, Panic, net, loader
<1>7. CASE ReadReply \/ GiveUp \/ Reconnect
  BY <1>1, <1>2, <1>7 DEF ReadReply, GiveUp, Reconnect, net, loader
<1>8. CASE ReadError
  <2>1. replies # <<>> /\ Head(replies) = "garbled" => shifted
    BY Behead DEF TypeOK
  <2> QED BY <1>1, <1>2, <1>8, <2>1 DEF ReadError, net, loader
<1>9. CASE FlushDone
  <2>1. Len(batch') = 0
    BY <1>9 DEF FlushDone
  <2> QED BY <1>1, <1>2, <1>9, <2>1 DEF FlushDone, net
<1>10. CASE Serve \/ Accept
  BY <1>1, <1>2, <1>10 DEF Serve, Accept, net, loader
<1>11. CASE Break \/ Refuse
  BY <1>1, <1>2, <1>11 DEF Break, Refuse, net, loader
<1> QED BY <1>3, <1>4, <1>5, <1>6, <1>7, <1>8, <1>9, <1>10, <1>11, <1>12
        DEF Next, Loader

-----------------------------------------------------------------------------
(* Replies in sync.                                                        *)

\* Connecting, and the steps after which no reply is expected.
LEMMA SyncConnect ==
    ASSUME TypeOK, SyncInv,
           Dial \/ DialFatal \/ DialFailed \/ InfoReply \/ InfoError
    PROVE  SyncInv'
<1>1. /\ inbox \in Seq(0 .. idx) /\ Len(inbox) \in Nat /\ shifted \in BOOLEAN
      /\ replies \in Seq(ReplyKinds) /\ Len(replies) \in Nat
  BY LenProperties DEF TypeOK
<1>2. CASE Dial
  <2>1. /\ pc' = "info" /\ conn' = "open" /\ inbox' = <<Info>> /\ replies' = <<>>
    BY <1>2 DEF Dial
  <2> QED BY <2>1 DEF SyncInv
<1>3. CASE DialFatal
  BY <1>3 DEF DialFatal, SyncInv, net
<1>4. CASE DialFailed
  BY <1>4 DEF DialFailed, SyncInv
<1>5. CASE InfoReply
  <2>1. ~shifted => inbox = <<>> /\ replies' = <<>>
    BY <1>1, <1>5, Behead, EmptySeq DEF InfoReply, SyncInv
  <2> QED BY <1>1, <1>5, <2>1 DEF InfoReply, SyncInv
<1>6. CASE InfoError
  BY <1>1, <1>6 DEF InfoError, SyncInv
<1> QED BY <1>2, <1>3, <1>4, <1>5, <1>6

\* The loop and flush, up to the replies.
LEMMA SyncLoop ==
    ASSUME TypeOK, SyncInv,
           Generate \/ Stop \/ WriteError \/ Panic \/ ReadError \/ GiveUp \/ Reconnect
    PROVE  SyncInv'
<1>1. CASE Generate \/ Stop
  BY <1>1 DEF Generate, Stop, SyncInv, net
<1>2. CASE WriteError \/ Panic \/ ReadError \/ GiveUp
  BY <1>2 DEF WriteError, Panic, ReadError, GiveUp, SyncInv, net
<1>3. CASE Reconnect
  BY <1>3 DEF Reconnect, SyncInv
<1> QED BY <1>1, <1>2, <1>3

\* A flush: the batch is sent, and one reply is read for each key.
LEMMA SyncFlush ==
    ASSUME TypeOK, SyncInv, WriteBatch \/ ReadReply \/ FlushDone
    PROVE  SyncInv'
<1>1. /\ inbox \in Seq(0 .. idx) /\ Len(inbox) \in Nat /\ shifted \in BOOLEAN
      /\ replies \in Seq(ReplyKinds) /\ Len(replies) \in Nat
      /\ batch \in Seq(1 .. idx) /\ Len(batch) \in Nat /\ next \in Nat
  BY LenProperties DEF TypeOK
<1>2. CASE WriteBatch
  <2>1. /\ pc' = "read" /\ next' = 1 /\ pc = "flush"
        /\ UNCHANGED <<conn, replies, shifted, batch, executed, refused>>
        /\ conn # "open" => inbox' = inbox
        /\ conn = "open" => inbox' = inbox \o batch
    BY <1>2 DEF WriteBatch, server
  <2>2. CASE shifted
    BY <2>1, <2>2 DEF SyncInv
  <2>3. CASE ~shifted
    <3>1. inbox = <<>> /\ replies = <<>> /\ Len(replies) = 0
      BY <2>1, <2>3 DEF SyncInv
    <3>2. conn = "open" => inbox' = batch
      BY <1>1, <2>1, <3>1, ConcatEmptySeq
    <3>3. Answered' = 0
      BY <2>1, <3>1 DEF Answered
    <3> QED BY <1>1, <2>1, <2>3, <3>1, <3>2, <3>3 DEF SyncInv
  <2> QED BY <2>2, <2>3
<1>3. CASE ReadReply
  <2>1. /\ pc = "read" /\ pc' = "read" /\ next' = next + 1 /\ next >= 1
        /\ replies # <<>> /\ replies' = Tail(replies)
        /\ UNCHANGED <<conn, inbox, shifted, batch, executed, refused>>
    BY <1>3 DEF ReadReply, server, SyncInv
  <2>2. Len(replies') = Len(replies) - 1
    BY <1>1, <2>1, Behead
  <2>3. Answered' = Answered
    BY <1>1, <2>1, <2>2 DEF Answered
  <2> QED BY <1>1, <2>1, <2>3 DEF SyncInv
<1>4. CASE FlushDone
  <2>1. /\ pc = "read" /\ pc' \in {"loop", "done"} /\ next > Len(batch)
        /\ UNCHANGED <<conn, inbox, replies, shifted>>
    BY <1>4 DEF FlushDone, net
  <2>2. ~shifted => Answered <= Len(batch)
    BY <2>1 DEF SyncInv
  <2>3. ~shifted => Len(replies) = 0 /\ Answered = Len(batch)
    BY <1>1, <2>1, <2>2 DEF Answered
  <2>4. ~shifted => replies = <<>> /\ inbox = <<>>
    <3>1. ~shifted /\ conn = "open" => Len(inbox) = 0
      BY <1>1, <2>1, <2>3 DEF SyncInv
    <3> QED BY <1>1, <2>3, <3>1, EmptySeq DEF SyncInv
  <2>5. conn' # "open" => inbox' = <<>>
    BY <2>1 DEF SyncInv
  <2> QED BY <1>1, <2>1, <2>4, <2>5 DEF SyncInv
<1> QED BY <1>2, <1>3, <1>4

\* The server answers a command, or the connection breaks.
LEMMA SyncServer ==
    ASSUME TypeOK, SyncInv, Serve \/ Break
    PROVE  SyncInv'
<1>1. /\ inbox \in Seq(0 .. idx) /\ Len(inbox) \in Nat /\ shifted \in BOOLEAN
      /\ replies \in Seq(ReplyKinds) /\ Len(replies) \in Nat
      /\ batch \in Seq(1 .. idx) /\ Len(batch) \in Nat /\ next \in Nat /\ idx \in Nat
  BY LenProperties DEF TypeOK
<1>2. CASE Serve
  <2>1. /\ conn = "open" /\ inbox # <<>> /\ inbox' = Tail(inbox)
        /\ UNCHANGED <<pc, conn, shifted, batch, next>>
    BY <1>2 DEF Serve, loader
  <2>2. CASE shifted
    BY <2>1, <2>2 DEF SyncInv
  <2>3. CASE ~shifted
    <3>1. /\ Head(inbox) = inbox[1] /\ Len(inbox) > 0 /\ Len(inbox') = Len(inbox) - 1
          /\ \A i \in 1 .. Len(inbox') : inbox'[i] = inbox[i + 1]
      BY <1>1, <2>1, Behead
    <3>2. Len(replies') = Len(replies) + 1
      <4>1. \A r : Len(Append(replies, r)) = Len(replies) + 1
        BY <1>1
      <4>2. Len(replies \o <<"info">>) = Len(replies) + 1
        BY <1>1
      <4> QED BY <1>2, <2>3, <4>1, <4>2, ServeInSync
    <3>3. CASE pc = "info"
      BY <1>1, <2>1, <2>3, <3>1, <3>2, <3>3 DEF SyncInv
    <3>4. CASE pc \in {"loop", "flush"}
      BY <2>1, <2>3, <3>4 DEF SyncInv
    <3>5. CASE pc = "read"
      <4>1. /\ Answered <= Len(batch) /\ Len(inbox) = Len(batch) - Answered
            /\ \A i \in 1 .. Len(inbox) : inbox[i] = batch[Answered + i]
            /\ \A i \in 1 .. Answered : batch[i] \in executed \cup refused
            /\ next >= 1
        BY <2>1, <2>3, <3>5 DEF SyncInv
      <4>2. Answered \in Nat /\ Answered' = Answered + 1
        BY <1>1, <2>1, <3>2, <4>1 DEF Answered
      <4> HIDE DEF Answered
      <4>3. Head(inbox) = batch[Answered + 1] /\ Answered + 1 \in 1 .. Len(batch)
        BY <1>1, <3>1, <4>1, <4>2
      <4>4. Head(inbox) # Info
        BY <1>1, <4>3, ElementOfSeq DEF Info
      <4>5. \A i \in 1 .. Answered' : batch'[i] \in executed' \cup refused'
        <5>1. /\ Head(inbox) \in executed' \cup refused'
              /\ executed \cup refused \subseteq executed' \cup refused'
          BY <1>2, <4>4 DEF Serve, ServerSet
        <5> QED BY <2>1, <4>1, <4>2, <4>3, <5>1
      <4>6. /\ Len(inbox') = Len(batch') - Answered'
            /\ \A i \in 1 .. Len(inbox') : inbox'[i] = batch'[Answered' + i]
        <5>1. Len(inbox') = Len(batch') - Answered'
          BY <1>1, <2>1, <3>1, <4>1, <4>2
        <5>2. ASSUME NEW i \in 1 .. Len(inbox') PROVE inbox'[i] = batch'[Answered' + i]
          <6>1. i + 1 \in 1 .. Len(inbox) /\ inbox'[i] = inbox[i + 1]
            BY <1>1, <3>1
          <6>2. inbox[i + 1] = batch[Answered + (i + 1)]
            BY <4>1, <6>1
          <6>3. Answered + (i + 1) = Answered' + i
            BY <4>2
          <6> QED BY <2>1, <6>1, <6>2, <6>3
        <5> QED BY <5>1, <5>2
      <4>7. Answered' <= Len(batch')
        BY <1>1, <2>1, <4>2, <4>3
      <4> QED BY <2>1, <2>3, <3>5, <4>1, <4>5, <4>6, <4>7 DEF SyncInv
    <3>6. CASE pc \notin {"info", "loop", "flush", "read"}
      BY <2>1, <3>6 DEF SyncInv
    <3> QED BY <3>3, <3>4, <3>5, <3>6
  <2> QED BY <2>2, <2>3
<1>3. CASE Break
  <2>1. /\ conn' = "broken" /\ inbox' = <<>> /\ Len(inbox') = 0
        /\ UNCHANGED <<pc, shifted, batch, next, refused>>
        /\ executed \subseteq executed'
    BY <1>3, Received DEF Break, loader
  <2>2. PICK k \in 0 .. Len(replies) : replies' = SubSeq(replies, 1, k)
    BY <1>3, Zenon DEF Break
  <2>3. Len(replies') = k /\ replies' \in Seq(ReplyKinds)
    BY <1>1, <2>2, Prefix
  <2>4. replies = <<>> => replies' = <<>>
    BY <1>1, <2>3, EmptySeq
  <2>5. ~shifted /\ pc = "info" => Len(inbox') + Len(replies') <= 1
    BY <1>1, <2>1, <2>3 DEF SyncInv
  <2>6. ~shifted /\ pc = "read" =>
           Answered' <= Len(batch') /\ \A i \in 1 .. Answered' : batch'[i] \in executed' \cup refused'
    <3>1. Answered' <= Answered /\ Answered \in Int /\ Answered' \in Int
      BY <1>1, <2>1, <2>3 DEF Answered
    <3> HIDE DEF Answered
    <3> QED BY <1>1, <2>1, <3>1 DEF SyncInv
  <2> QED BY <2>1, <2>4, <2>5, <2>6 DEF SyncInv
<1> QED BY <1>2, <1>3

\* Every step keeps the replies in sync.
LEMMA SyncNext ==
    ASSUME TypeOK, SyncInv, Next
    PROVE  SyncInv'
<1>1. CASE Refuse \/ Accept
  BY <1>1 DEF Refuse, Accept, SyncInv, Answered, net, loader
<1> QED BY <1>1, SyncConnect, SyncLoop, SyncFlush, SyncServer DEF Next, Loader

-----------------------------------------------------------------------------
(* Keys on their way.                                                      *)

\* A new key is the largest (Generate).
LEMMA IncreasingAppend ==
    ASSUME NEW s \in Seq(Int), Increasing(s), NEW x \in Int,
           \A i \in 1 .. Len(s) : s[i] < x
    PROVE  Increasing(Append(s, x))
<1>1. /\ Len(s) \in Nat /\ Len(Append(s, x)) = Len(s) + 1
      /\ Append(s, x)[Len(s) + 1] = x
      /\ \A i \in 1 .. Len(s) : Append(s, x)[i] = s[i]
  BY LenProperties, AppendProperties
<1> SUFFICES ASSUME NEW i \in 1 .. Len(s) + 1, NEW j \in 1 .. Len(s) + 1, i < j
             PROVE  Append(s, x)[i] < Append(s, x)[j]
  BY <1>1 DEF Increasing
<1>2. CASE j = Len(s) + 1
  BY <1>1, <1>2
<1>3. CASE j # Len(s) + 1
  BY <1>1, <1>3 DEF Increasing
<1> QED BY <1>2, <1>3

\* The keys of a batch come after those on their way (WriteBatch).
LEMMA IncreasingConcat ==
    ASSUME NEW s \in Seq(Int), NEW t \in Seq(Int), Increasing(s), Increasing(t),
           \A i \in 1 .. Len(s), j \in 1 .. Len(t) : s[i] < t[j]
    PROVE  Increasing(s \o t)
<1>1. /\ Len(s) \in Nat /\ Len(t) \in Nat /\ Len(s \o t) = Len(s) + Len(t)
      /\ \A i \in 1 .. Len(s) + Len(t) :
            (s \o t)[i] = IF i <= Len(s) THEN s[i] ELSE t[i - Len(s)]
  BY LenProperties, ConcatProperties
<1> SUFFICES ASSUME NEW i \in 1 .. Len(s) + Len(t), NEW j \in 1 .. Len(s) + Len(t), i < j
             PROVE  (s \o t)[i] < (s \o t)[j]
  BY <1>1 DEF Increasing
<1>2. CASE j <= Len(s)
  BY <1>1, <1>2 DEF Increasing
<1>3. CASE i <= Len(s) /\ j > Len(s)
  BY <1>1, <1>3
<1>4. CASE i > Len(s)
  <2>1. /\ i - Len(s) \in 1 .. Len(t) /\ j - Len(s) \in 1 .. Len(t)
        /\ i - Len(s) < j - Len(s)
    BY <1>1, <1>4
  <2>2. (s \o t)[i] = t[i - Len(s)] /\ (s \o t)[j] = t[j - Len(s)]
    BY <1>1, <1>4
  <2> QED BY <2>1, <2>2, Zenon DEF Increasing
<1> QED BY <1>1, <1>2, <1>3, <1>4

\* The server takes the commands in order (Serve).
LEMMA IncreasingTail ==
    ASSUME NEW s \in Seq(Int), s # <<>>, Increasing(s)
    PROVE  /\ Increasing(Tail(s))
           /\ \A i \in 1 .. Len(Tail(s)) : Head(s) < Tail(s)[i]
<1>1. /\ Head(s) = s[1] /\ Len(s) \in Nat \ {0} /\ Len(Tail(s)) = Len(s) - 1
      /\ \A i \in 1 .. Len(Tail(s)) : Tail(s)[i] = s[i + 1]
  BY Behead
<1>2. \A i \in 1 .. Len(Tail(s)) : i + 1 \in 2 .. Len(s)
  BY <1>1
<1> QED BY <1>1, <1>2 DEF Increasing

\* Every step keeps the order of the keys.
LEMMA KeyNext ==
    ASSUME TypeOK, KeyInv, Next
    PROVE  KeyInv'
<1>1. /\ inbox \in Seq(0 .. idx) /\ Len(inbox) \in Nat /\ idx \in Nat
      /\ batch \in Seq(1 .. idx) /\ Len(batch) \in Nat
      /\ \A i \in 1 .. Len(inbox) : inbox[i] \in 0 .. idx
      /\ \A i \in 1 .. Len(batch) : batch[i] \in 1 .. idx
      /\ inbox \in Seq(Int) /\ batch \in Seq(Int)
  BY LenProperties, ElementOfSeq DEF TypeOK
<1>2. CASE Dial
  <2>1. inbox' = <<Info>> /\ Len(inbox') = 1 /\ inbox'[1] = 0 /\ batch' = batch
    BY <1>2 DEF Dial, loader, Info
  <2> QED BY <1>1, <2>1 DEF KeyInv, Increasing
<1>3. CASE DialFailed \/ Reconnect \/ Break
  <2>1. inbox' = <<>> /\ Len(inbox') = 0 /\ batch' = batch
    BY <1>3 DEF DialFailed, Reconnect, Break, loader
  <2> QED BY <2>1 DEF KeyInv, Increasing
<1>4. CASE Generate
  <2>1. /\ Len(batch') = Len(batch) + 1 /\ batch'[Len(batch) + 1] = idx + 1
        /\ \A i \in 1 .. Len(batch) : batch'[i] = batch[i]
    BY <1>1, <1>4, AppendProperties DEF Generate
  <2>2. pc = "loop" /\ inbox' = inbox
    BY <1>4 DEF Generate, net
  <2>3. Increasing(Append(batch, idx + 1))
    <3>1. Increasing(batch) /\ idx + 1 \in Int /\ batch \in Seq(Int)
      BY <1>1 DEF KeyInv
    <3>2. \A i \in 1 .. Len(batch) : batch[i] < idx + 1
      BY <1>1
    <3> QED BY <3>1, <3>2, IncreasingAppend
  <2>4. ASSUME NEW i \in 1 .. Len(inbox), NEW j \in 1 .. Len(batch')
        PROVE  inbox[i] < batch'[j]
    <3>1. CASE j = Len(batch) + 1
      BY <1>1, <2>1, <3>1
    <3>2. CASE j # Len(batch) + 1
      <4>1. j \in 1 .. Len(batch) + 1 /\ Len(batch) \in Nat
        BY <1>1, <2>1
      <4>2. j \in 1 .. Len(batch)
        BY <3>2, <4>1
      <4>3. batch'[j] = batch[j]
        BY <2>1, <4>2
      <4> QED BY <2>2, <4>2, <4>3 DEF KeyInv
    <3> QED BY <3>1, <3>2
  <2>5. batch' = Append(batch, idx + 1)
    BY <1>4 DEF Generate
  <2> QED BY <2>2, <2>3, <2>4, <2>5 DEF KeyInv, Increasing
<1>5. CASE WriteBatch
  <2>1. pc = "flush" /\ pc' = "read" /\ batch' = batch
    BY <1>5 DEF WriteBatch
  <2>2. inbox' = inbox \/ inbox' = inbox \o batch
    BY <1>5 DEF WriteBatch
  <2>3. Increasing(inbox \o batch)
    BY <1>1, <2>1, IncreasingConcat, Zenon DEF KeyInv
  <2> QED BY <2>1, <2>2, <2>3, Zenon DEF KeyInv
<1>6. CASE Serve
  <2>1. inbox # <<>> /\ inbox' = Tail(inbox) /\ UNCHANGED <<pc, batch>>
    BY <1>6 DEF Serve, loader
  <2>2. Increasing(Tail(inbox))
    BY <1>1, <2>1, IncreasingTail DEF KeyInv
  <2>3. /\ Len(Tail(inbox)) = Len(inbox) - 1
        /\ \A i \in 1 .. Len(Tail(inbox)) : Tail(inbox)[i] = inbox[i + 1]
    BY <1>1, <2>1, Behead
  <2>4. ASSUME pc \in {"info", "loop", "flush"},
               NEW i \in 1 .. Len(Tail(inbox)), NEW j \in 1 .. Len(batch)
        PROVE  Tail(inbox)[i] < batch[j]
    BY <1>1, <2>3, <2>4 DEF KeyInv
  <2> QED BY <2>1, <2>2, <2>4 DEF KeyInv, Increasing
<1>7. CASE FlushDone
  <2>1. batch' = <<>> /\ Len(batch') = 0 /\ inbox' = inbox
    BY <1>7 DEF FlushDone, net
  <2> QED BY <2>1 DEF KeyInv, Increasing
<1>8. CASE /\ UNCHANGED <<inbox, batch>>
           /\ pc' \in {"info", "loop", "flush"} => pc \in {"info", "loop", "flush"}
  BY <1>8 DEF KeyInv
<1> QED BY <1>2, <1>3, <1>4, <1>5, <1>6, <1>7, <1>8
        DEF Next, Loader, DialFatal, InfoReply, InfoError, Stop, WriteError, Panic,
            ReadReply, ReadError, GiveUp, Refuse, Accept, net, loader

-----------------------------------------------------------------------------
(* The replies to be counted.                                              *)

\* A part of a finite set has no more elements.
LEMMA CardMono ==
    ASSUME NEW S, NEW T, S \subseteq T, IsFiniteSet(T)
    PROVE  /\ IsFiniteSet(S) /\ Cardinality(S) <= Cardinality(T)
           /\ Cardinality(S) \in Nat /\ Cardinality(T) \in Nat
BY FS_Subset, FS_CardinalityType

\* A stream of replies holds finitely many.
LEMMA OKsFinite ==
    ASSUME NEW s \in Seq(ReplyKinds)
    PROVE  IsFiniteSet(OKs(s)) /\ Cardinality(OKs(s)) \in Nat
<1>1. Len(s) \in Nat /\ IsFiniteSet(1 .. Len(s))
  BY LenProperties, FS_Interval
<1> QED BY <1>1, CardMono, Zenon DEF OKs

\* No reply, no count.
LEMMA OKsEmpty == Cardinality(OKs(<<>>)) = 0
<1>1. OKs(<<>>) = {}
  BY DEF OKs
<1> QED BY <1>1, FS_EmptySet

\* One more "OK" is one more, and any other reply none (ServerSet).
LEMMA OKsAppend ==
    ASSUME NEW s \in Seq(ReplyKinds), NEW r \in ReplyKinds
    PROVE  Cardinality(OKs(Append(s, r)))
           = IF r = "OK" THEN Cardinality(OKs(s)) + 1 ELSE Cardinality(OKs(s))
<1>1. /\ Len(s) \in Nat /\ Len(Append(s, r)) = Len(s) + 1
      /\ Append(s, r)[Len(s) + 1] = r
      /\ \A i \in 1 .. Len(s) : Append(s, r)[i] = s[i]
  BY LenProperties, AppendProperties
<1>2. CASE r = "OK"
  <2>1. OKs(Append(s, r)) = OKs(s) \cup {Len(s) + 1} /\ Len(s) + 1 \notin OKs(s)
    BY <1>1, <1>2 DEF OKs
  <2> QED BY <1>2, <2>1, OKsFinite, FS_AddElement
<1>3. CASE r # "OK"
  <2>1. OKs(Append(s, r)) = OKs(s)
    BY <1>1, <1>3 DEF OKs
  <2> QED BY <1>3, <2>1
<1> QED BY <1>2, <1>3

\* What INFO leaves in the stream counts nothing (Serve).
LEMMA OKsConcat ==
    ASSUME NEW s \in Seq(ReplyKinds), NEW t \in Seq(ReplyKinds),
           \A i \in 1 .. Len(t) : t[i] # "OK"
    PROVE  OKs(s \o t) = OKs(s)
<1>1. /\ Len(s) \in Nat /\ Len(t) \in Nat /\ Len(s \o t) = Len(s) + Len(t)
      /\ \A i \in 1 .. Len(s) + Len(t) :
            (s \o t)[i] = IF i <= Len(s) THEN s[i] ELSE t[i - Len(s)]
  BY LenProperties, ConcatProperties
<1>2. \A i \in 1 .. Len(s) : i \in 1 .. Len(s) + Len(t) /\ (s \o t)[i] = s[i]
  BY <1>1
<1>3. ASSUME NEW i \in 1 .. Len(s) + Len(t), i \notin 1 .. Len(s)
      PROVE  (s \o t)[i] # "OK"
  <2>1. i - Len(s) \in 1 .. Len(t) /\ (s \o t)[i] = t[i - Len(s)]
    BY <1>1, <1>3
  <2> QED BY <2>1
<1> QED BY <1>1, <1>2, <1>3 DEF OKs

\* Replies that are lost are not counted (Break).
LEMMA OKsPrefix ==
    ASSUME NEW s \in Seq(ReplyKinds), NEW k \in 0 .. Len(s)
    PROVE  Cardinality(OKs(SubSeq(s, 1, k))) <= Cardinality(OKs(s))
<1>1. /\ Len(s) \in Nat /\ Len(SubSeq(s, 1, k)) = k
      /\ \A i \in 1 .. k : SubSeq(s, 1, k)[i] = s[i]
  BY Prefix, LenProperties
<1>2. OKs(SubSeq(s, 1, k)) \subseteq OKs(s)
  BY <1>1 DEF OKs
<1> QED BY <1>2, OKsFinite, CardMono

\* A reply that is read is counted once (ReadReply).
LEMMA OKsTail ==
    ASSUME NEW s \in Seq(ReplyKinds), s # <<>>
    PROVE  Cardinality(OKs(Tail(s)))
           <= IF Head(s) = "OK" THEN Cardinality(OKs(s)) - 1 ELSE Cardinality(OKs(s))
<1>1. /\ Head(s) = s[1] /\ Tail(s) \in Seq(ReplyKinds)
      /\ Len(s) \in Nat \ {0} /\ Len(Tail(s)) = Len(s) - 1
      /\ \A i \in 1 .. Len(Tail(s)) : Tail(s)[i] = s[i + 1]
  BY Behead
<1> DEFINE T == OKs(Tail(s))
           U == OKs(s) \ {1}
           f == [i \in T |-> i + 1]
<1>2. IsFiniteSet(OKs(s)) /\ IsFiniteSet(U) /\ Cardinality(OKs(s)) \in Nat
      /\ Cardinality(U) = IF 1 \in OKs(s) THEN Cardinality(OKs(s)) - 1
                          ELSE Cardinality(OKs(s))
  BY OKsFinite, FS_RemoveElement, Zenon
<1>3. 1 \in OKs(s) <=> Head(s) = "OK"
  BY <1>1 DEF OKs
<1>4. \A i \in T : i \in Nat /\ i + 1 \in U
  BY <1>1 DEF OKs
<1>5. f \in Injection(T, U)
  <2> HIDE DEF T, U
  <2>1. f \in [T -> U]
    BY <1>4
  <2>2. \A i, j \in T : f[i] = f[j] => i = j
    BY <1>4
  <2> HIDE DEF f
  <2> QED BY <2>1, <2>2 DEF Injection, IsInjective
<1>6. Cardinality(T) <= Cardinality(U)
  <2> HIDE DEF T, U, f
  <2> QED BY <1>2, <1>5, FS_Injection
<1> QED BY <1>2, <1>3, <1>6

-----------------------------------------------------------------------------
(* What the faults allow.                                                  *)

\* More faults allow more: products of growing factors grow.
LEMMA Products ==
    ASSUME NEW a \in Nat, NEW b \in Nat, NEW x \in Int, NEW y \in Int,
           a <= b, x <= y, b > 0 => y >= 0
    PROVE  a * x <= b * y
<1>1. CASE b = 0
  <2>1. a = 0
    BY <1>1
  <2> QED BY <1>1, <2>1
<1>2. CASE b > 0
  <2>1. \A m \in Nat, n \in Nat : m * n >= 0
    OBVIOUS
  <2>2. a * (y - x) >= 0 /\ (b - a) * y >= 0
    BY <1>2, <2>1
  <2>3. a * (y - x) = a * y - a * x /\ (b - a) * y = b * y - a * y
    OBVIOUS
  <2>4. a * x \in Int /\ a * y \in Int /\ b * y \in Int
    OBVIOUS
  <2> QED BY <2>2, <2>3, <2>4
<1> QED BY <1>1, <1>2

\* No step takes a charge back, and a failed flush is charged with a fault.
LEMMA SpentNext ==
    ASSUME TypeOK, BatchInv, Next
    PROVE  /\ Spent \in Nat /\ Spent' \in Nat /\ faults \in Nat /\ faults' \in Nat
           /\ Spent <= Spent' /\ Spent <= faults /\ Spent' <= faults' /\ faults <= faults'
           /\ ReadError => Spent + 1 <= Spent'
<1>0. shifted \in BOOLEAN /\ shifted' \in BOOLEAN
  BY TypeNext DEF TypeOK
<1>1. faults \in Nat /\ faults' \in Nat
  BY TypeNext DEF TypeOK
<1>2. Spent >= 0 /\ Spent' >= 0
  BY BatchNext DEF BatchInv
<1>3. faults' = faults \/ faults' = faults + 1
  BY DEF Next, Loader, Dial, DialFatal, DialFailed, InfoReply, InfoError, Generate,
         Stop, WriteBatch, WriteError, Panic, ReadReply, ReadError, FlushDone, GiveUp,
         Reconnect, Serve, Break, Refuse, Accept, Fault, NoFault
<1>4. Spent \in Nat /\ Spent' \in Nat /\ Spent <= faults /\ Spent' <= faults'
  <2>1. Spent = faults \/ Spent = faults - 1
    BY DEF Spent
  <2>2. Spent' = faults' \/ Spent' = faults' - 1
    BY DEF Spent
  <2> QED BY <1>1, <1>2, <2>1, <2>2
<1>5. CASE DialFatal \/ InfoReply \/ Generate \/ Stop \/ WriteBatch \/ WriteError
           \/ Panic \/ ReadReply \/ FlushDone \/ GiveUp \/ Serve \/ Refuse \/ Accept
  <2>1. conn' = conn /\ shifted' = shifted /\ (Active' => Active) /\ ~ReadError
    BY <1>5 DEF DialFatal, InfoReply, Generate, Stop, WriteBatch, WriteError, Panic,
                ReadReply, ReadError, FlushDone, GiveUp, Serve, Refuse, Accept,
                Active, net
  <2>2. faults <= faults'
    BY <1>1, <1>3
  <2>3. CASE Active' /\ (conn' = "broken" \/ shifted')
    <3>1. Spent = faults - 1 /\ Spent' = faults' - 1
      BY <1>0, <2>1, <2>3 DEF Spent
    <3>2. \A a, b \in Nat : a <= b => a - 1 <= b - 1
      OBVIOUS
    <3>3. Spent <= Spent'
      BY <1>1, <2>2, <3>1, <3>2, Zenon
    <3> QED BY <1>1, <1>4, <2>1, <2>2, <3>3
  <2>4. CASE ~(Active' /\ (conn' = "broken" \/ shifted'))
    <3>1. Spent' = faults'
      BY <2>4 DEF Spent
    <3> QED BY <1>1, <1>4, <2>1, <2>2, <3>1
  <2> QED BY <2>3, <2>4
<1>6. CASE Dial \/ DialFailed \/ Reconnect
  <2>1. Spent = faults /\ Spent' = faults' /\ ~ReadError
    BY <1>6 DEF Dial, DialFailed, Reconnect, ReadError, Spent, Active
  <2> QED BY <1>1, <1>3, <1>4, <2>1
<1>7. CASE InfoError
  <2>1. Active /\ Active' /\ conn' = conn /\ ~ReadError
    BY <1>7 DEF InfoError, ReadError, Active
  <2>2. CASE conn = "broken" /\ NoFault /\ UNCHANGED shifted
    BY <1>1, <1>3, <1>4, <2>1, <2>2 DEF Spent, NoFault
  <2>3. CASE conn = "open" /\ Fault("late") /\ shifted' = TRUE
    BY <1>1, <1>3, <1>4, <2>1, <2>3 DEF Spent, Fault
  <2> QED BY <1>7, <2>2, <2>3, Zenon DEF InfoError
<1>8. CASE Break
  <2>1. /\ conn = "open" /\ pc' = pc /\ faults' = faults + 1 /\ ~ReadError
    BY <1>8 DEF Break, ReadError, Fault
  <2>2. Spent' >= faults
    BY <1>1, <2>1 DEF Spent
  <2> QED BY <1>1, <1>4, <2>1, <2>2
<1>9. CASE ReadError
  <2>1. Active /\ ~Active' /\ conn' = conn /\ Spent' = faults'
    BY <1>9 DEF ReadError, Active, Spent, net
  <2>2. conn = "broken" \/ shifted \/ faults' = faults + 1
    <3>1. ASSUME replies # <<>>, Head(replies) = "garbled" PROVE shifted
      <4>1. Len(replies) \in Nat \ {0} /\ replies[1] = "garbled"
        BY <3>1, Behead DEF TypeOK
      <4> QED BY <4>1 DEF BatchInv
    <3> QED BY <1>9, <3>1 DEF ReadError, Fault
  <2> QED BY <1>0, <1>1, <1>3, <1>4, <2>1, <2>2 DEF Spent
<1> QED BY <1>5, <1>6, <1>7, <1>8, <1>9 DEF Next, Loader

\* With s of f faults charged, f keys beyond a batch and s <= t of f <= g.
LEMMA Allowances ==
    ASSUME NEW b \in Nat \ {0}, NEW f \in Nat, NEW g \in Nat, NEW s \in Nat, NEW t \in Nat,
           f <= g, s <= t, t <= g
    PROVE  /\ s * (b + f - 2) \in Int /\ t * (b + g - 2) \in Int
           /\ s * (b + f - 2) <= t * (b + g - 2)
<1> DEFINE x == b + f - 2
           y == b + g - 2
<1>1. x \in Int /\ y \in Int /\ x <= y /\ (g > 0 => y >= 0) /\ (t > 0 => g > 0)
  OBVIOUS
<1> HIDE DEF x, y
<1>2. s * x <= t * y
  BY <1>1, Products
<1>3. s * x \in Int /\ t * y \in Int
  BY <1>1
<1> QED BY <1>2, <1>3 DEF x, y

\* One fault more pays for all keys but one of a batch that s faults made longer.
LEMMA FailureAllowance ==
    ASSUME NEW b \in Nat \ {0}, NEW f \in Nat, NEW g \in Nat, NEW s \in Nat, NEW t \in Nat,
           NEW n \in Nat, f <= g, s + 1 <= t, t <= g, n <= b + s
    PROVE  s * (b + f - 2) + n - 1 <= t * (b + g - 2)
<1> DEFINE x == b + f - 2
           y == b + g - 2
<1>1. x \in Int /\ y \in Int /\ x <= y /\ y <= y /\ y >= 0 /\ n - 1 <= y
  OBVIOUS
<1> HIDE DEF x, y
<1>2. s <= s /\ s + 1 \in Nat
  OBVIOUS
<1>3. s * x <= s * y
  BY <1>1, <1>2, Products
<1>4. (s + 1) * y <= t * y
  BY <1>1, <1>2, Products
<1>5. (s + 1) * y = s * y + y
  BY <1>1
<1>6. s * x \in Int /\ s * y \in Int /\ t * y \in Int
  BY <1>1
<1>7. s * x + n - 1 <= t * y
  BY <1>1, <1>3, <1>4, <1>5, <1>6
<1> QED BY <1>7 DEF x, y

\* What may be counted too much only grows, and stays within the bound that
\* OvercountBounded states.
LEMMA LeadNext ==
    ASSUME TypeOK, BatchInv, Next
    PROVE  /\ Lead \in Int /\ Lead' \in Int /\ Lead <= Lead'
           /\ faults * (BatchSize + faults - 2) \in Int
           /\ faults' * (BatchSize + faults' - 2) \in Int
           /\ Lead' <= faults' * (BatchSize + faults' - 2)
           /\ faults * (BatchSize + faults - 2) <= faults' * (BatchSize + faults' - 2)
<1>1. /\ Spent \in Nat /\ Spent' \in Nat /\ faults \in Nat /\ faults' \in Nat
      /\ Spent <= Spent' /\ Spent <= faults /\ Spent' <= faults' /\ faults <= faults'
  BY SpentNext
<1>2. BatchSize \in Nat \ {0} /\ faults' <= faults'
  BY <1>1, LoaderAssumption
<1>3. Lead = Spent * (BatchSize + faults - 2) /\ Lead' = Spent' * (BatchSize + faults' - 2)
  BY DEF Lead
<1>4. Lead \in Int /\ Lead' \in Int /\ Lead <= Lead'
  BY <1>1, <1>2, <1>3, Allowances, Zenon
<1>5. Lead' <= faults' * (BatchSize + faults' - 2)
  BY <1>1, <1>2, <1>3, Allowances, Zenon
<1>6. /\ faults * (BatchSize + faults - 2) \in Int
      /\ faults' * (BatchSize + faults' - 2) \in Int
      /\ faults * (BatchSize + faults - 2) <= faults' * (BatchSize + faults' - 2)
  BY <1>1, <1>2, Allowances, Zenon
<1> QED BY <1>4, <1>5, <1>6

\* A flush that fails may have counted all keys of its batch but one (ReadError).
LEMMA FailureCost ==
    ASSUME TypeOK, BatchInv, ReadError
    PROVE  Lead + next - 1 <= Lead'
<1>1. /\ Spent \in Nat /\ Spent' \in Nat /\ faults \in Nat /\ faults' \in Nat
      /\ Spent + 1 <= Spent' /\ Spent' <= faults' /\ faults <= faults'
  BY SpentNext DEF Next, Loader
<1>2. BatchSize \in Nat \ {0}
  BY LoaderAssumption
<1>3. next \in Nat /\ Len(batch) \in Nat
  BY LenProperties DEF TypeOK
<1>4. next <= Len(batch) /\ Len(batch) <= BatchSize + Spent
  BY DEF ReadError, BatchInv
<1>5. next <= BatchSize + Spent
  BY <1>1, <1>2, <1>3, <1>4
<1>6. Lead = Spent * (BatchSize + faults - 2) /\ Lead' = Spent' * (BatchSize + faults' - 2)
  BY DEF Lead
<1> QED BY <1>1, <1>2, <1>3, <1>5, <1>6, FailureAllowance, Zenon

-----------------------------------------------------------------------------
(* What is counted.                                                        *)

\* What has been executed is not forgotten.
LEMMA ExecutedNext ==
    ASSUME TypeOK, Next
    PROVE  executed \subseteq executed' /\ IsFiniteSet(executed) /\ IsFiniteSet(executed')
<1>1. executed \subseteq 1 .. idx /\ idx \in Nat /\ executed' \subseteq 1 .. idx' /\ idx' \in Nat
  BY TypeNext DEF TypeOK
<1>2. IsFiniteSet(1 .. idx) /\ IsFiniteSet(1 .. idx')
  BY <1>1, FS_Interval
<1>3. executed \subseteq executed'
  <2>1. CASE Reconnect \/ Break
    BY <2>1, Received DEF Reconnect, Break
  <2>2. CASE Serve
    BY <2>2 DEF Serve, ServerSet
  <2>3. CASE ~(Reconnect \/ Break \/ Serve)
    BY <2>3
    DEF Next, Loader, Dial, DialFatal, DialFailed, InfoReply, InfoError, Generate,
        Stop, WriteBatch, WriteError, Panic, ReadReply, ReadError, FlushDone, GiveUp,
        Refuse, Accept, server
  <2> QED BY <2>1, <2>2, <2>3
<1> QED BY <1>1, <1>2, <1>3, CardMono, Zenon

\* Nor is the number of the executed keys that are not to be sent (again).
LEMMA UnsentNext ==
    ASSUME TypeOK, Next, NEW X, NEW Y, executed \cap Y \subseteq X
    PROVE  /\ Cardinality(executed \ X) <= Cardinality(executed' \ Y)
           /\ Cardinality(executed \ X) \in Nat /\ Cardinality(executed' \ Y) \in Nat
<1>1. IsFiniteSet(executed') /\ executed \subseteq executed'
  BY ExecutedNext
<1>2. IsFiniteSet(executed' \ Y)
  BY <1>1, CardMono
<1>3. executed \ X \subseteq executed' \ Y
  BY <1>1
<1> QED BY <1>2, <1>3, CardMono

\* A SET that is executed adds a key and a reply, whatever keys B are to be sent
\* later (Serve).
LEMMA ServeCounts ==
    ASSUME TypeOK, KeyInv, Serve, NEW B, inbox # <<>> => Head(inbox) \notin B
    PROVE  Cardinality(OKs(replies')) + Cardinality(executed \ (ToSet(inbox) \cup B))
           <= Cardinality(OKs(replies)) + Cardinality(executed' \ (ToSet(inbox') \cup B))
<1>1. /\ inbox \in Seq(0 .. idx) /\ inbox # <<>> /\ inbox' = Tail(inbox)
      /\ replies \in Seq(ReplyKinds) /\ idx \in Nat
  BY DEF TypeOK, Serve
<1>2. /\ Head(inbox) = inbox[1] /\ Len(inbox) \in Nat \ {0}
      /\ Len(Tail(inbox)) = Len(inbox) - 1 /\ Tail(inbox) \in Seq(0 .. idx)
      /\ \A i \in 1 .. Len(Tail(inbox)) : Tail(inbox)[i] = inbox[i + 1]
  BY <1>1, Behead
<1>3. /\ ToSet(inbox) = {inbox[i] : i \in 1 .. Len(inbox)}
      /\ ToSet(Tail(inbox)) = {Tail(inbox)[i] : i \in 1 .. Len(Tail(inbox))}
      /\ \A i \in 1 .. Len(Tail(inbox)) : Tail(inbox)[i] \in 0 .. idx
  <2>1. Tail(inbox) \in Seq(0 .. idx)
    BY <1>2
  <2> QED BY <1>1, <2>1, Elements, Zenon
<1>4. Head(inbox) \in ToSet(inbox) /\ ToSet(Tail(inbox)) \subseteq ToSet(inbox)
  BY <1>2, <1>3
<1>5. Head(inbox) \notin ToSet(Tail(inbox))
  <2>1. inbox \in Seq(Int)
    BY <1>1
  <2>2. \A i \in 1 .. Len(Tail(inbox)) : Head(inbox) < Tail(inbox)[i]
    BY <1>1, <2>1, IncreasingTail DEF KeyInv
  <2>3. \A i \in 1 .. Len(Tail(inbox)) : Head(inbox) # Tail(inbox)[i]
    BY <1>3, <2>2
  <2> QED BY <1>3, <2>3
<1> DEFINE X == ToSet(inbox) \cup B
           Y == ToSet(inbox') \cup B
<1>6. executed \cap Y \subseteq X
  BY <1>1, <1>4
<1>7. /\ Cardinality(executed \ X) <= Cardinality(executed' \ Y)
      /\ Cardinality(executed \ X) \in Nat /\ Cardinality(executed' \ Y) \in Nat
  <2> HIDE DEF X, Y
  <2> QED BY <1>6, UnsentNext, Zenon DEF Next
<1>8. Cardinality(OKs(replies)) \in Nat
  BY <1>1, OKsFinite
<1>9. CASE Head(inbox) = Info
  <2>1. PICK r \in {<<"info">>, <<"garbled">>, <<"info", "garbled">>} :
              replies' = replies \o r
    BY <1>9, Zenon DEF Serve, ServerSet
  <2>2. r \in Seq(ReplyKinds) /\ \A i \in 1 .. Len(r) : r[i] # "OK"
    <3>1. CASE r = <<"info">>
      BY <3>1 DEF ReplyKinds
    <3>2. CASE r = <<"garbled">>
      BY <3>2 DEF ReplyKinds
    <3>3. CASE r = <<"info", "garbled">>
      BY <3>3 DEF ReplyKinds
    <3> QED BY <3>1, <3>2, <3>3
  <2>3. OKs(replies') = OKs(replies)
    BY <1>1, <2>1, <2>2, OKsConcat
  <2> QED BY <1>7, <1>8, <2>3
<1>10. CASE replies' = Append(replies, "error")
  <2>1. Cardinality(OKs(replies')) = Cardinality(OKs(replies))
    BY <1>1, <1>10, OKsAppend DEF ReplyKinds
  <2> QED BY <1>7, <1>8, <2>1
<1>11. CASE executed' = executed \cup {Head(inbox)} /\ replies' = Append(replies, "OK")
  <2>1. Cardinality(OKs(replies')) = Cardinality(OKs(replies)) + 1
    BY <1>1, <1>11, OKsAppend DEF ReplyKinds
  <2>2. /\ (executed \ X) \cup {Head(inbox)} \subseteq executed' \ Y
        /\ Head(inbox) \notin executed \ X
    BY <1>1, <1>4, <1>5, <1>11
  <2> HIDE DEF X, Y
  <2>3. IsFiniteSet(executed \ X) /\ IsFiniteSet(executed' \ Y)
    BY ExecutedNext, CardMono, Zenon DEF Next
  <2>4. Cardinality((executed \ X) \cup {Head(inbox)}) = Cardinality(executed \ X) + 1
    BY <2>2, <2>3, FS_AddElement, Zenon
  <2>5. Cardinality(executed \ X) + 1 <= Cardinality(executed' \ Y)
    BY <2>2, <2>3, <2>4, CardMono
  <2> QED BY <1>7, <1>8, <2>1, <2>5 DEF X, Y
<1> QED BY <1>9, <1>10, <1>11 DEF Serve, ServerSet

\* Before a batch is sent, what is counted, or will be, is executed and not sent again.
LEMMA CountUnsent ==
    ASSUME TypeOK, BatchInv, KeyInv, CountInv, Next, pc' \in {"info", "loop", "flush"}
    PROVE  written' + Cardinality(OKs(replies'))
           <= Cardinality(executed' \ (ToSet(inbox') \cup ToSet(batch'))) + Lead'
<1>1. /\ inbox \in Seq(0 .. idx) /\ batch \in Seq(1 .. idx) /\ idx \in Nat
      /\ replies \in Seq(ReplyKinds) /\ written \in Nat /\ executed \subseteq 1 .. idx
  BY DEF TypeOK
<1>2. Cardinality(OKs(replies)) \in Nat /\ Cardinality(OKs(replies')) \in Nat
  BY TypeNext, OKsFinite DEF TypeOK
<1>3. Lead \in Int /\ Lead' \in Int /\ Lead <= Lead'
  BY LeadNext
<1>4. ToSet(<<>>) = {}
  BY DEF ToSet
<1>5. CASE pc \in {"info", "loop", "flush"} /\ ~Serve /\ ~Break
  <2>1. written + Cardinality(OKs(replies))
        <= Cardinality(executed \ (ToSet(inbox) \cup ToSet(batch))) + Lead
    BY <1>5, Zenon DEF CountInv
  <2>2. /\ InfoReply \/ InfoError \/ Generate \/ Stop \/ Refuse \/ Accept
        /\ written' = written /\ inbox' = inbox /\ executed' = executed
        /\ \/ replies' = replies
           \/ replies # <<>> /\ replies' = Tail(replies)
    BY <1>5 DEF Next, Loader, Dial, DialFatal, DialFailed, InfoReply, InfoError,
         Generate, Stop, WriteBatch, WriteError, Panic, ReadReply, ReadError,
         FlushDone, GiveUp, Reconnect, Refuse, Accept, net, server, loader
  <2>3. Cardinality(OKs(replies')) <= Cardinality(OKs(replies))
    <3>1. CASE replies' = replies
      BY <1>2, <3>1
    <3>2. CASE replies # <<>> /\ replies' = Tail(replies)
      BY <1>1, <1>2, <3>2, OKsTail
    <3> QED BY <2>2, <3>1, <3>2
  <2>4. executed \cap (ToSet(inbox') \cup ToSet(batch')) \subseteq ToSet(inbox) \cup ToSet(batch)
    <3>1. CASE Generate
      <4>1. ToSet(batch') \subseteq ToSet(batch) \cup {idx + 1}
        <5>0. Len(batch) \in Nat
          BY <1>1, LenProperties
        <5>1. batch' = Append(batch, idx + 1)
          BY <3>1, Zenon DEF Generate
        <5>2. /\ ToSet(batch') = {batch'[i] : i \in 1 .. Len(batch')}
              /\ ToSet(batch) = {batch[i] : i \in 1 .. Len(batch)}
          BY <1>1, TypeNext, Elements, Zenon DEF TypeOK
        <5>3. Len(batch') = Len(batch) + 1
          BY <1>1, <5>0, <5>1
        <5>4. \A i \in 1 .. Len(batch) : batch'[i] = batch[i]
          BY <1>1, <5>0, <5>1
        <5>5. batch'[Len(batch) + 1] = idx + 1
          BY <1>1, <5>0, <5>1
        <5>6. \A i \in 1 .. Len(batch') : i \in 1 .. Len(batch) \/ i = Len(batch) + 1
          BY <5>0, <5>3
        <5> QED BY <5>2, <5>4, <5>5, <5>6, Zenon
      <4>2. idx + 1 \notin executed
        BY <1>1
      <4> QED BY <2>2, <4>1, <4>2
    <3>2. CASE ~Generate
      BY <2>2, <3>2 DEF InfoReply, InfoError, Stop, Refuse, Accept, loader
    <3> QED BY <3>1, <3>2
  <2>5. /\ Cardinality(executed \ (ToSet(inbox) \cup ToSet(batch)))
           <= Cardinality(executed' \ (ToSet(inbox') \cup ToSet(batch')))
        /\ Cardinality(executed \ (ToSet(inbox) \cup ToSet(batch))) \in Nat
        /\ Cardinality(executed' \ (ToSet(inbox') \cup ToSet(batch'))) \in Nat
    BY <2>4, UnsentNext, Zenon
  <2> QED BY <1>1, <1>2, <1>3, <2>1, <2>2, <2>3, <2>5, SMTT(20)
<1>6. CASE pc \in {"info", "loop", "flush"} /\ Serve
  <2>1. written + Cardinality(OKs(replies))
        <= Cardinality(executed \ (ToSet(inbox) \cup ToSet(batch))) + Lead
    BY <1>6 DEF CountInv
  <2>2. written' = written /\ batch' = batch
    BY <1>6 DEF Serve, loader
  <2>3. inbox # <<>> => Head(inbox) \notin ToSet(batch)
    <3> SUFFICES ASSUME inbox # <<>> PROVE Head(inbox) \notin ToSet(batch)
      OBVIOUS
    <3>1. Head(inbox) = inbox[1] /\ Len(inbox) \in Nat \ {0} /\ Head(inbox) \in 0 .. idx
      BY <1>1, Behead
    <3>2. \A j \in 1 .. Len(batch) : Head(inbox) < batch[j]
      BY <1>6, <3>1 DEF KeyInv
    <3>3. /\ ToSet(batch) = {batch[i] : i \in 1 .. Len(batch)}
          /\ \A i \in 1 .. Len(batch) : batch[i] \in 1 .. idx
      BY <1>1, Elements
    <3>4. \A j \in 1 .. Len(batch) : Head(inbox) # batch[j]
      BY <1>1, <3>1, <3>2, <3>3
    <3> QED BY <3>3, <3>4
  <2>4. Cardinality(OKs(replies')) + Cardinality(executed \ (ToSet(inbox) \cup ToSet(batch)))
        <= Cardinality(OKs(replies)) + Cardinality(executed' \ (ToSet(inbox') \cup ToSet(batch)))
    BY <1>6, <2>3, ServeCounts, Zenon
  <2>5. /\ Cardinality(executed \ (ToSet(inbox) \cup ToSet(batch))) \in Nat
        /\ Cardinality(executed' \ (ToSet(inbox') \cup ToSet(batch))) \in Nat
    BY ExecutedNext, CardMono
  <2> QED BY <1>1, <1>2, <1>3, <2>1, <2>2, <2>4, <2>5, SMTT(20)
<1>7. CASE pc \in {"info", "loop", "flush"} /\ Break
  <2>1. written + Cardinality(OKs(replies))
        <= Cardinality(executed \ (ToSet(inbox) \cup ToSet(batch))) + Lead
    BY <1>7 DEF CountInv
  <2>2. written' = written /\ batch' = batch /\ inbox' = <<>>
    BY <1>7 DEF Break, loader
  <2>3. PICK k \in 0 .. Len(replies) : replies' = SubSeq(replies, 1, k)
    BY <1>7 DEF Break
  <2>4. Cardinality(OKs(replies')) <= Cardinality(OKs(replies))
    BY <1>1, <2>3, OKsPrefix
  <2>5. executed \cap (ToSet(inbox') \cup ToSet(batch')) \subseteq ToSet(inbox) \cup ToSet(batch)
    BY <1>4, <2>2
  <2>6. /\ Cardinality(executed \ (ToSet(inbox) \cup ToSet(batch)))
           <= Cardinality(executed' \ (ToSet(inbox') \cup ToSet(batch')))
        /\ Cardinality(executed \ (ToSet(inbox) \cup ToSet(batch))) \in Nat
        /\ Cardinality(executed' \ (ToSet(inbox') \cup ToSet(batch'))) \in Nat
    BY <2>5, UnsentNext, Zenon
  <2> QED BY <1>1, <1>2, <1>3, <2>1, <2>2, <2>4, <2>6, SMTT(20)
<1>8. CASE pc = "dial"
  <2>1. written <= Cardinality(executed \ ToSet(batch)) + Lead
    BY <1>8 DEF CountInv
  <2>2. Dial \/ DialFailed
    BY <1>8 DEF Next, Loader, Dial, DialFatal, DialFailed, InfoReply, InfoError,
         Generate, Stop, WriteBatch, WriteError, Panic, ReadReply, ReadError,
         FlushDone, GiveUp, Reconnect, Serve, Break, Refuse, Accept
  <2>3. /\ written' = written /\ batch' = batch /\ replies' = <<>>
        /\ inbox' = <<>> \/ inbox' = <<Info>>
    BY <2>2 DEF Dial, DialFailed, loader
  <2>4. ToSet(inbox') \cap executed = {}
    <3>1. ToSet(<<Info>>) = {Info}
      BY DEF ToSet
    <3> QED BY <1>1, <1>4, <2>3, <3>1 DEF Info
  <2>5. executed \cap (ToSet(inbox') \cup ToSet(batch')) \subseteq ToSet(batch)
    BY <2>3, <2>4
  <2>6. /\ Cardinality(executed \ ToSet(batch))
           <= Cardinality(executed' \ (ToSet(inbox') \cup ToSet(batch')))
        /\ Cardinality(executed \ ToSet(batch)) \in Nat
        /\ Cardinality(executed' \ (ToSet(inbox') \cup ToSet(batch'))) \in Nat
    BY <2>5, UnsentNext, Zenon
  <2>7. Cardinality(OKs(replies')) = 0
    BY <2>3, OKsEmpty
  <2> QED BY <1>1, <1>3, <2>1, <2>3, <2>6, <2>7, SMTT(20)
<1>9. CASE pc = "read"
  <2>1. written + Cardinality(OKs(replies)) <= Cardinality(executed \ ToSet(inbox)) + Lead
    BY <1>9 DEF CountInv
  <2>2. FlushDone
    BY <1>9 DEF Next, Loader, Dial, DialFatal, DialFailed, InfoReply, InfoError,
         Generate, Stop, WriteBatch, WriteError, Panic, ReadReply, ReadError,
         FlushDone, GiveUp, Reconnect, Serve, Break, Refuse, Accept
  <2>3. written' = written /\ batch' = <<>> /\ replies' = replies /\ inbox' = inbox
    BY <2>2 DEF FlushDone, net
  <2>4. executed \cap (ToSet(inbox') \cup ToSet(batch')) \subseteq ToSet(inbox)
    BY <1>4, <2>3
  <2>5. /\ Cardinality(executed \ ToSet(inbox))
           <= Cardinality(executed' \ (ToSet(inbox') \cup ToSet(batch')))
        /\ Cardinality(executed \ ToSet(inbox)) \in Nat
        /\ Cardinality(executed' \ (ToSet(inbox') \cup ToSet(batch'))) \in Nat
    BY <2>4, UnsentNext, Zenon
  <2> QED BY <1>1, <1>2, <1>3, <2>1, <2>3, <2>5
<1>10. pc \in {"info", "loop", "flush", "dial", "read"}
  BY DEF Next, Loader, Dial, DialFatal, DialFailed, InfoReply, InfoError,
         Generate, Stop, WriteBatch, WriteError, Panic, ReadReply, ReadError,
         FlushDone, GiveUp, Reconnect, Serve, Break, Refuse, Accept
<1> QED BY <1>5, <1>6, <1>7, <1>8, <1>9, <1>10

\* While replies are read, what is counted, or will be, is executed; it is also
\* executed and not in the batch, but for one key for each reply that was read.
LEMMA CountRead ==
    ASSUME TypeOK, BatchInv, SyncInv, KeyInv, CountInv, Next, pc' = "read"
    PROVE  /\ written' + Cardinality(OKs(replies'))
              <= Cardinality(executed' \ ToSet(inbox')) + Lead'
           /\ written' <= Cardinality(executed' \ ToSet(batch')) + Lead' + next' - 1
<1>1. /\ inbox \in Seq(0 .. idx) /\ batch \in Seq(1 .. idx) /\ idx \in Nat
      /\ replies \in Seq(ReplyKinds)
  BY DEF TypeOK
<1>0. written \in Nat /\ next \in Nat
  BY DEF TypeOK
<1>2. Cardinality(OKs(replies)) \in Nat /\ Cardinality(OKs(replies')) \in Nat
  BY TypeNext, OKsFinite DEF TypeOK
<1>3. Lead \in Int /\ Lead' \in Int /\ Lead <= Lead'
  BY LeadNext
<1>4. /\ Cardinality(executed \ ToSet(inbox)) \in Nat
      /\ Cardinality(executed' \ ToSet(inbox')) \in Nat
      /\ Cardinality(executed \ ToSet(batch)) \in Nat
      /\ Cardinality(executed' \ ToSet(batch')) \in Nat
  BY ExecutedNext, CardMono
<1>5. CASE WriteBatch
  <2>1. written + Cardinality(OKs(replies))
        <= Cardinality(executed \ (ToSet(inbox) \cup ToSet(batch))) + Lead
    BY <1>5 DEF WriteBatch, CountInv
  <2>2. /\ written' = written /\ batch' = batch /\ replies' = replies /\ next' = 1
        /\ inbox' = inbox \o batch \/ inbox' = inbox
    BY <1>5 DEF WriteBatch
  <2>3. ToSet(inbox') \subseteq ToSet(inbox) \cup ToSet(batch)
    <3>1. CASE inbox' = inbox
      BY <3>1
    <3>2. CASE inbox' = inbox \o batch
      <4>1. batch \in Seq(0 .. idx) /\ inbox \o batch \in Seq(0 .. idx)
        BY <1>1
      <4>2. /\ Len(inbox) \in Nat /\ Len(batch) \in Nat
            /\ Len(inbox \o batch) = Len(inbox) + Len(batch)
            /\ \A i \in 1 .. Len(inbox) + Len(batch) :
                  (inbox \o batch)[i] = IF i <= Len(inbox) THEN inbox[i] ELSE batch[i - Len(inbox)]
        BY <1>1, <4>1, LenProperties, ConcatProperties
      <4>3. /\ ToSet(inbox) = {inbox[i] : i \in 1 .. Len(inbox)}
            /\ ToSet(batch) = {batch[i] : i \in 1 .. Len(batch)}
            /\ ToSet(inbox \o batch) = {(inbox \o batch)[i] : i \in 1 .. Len(inbox \o batch)}
        BY <1>1, <4>1, Elements, Zenon
      <4>4. ASSUME NEW i \in 1 .. Len(inbox \o batch)
            PROVE  (inbox \o batch)[i] \in ToSet(inbox) \cup ToSet(batch)
        <5>1. CASE i <= Len(inbox)
          <6>1. i \in 1 .. Len(inbox) /\ (inbox \o batch)[i] = inbox[i]
            BY <4>2, <5>1
          <6> QED BY <4>3, <6>1
        <5>2. CASE ~(i <= Len(inbox))
          <6>1. i - Len(inbox) \in 1 .. Len(batch) /\ (inbox \o batch)[i] = batch[i - Len(inbox)]
            BY <4>2, <5>2
          <6> QED BY <4>3, <6>1
        <5> QED BY <5>1, <5>2
      <4> QED BY <3>2, <4>3, <4>4
    <3> QED BY <2>2, <3>1, <3>2
  <2>4. /\ Cardinality(executed \ (ToSet(inbox) \cup ToSet(batch))) \in Nat
        /\ Cardinality(executed \ (ToSet(inbox) \cup ToSet(batch)))
           <= Cardinality(executed' \ ToSet(inbox'))
    BY <2>3, UnsentNext, Zenon
  <2>5. Cardinality(executed \ (ToSet(inbox) \cup ToSet(batch)))
        <= Cardinality(executed' \ ToSet(batch'))
    BY <2>2, UnsentNext, Zenon
  <2>6. written' + Cardinality(OKs(replies')) <= Cardinality(executed' \ ToSet(inbox')) + Lead'
    BY <1>0, <1>2, <1>3, <1>4, <2>1, <2>2, <2>4, SMTT(20)
  <2>7. written' <= Cardinality(executed' \ ToSet(batch')) + Lead' + next' - 1
    BY <1>0, <1>2, <1>3, <1>4, <2>1, <2>2, <2>4, <2>5, SMTT(20)
  <2> QED BY <2>6, <2>7
<1>6. CASE pc = "read"
  <2>0. written <= Cardinality(executed \ ToSet(batch)) + Lead + next - 1
    BY <1>6 DEF CountInv
  <2>1. written + Cardinality(OKs(replies)) <= Cardinality(executed \ ToSet(inbox)) + Lead
    BY <1>6, Zenon DEF CountInv
  <2>2. batch' = batch /\ (ReadReply \/ Serve \/ Break \/ Refuse \/ Accept)
    BY <1>6 DEF Next, Loader, Dial, DialFatal, DialFailed, InfoReply, InfoError,
         Generate, Stop, WriteBatch, WriteError, Panic, ReadReply, ReadError,
         FlushDone, GiveUp, Reconnect, Serve, Break, Refuse, Accept, loader
  <2>3. Cardinality(executed \ ToSet(batch)) <= Cardinality(executed' \ ToSet(batch'))
    BY <2>2, UnsentNext, Zenon
  <2>4. CASE ReadReply
    <3>1. /\ replies # <<>> /\ replies' = Tail(replies) /\ inbox' = inbox
          /\ written' = (IF Head(replies) = "OK" THEN written + 1 ELSE written)
      BY <2>4 DEF ReadReply, Counts
    <3>0. next' = next + 1
      BY <2>4 DEF ReadReply
    <3>2. Cardinality(OKs(replies'))
          <= IF Head(replies) = "OK" THEN Cardinality(OKs(replies)) - 1
             ELSE Cardinality(OKs(replies))
      BY <1>1, <3>1, OKsTail
    <3>3. written' + Cardinality(OKs(replies')) <= written + Cardinality(OKs(replies))
      BY <1>0, <1>2, <3>1, <3>2
    <3>4. written' <= written + 1 /\ written' \in Nat
      BY <1>0, <3>1
    <3>5. Cardinality(executed \ ToSet(inbox)) <= Cardinality(executed' \ ToSet(inbox'))
      BY <3>1, UnsentNext, Zenon
    <3>6. written' + Cardinality(OKs(replies')) <= Cardinality(executed' \ ToSet(inbox')) + Lead'
      BY <1>0, <1>2, <1>3, <1>4, <2>1, <3>3, <3>4, <3>5, SMTT(20)
    <3>7. written' <= Cardinality(executed' \ ToSet(batch')) + Lead' + next' - 1
      BY <1>0, <1>3, <1>4, <2>0, <2>3, <3>0, <3>4, SMTT(20)
    <3> QED BY <3>6, <3>7
  <2>5. CASE Serve
    <3>1. written' = written /\ next' = next
      BY <2>5 DEF Serve, loader
    <3>2. ToSet(inbox) \cup {} = ToSet(inbox) /\ ToSet(inbox') \cup {} = ToSet(inbox')
      OBVIOUS
    <3>3. Cardinality(OKs(replies')) + Cardinality(executed \ (ToSet(inbox) \cup {}))
          <= Cardinality(OKs(replies)) + Cardinality(executed' \ (ToSet(inbox') \cup {}))
      BY <2>5, ServeCounts, Zenon
    <3>4. Cardinality(OKs(replies')) + Cardinality(executed \ ToSet(inbox))
          <= Cardinality(OKs(replies)) + Cardinality(executed' \ ToSet(inbox'))
      BY <3>2, <3>3
    <3>5. written' + Cardinality(OKs(replies')) <= Cardinality(executed' \ ToSet(inbox')) + Lead'
      BY <1>0, <1>2, <1>3, <1>4, <2>1, <3>1, <3>4, SMTT(20)
    <3>6. written' <= Cardinality(executed' \ ToSet(batch')) + Lead' + next' - 1
      BY <1>0, <1>3, <1>4, <2>0, <2>3, <3>1, SMTT(20)
    <3> QED BY <3>5, <3>6
  <2>6. CASE Break
    <3>1. written' = written /\ next' = next /\ inbox' = <<>>
      BY <2>6 DEF Break, loader
    <3>2. PICK k \in 0 .. Len(replies) : replies' = SubSeq(replies, 1, k)
      BY <2>6 DEF Break
    <3>3. Cardinality(OKs(replies')) <= Cardinality(OKs(replies))
      BY <1>1, <3>2, OKsPrefix
    <3>4. ToSet(inbox') = {}
      BY <3>1 DEF ToSet
    <3>5. Cardinality(executed \ ToSet(inbox)) <= Cardinality(executed' \ ToSet(inbox'))
      BY <3>4, UnsentNext, Zenon
    <3>6. written' + Cardinality(OKs(replies')) <= Cardinality(executed' \ ToSet(inbox')) + Lead'
      BY <1>0, <1>2, <1>3, <1>4, <2>1, <3>1, <3>3, <3>5, SMTT(20)
    <3>7. written' <= Cardinality(executed' \ ToSet(batch')) + Lead' + next' - 1
      BY <1>0, <1>3, <1>4, <2>0, <2>3, <3>1, SMTT(20)
    <3> QED BY <3>6, <3>7
  <2>7. CASE Refuse \/ Accept
    <3>1. UNCHANGED <<written, next, inbox, replies, executed>>
      BY <2>7 DEF Refuse, Accept, net, loader
    <3>2. written' + Cardinality(OKs(replies')) <= Cardinality(executed' \ ToSet(inbox')) + Lead'
      BY <1>0, <1>2, <1>3, <1>4, <2>1, <3>1, SMTT(20)
    <3>3. written' <= Cardinality(executed' \ ToSet(batch')) + Lead' + next' - 1
      BY <1>0, <1>3, <1>4, <2>0, <2>3, <3>1, SMTT(20)
    <3> QED BY <3>2, <3>3
  <2> QED BY <2>2, <2>4, <2>5, <2>6, <2>7, Zenon
<1>7. WriteBatch \/ pc = "read"
  BY DEF Next, Loader, Dial, DialFatal, DialFailed, InfoReply, InfoError,
         Generate, Stop, WriteBatch, WriteError, Panic, ReadReply, ReadError,
         FlushDone, GiveUp, Reconnect, Serve, Break, Refuse, Accept
<1> QED BY <1>5, <1>6, <1>7

\* After a flush that failed, what is counted is executed and not sent again.
LEMMA CountRetry ==
    ASSUME TypeOK, BatchInv, CountInv, Next, pc' \in {"dial", "failed"}
    PROVE  written' <= Cardinality(executed' \ ToSet(batch')) + Lead'
<1>1. written \in Nat /\ next \in Nat
  BY DEF TypeOK
<1>2. Lead \in Int /\ Lead' \in Int /\ Lead <= Lead'
  BY LeadNext, Zenon
<1>3. written' = written /\ batch' = batch
  BY DEF Next, Loader, Dial, DialFatal, DialFailed, InfoReply, InfoError,
         Generate, Stop, WriteBatch, WriteError, Panic, ReadReply, ReadError,
         FlushDone, GiveUp, Reconnect, Serve, Break, Refuse, Accept, loader
<1>4. /\ Cardinality(executed \ ToSet(batch)) <= Cardinality(executed' \ ToSet(batch'))
      /\ Cardinality(executed \ ToSet(batch)) \in Nat
      /\ Cardinality(executed' \ ToSet(batch')) \in Nat
  BY <1>3, UnsentNext, Zenon
<1>5. CASE pc \in {"dial", "failed"}
  <2>1. written <= Cardinality(executed \ ToSet(batch)) + Lead
    BY <1>5 DEF CountInv
  <2> QED BY <1>1, <1>2, <1>3, <1>4, <2>1
<1>6. CASE WriteError
  <2>1. written + Cardinality(OKs(replies))
        <= Cardinality(executed \ (ToSet(inbox) \cup ToSet(batch))) + Lead
    BY <1>6 DEF WriteError, CountInv
  <2>2. Cardinality(OKs(replies)) \in Nat
    BY OKsFinite DEF TypeOK
  <2>3. executed \cap ToSet(batch') \subseteq ToSet(inbox) \cup ToSet(batch)
    BY <1>3
  <2>4. /\ Cardinality(executed \ (ToSet(inbox) \cup ToSet(batch)))
           <= Cardinality(executed' \ ToSet(batch'))
        /\ Cardinality(executed \ (ToSet(inbox) \cup ToSet(batch))) \in Nat
    BY <2>3, UnsentNext, Zenon
  <2> QED BY <1>1, <1>2, <1>3, <1>4, <2>1, <2>2, <2>4, SMTT(20)
<1>7. CASE ReadError
  <2>1. written <= Cardinality(executed \ ToSet(batch)) + Lead + next - 1
    BY <1>7 DEF ReadError, CountInv
  <2>2. Lead + next - 1 <= Lead'
    BY <1>7, FailureCost, Zenon
  <2> QED BY <1>1, <1>2, <1>3, <1>4, <2>1, <2>2, SMTT(20)
<1>8. pc \in {"dial", "failed"} \/ WriteError \/ ReadError
  BY DEF Next, Loader, Dial, DialFatal, DialFailed, InfoReply, InfoError,
         Generate, Stop, WriteBatch, WriteError, Panic, ReadReply, ReadError,
         FlushDone, GiveUp, Reconnect, Serve, Break, Refuse, Accept
<1> QED BY <1>5, <1>6, <1>7, <1>8

\* No step counts more than the bound allows.
LEMMA CountNext ==
    ASSUME TypeOK, BatchInv, SyncInv, KeyInv, CountInv, Next
    PROVE  CountInv'
<1> DEFINE Bound == faults * (BatchSize + faults - 2)
<1>1. pc' \in {"info", "loop", "flush"} =>
         written' + Cardinality(OKs(replies'))
         <= Cardinality(executed' \ (ToSet(inbox') \cup ToSet(batch'))) + Lead'
  BY CountUnsent
<1>2. pc' = "read" =>
         /\ written' + Cardinality(OKs(replies'))
            <= Cardinality(executed' \ ToSet(inbox')) + Lead'
         /\ written' <= Cardinality(executed' \ ToSet(batch')) + Lead' + next' - 1
  BY CountRead
<1>3. pc' \in {"dial", "failed"} =>
         written' <= Cardinality(executed' \ ToSet(batch')) + Lead'
  BY CountRetry
<1>4. written' <= Cardinality(executed') + Bound'
  <2>1. written \in Nat /\ written' \in Nat /\ Cardinality(OKs(replies')) \in Nat
    BY TypeNext, OKsFinite DEF TypeOK
  <2>2. Lead' \in Int /\ Bound \in Int /\ Bound' \in Int /\ Lead' <= Bound' /\ Bound <= Bound'
    BY LeadNext
  <2>3. \A X : /\ Cardinality(executed' \ X) <= Cardinality(executed')
               /\ Cardinality(executed' \ X) \in Nat
    BY ExecutedNext, CardMono
  <2>4. /\ Cardinality(executed) <= Cardinality(executed')
        /\ Cardinality(executed) \in Nat /\ Cardinality(executed') \in Nat
    BY ExecutedNext, CardMono
  <2>5. written <= Cardinality(executed) + Bound
    BY DEF CountInv
  <2> HIDE DEF Bound
  <2>6. CASE pc' \in {"info", "loop", "flush"}
    <3>1. written' + Cardinality(OKs(replies'))
          <= Cardinality(executed' \ (ToSet(inbox') \cup ToSet(batch'))) + Lead'
      BY <1>1, <2>6
    <3>2. /\ Cardinality(executed' \ (ToSet(inbox') \cup ToSet(batch'))) <= Cardinality(executed')
          /\ Cardinality(executed' \ (ToSet(inbox') \cup ToSet(batch'))) \in Nat
      BY <2>3, Zenon
    <3> QED BY <2>1, <2>2, <2>4, <3>1, <3>2
  <2>7. CASE pc' = "read"
    <3>1. written' + Cardinality(OKs(replies')) <= Cardinality(executed' \ ToSet(inbox')) + Lead'
      BY <1>2, <2>7
    <3>2. /\ Cardinality(executed' \ ToSet(inbox')) <= Cardinality(executed')
          /\ Cardinality(executed' \ ToSet(inbox')) \in Nat
      BY <2>3
    <3> QED BY <2>1, <2>2, <2>4, <3>1, <3>2
  <2>8. CASE pc' \in {"dial", "failed"}
    <3>1. written' <= Cardinality(executed' \ ToSet(batch')) + Lead'
      BY <1>3, <2>8
    <3>2. /\ Cardinality(executed' \ ToSet(batch')) <= Cardinality(executed')
          /\ Cardinality(executed' \ ToSet(batch')) \in Nat
      BY <2>3
    <3> QED BY <2>1, <2>2, <2>4, <3>1, <3>2
  <2>9. CASE pc' \in {"done", "fatal", "panic"}
    <3>1. written' = written
      BY <2>9 DEF Next, Loader, Dial, DialFatal, DialFailed, InfoReply, InfoError,
         Generate, Stop, WriteBatch, WriteError, Panic, ReadReply, ReadError,
         FlushDone, GiveUp, Reconnect, Serve, Break, Refuse, Accept, loader
    <3> QED BY <2>1, <2>2, <2>4, <2>5, <3>1, SMTT(20)
  <2>10. pc' \in {"info", "loop", "flush", "read", "dial", "failed", "done", "fatal", "panic"}
    BY TypeNext DEF TypeOK
  <2> QED BY <2>6, <2>7, <2>8, <2>9, <2>10
<1> QED BY <1>1, <1>2, <1>3, <1>4 DEF CountInv

-----------------------------------------------------------------------------
(* The theorems.                                                           *)

\* The inductive invariant of the loader.
LoaderInv == TypeOK /\ BatchInv /\ SyncInv /\ KeyInv /\ CountInv

\* It holds at the start of main.
LEMMA LoaderInit == Init => LoaderInv
<1> SUFFICES ASSUME Init PROVE LoaderInv
  OBVIOUS
<1>1. TypeOK
  BY TypeInit
<1>2. BatchSize \in Nat \ {0}
  BY LoaderAssumption
<1>3. Spent = 0 /\ Len(batch) = 0 /\ Len(replies) = 0 /\ Len(inbox) = 0
  BY DEF Init, Spent, Active
<1>4. BatchInv
  BY <1>2, <1>3 DEF Init, BatchInv
<1>5. SyncInv
  BY DEF Init, SyncInv
<1>6. KeyInv
  BY <1>3 DEF Init, KeyInv, Increasing
<1>7. CountInv
  <2>1. executed \ ToSet(batch) = {} /\ executed = {} /\ Cardinality({}) = 0
    BY FS_EmptySet DEF Init
  <2>2. Lead = 0 /\ faults * (BatchSize + faults - 2) = 0
    BY <1>2, <1>3 DEF Init, Lead
  <2>3. written = 0 /\ pc = "dial"
    BY DEF Init
  <2> QED BY <2>1, <2>2, <2>3 DEF CountInv
<1> QED BY <1>1, <1>4, <1>5, <1>6, <1>7 DEF LoaderInv

\* Every step of the loader, the server and the network keeps it.
LEMMA LoaderNext == LoaderInv /\ [Next]_vars => LoaderInv'
<1>1. CASE LoaderInv /\ Next
  BY <1>1, TypeNext, BatchNext, SyncNext, KeyNext, CountNext DEF LoaderInv
<1>2. CASE LoaderInv /\ UNCHANGED vars
  BY <1>2, Zenon DEF LoaderInv, TypeOK, BatchInv, Spent, Active, SyncInv, Answered, KeyInv,
              Increasing, CountInv, OKs, Lead, vars
<1> QED BY <1>1, <1>2

\* The inductive invariant holds throughout: lengths, order and counts of what is
\* in the batch, on its way and executed fit together (main.go:290-396).
THEOREM LoaderCorrect == Spec => []LoaderInv
BY LoaderInit, LoaderNext, PTL DEF Spec

\* A batch grows by at most one key for each fault (main.go:356-361).
THEOREM BatchStaysBounded == Spec => []BatchBounded
<1>1. LoaderInv => BatchBounded
  BY DEF LoaderInv, BatchInv, BatchBounded
<1> QED BY LoaderCorrect, <1>1, PTL

\* keyCount runs ahead of the calls of genKeyValue whose SET was executed by less
\* than a batch for each fault, for every batch size and number of faults
\* (main.go:310-339).
THEOREM OvercountStaysBounded == Spec => []OvercountBounded
<1>1. LoaderInv => OvercountBounded
  BY DEF LoaderInv, CountInv, OvercountBounded
<1> QED BY LoaderCorrect, <1>1, PTL

\* While replies are in sync, a batch is emptied only when the server has answered
\* each of its keys (main.go:290-341).
THEOREM DroppedWhenAnswered == Spec => AnsweredBeforeDropped
<1>1. ASSUME LoaderInv, Next, ~shifted, batch' # batch, batch' = <<>>
      PROVE  ToSet(batch) \subseteq executed \cup refused
  <2>1. batch \in Seq(1 .. idx) /\ Len(batch) \in Nat /\ Len(replies) \in Nat /\ next \in Nat
    BY <1>1, LenProperties DEF LoaderInv, TypeOK
  <2>2. batch' # Append(batch, idx + 1)
    BY <1>1, <2>1
  <2>3. FlushDone
    BY <1>1, <2>2 DEF Next, Loader, Dial, DialFatal, DialFailed, InfoReply, InfoError,
         Generate, Stop, WriteBatch, WriteError, Panic, ReadReply, ReadError,
         FlushDone, GiveUp, Reconnect, Serve, Break, Refuse, Accept, loader
  <2>4. /\ pc = "read" /\ next > Len(batch) /\ Answered <= Len(batch)
        /\ \A i \in 1 .. Answered : batch[i] \in executed \cup refused
    BY <1>1, <2>3 DEF FlushDone, LoaderInv, SyncInv
  <2>5. Len(batch) = Answered
    BY <2>1, <2>4 DEF Answered
  <2>6. ToSet(batch) = {batch[i] : i \in 1 .. Len(batch)}
    BY <2>1, Elements
  <2> QED BY <2>4, <2>5, <2>6
<1>2. LoaderInv /\ [Next]_vars
      => [~shifted /\ batch' # batch /\ batch' = <<>>
          => ToSet(batch) \subseteq executed \cup refused]_vars
  BY <1>1 DEF vars
<1> QED BY LoaderCorrect, <1>2, PTL DEF Spec, AnsweredBeforeDropped
=============================================================================
