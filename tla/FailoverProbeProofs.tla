------------------------ MODULE FailoverProbeProofs ------------------------
(***************************************************************************)
(* Proofs about the failover probe: what its stream may hold while main    *)
(* waits for each command, and from that that a late reply never passes    *)
(* for a write.                                                            *)
(***************************************************************************)
EXTENDS FailoverProbe, SequenceTheorems, TLAPS

-----------------------------------------------------------------------------
(* The inductive invariant.                                                *)

\* The instance is the one identified last, unless it answered INFO without a
\* run_id.
Identified == backend = conn \/ unnamed

\* identify waits for the one reply of its own command.
InfoStream ==
    /\ inbox \in {<<>>, <<"INFO">>}
    /\ replies # <<>> => inbox = <<>> /\ Len(replies) = 1
    /\ ~broken /\ replies = <<>> => inbox # <<>>

\* scanKeys reads its own page, on the instance just identified, or what came
\* late of INFO, which is never a page.
ScanStream ==
    /\ inbox \in {<<>>, <<"SCAN">>, <<"INFO", "SCAN">>}
    /\ inbox = <<"INFO", "SCAN">> => replies = <<>>
    /\ ~broken /\ replies = <<>> => inbox # <<>>
    /\ inbox = <<"SCAN">> /\ replies = <<>> => Identified
    /\ ~broken /\ inbox = <<>> /\ Len(replies) = 1 => Identified
    /\ \A i \in 2 .. Len(replies) : replies[i] # "int"
    /\ replies # <<>> /\ replies[1] = "page" => inbox = <<>> /\ Len(replies) = 1

\* get reads the last reply of the stream only on the instance just identified,
\* and no integer comes behind the reply it reads.
GetStream ==
    /\ inbox \in {<<>>, <<"GET">>, <<"SCAN", "GET">>, <<"INFO", "SCAN", "GET">>}
    /\ inbox = <<"INFO", "SCAN", "GET">> => replies = <<>>
    /\ inbox = <<"GET">> /\ replies = <<>> => Identified
    /\ ~broken /\ inbox = <<>> /\ Len(replies) = 1 => Identified
    /\ \A i \in 2 .. Len(replies) : replies[i] # "int"

\* An integer that incr reads is the answer of this INCR, executed and not yet
\* counted, on the instance just identified.
IncrStream ==
    /\ inbox \in {<<>>, <<"INCR">>, <<"GET", "INCR">>, <<"SCAN", "GET", "INCR">>}
    /\ inbox = <<"INCR">> /\ replies = <<>> => Identified
    /\ replies # <<>> /\ replies[1] = "int" =>
          inbox = <<>> /\ Len(replies) = 1 /\ Identified /\ uncounted >= 1

\* Between two ticks nothing is on its way, and the instance is identified.
IdleStream ==
    /\ inbox = <<>> /\ replies = <<>>
    /\ pc = "idle" /\ conn # None => Identified

StreamInv ==
    /\ broken => inbox = <<>>
    /\ conn = None => ~broken
    /\ pc = "INFO" => InfoStream
    /\ pc = "SCAN" => ScanStream
    /\ pc = "GET" => GetStream
    /\ pc = "INCR" => IncrStream
    /\ pc \in {"idle", "stopped"} => IdleStream
    /\ uncounted >= 0

ProbeInv == TypeOK /\ StreamInv

USE DEF Identified

-----------------------------------------------------------------------------
(* Sequences of commands and replies.                                      *)

\* What taking a reply or a command off the head of a stream leaves.
LEMMA Behead ==
    ASSUME NEW S, NEW s \in Seq(S), s # <<>>
    PROVE  /\ Head(s) = s[1] /\ s[1] \in S
           /\ Tail(s) \in Seq(S) /\ Len(s) \in Nat \ {0}
           /\ Len(Tail(s)) = Len(s) - 1
           /\ \A i \in 1 .. Len(Tail(s)) : Tail(s)[i] = s[i + 1]
BY HeadTailProperties, LenProperties, EmptySeq, ElementOfSeq

\* The replies that survive a cut are the first ones (Cut).
LEMMA Prefix ==
    ASSUME NEW S, NEW s \in Seq(S), NEW k \in 0 .. Len(s)
    PROVE  /\ SubSeq(s, 1, k) \in Seq(S) /\ Len(SubSeq(s, 1, k)) = k
           /\ \A i \in 1 .. k : SubSeq(s, 1, k)[i] = s[i]
<1>1. Len(s) \in Nat
  BY LenProperties
<1>2. \A i \in 1 .. k : s[i] \in S
  BY <1>1, ElementOfSeq
<1> QED BY <1>1, <1>2, SubSeqProperties

\* What the server may send is a sequence of replies (Answers).
LEMMA AnswersType ==
    ASSUME NEW cmd \in Commands
    PROVE  Answers(cmd) \subseteq Seq(Kinds)
<1>1. \A k, l \in Kinds : <<k>> \in Seq(Kinds) /\ <<k, l>> \in Seq(Kinds)
  OBVIOUS
<1>2. {"string", "nil", "int", "array", "info", "error", "garbled"} \subseteq Kinds
  BY DEF Kinds
<1>3. RestOfInfo \subseteq Seq(Kinds) /\ RestOfScan \subseteq Seq(Kinds)
  BY <1>1, <1>2 DEF RestOfInfo, RestOfScan
<1>4. CASE cmd = "INFO"
  BY <1>1, <1>2, <1>3, <1>4 DEF Answers
<1>5. CASE cmd = "SCAN"
  BY <1>1, <1>2, <1>3, <1>5 DEF Answers
<1>6. CASE cmd = "GET"
  BY <1>1, <1>2, <1>6 DEF Answers
<1>7. CASE cmd = "INCR"
  BY <1>1, <1>2, <1>7 DEF Answers
<1> QED BY <1>4, <1>5, <1>6, <1>7 DEF Commands

\* The states of main that wait for no reply.
LEMMA CommandNames ==
    /\ "INFO" \in Commands /\ "SCAN" \in Commands
    /\ "GET" \in Commands /\ "INCR" \in Commands
    /\ "idle" \notin Commands /\ "stopped" \notin Commands
BY DEF Commands

-----------------------------------------------------------------------------
(* Type correctness.                                                       *)

\* Every step of the probe, the servers and the network keeps the types.
LEMMA TypeNext == TypeOK /\ [Next]_vars => TypeOK'
<1> SUFFICES ASSUME TypeOK, Next PROVE TypeOK'
  BY DEF TypeOK, vars
<1> USE DEF TypeOK, Next, Probe, Dial, DialError, Identify, Scan, Tick, GetReply,
            GetError, IncrReply, IncrError, Fail, Stop, Serve, Break, Crash,
            Reboot, Demote, Promote, Reroute, pods, client
<1>1. role' \in [Backends -> {"master", "replica", "down"}]
  <2>1. ASSUME NEW b \in Backends, Crash(b) \/ Reboot(b) \/ Demote(b) \/ Promote(b)
        PROVE  \E r \in {"master", "replica", "down"} : role' = [role EXCEPT ![b] = r]
    BY <2>1
  <2>2. CASE UNCHANGED role
    BY <2>2
  <2>3. Probe \/ Stop \/ Serve \/ Break \/ Reroute => UNCHANGED role
    OBVIOUS
  <2> QED BY <2>1, <2>2, <2>3
<1>2. run' \in [Backends -> Nat] /\ route' \in Backends \cup {None}
  OBVIOUS
<1>3. pc' \in Commands \cup {"idle", "stopped"}
  BY CommandNames DEF Do, Cut
<1>4. conn' \in Process \cup {None} /\ (pc' \in Commands => conn' # None)
  BY CommandNames, ProbeAssumption DEF Do, Cut, Process, Accepting
<1>5. broken' \in BOOLEAN /\ unnamed' \in BOOLEAN /\ outage' \in BOOLEAN
  BY DEF Do, Cut
<1>6. backend' \in Process \cup {None}
  BY DEF Do, Cut
<1>7. uncounted' \in Int /\ faults' \in Nat
  BY DEF Do, Cut, Fault, NoFault, NoReply
<1>8. inbox' \in Seq(Commands)
  <2>1. inbox # <<>> => Tail(inbox) \in Seq(Commands)
    BY Behead
  <2>2. /\ <<>> \in Seq(Commands) /\ <<"INFO">> \in Seq(Commands)
        /\ \A cmd \in Commands : Append(inbox, cmd) \in Seq(Commands)
    BY CommandNames
  <2> QED BY <2>1, <2>2, CommandNames DEF Do, Cut
<1>9. replies' \in Seq(Kinds)
  <2>1. CASE Serve
    <3>1. Head(inbox) \in Commands
      BY <2>1, Behead
    <3>2. \A a \in Answers(Head(inbox)) : replies \o a \in Seq(Kinds)
      BY <3>1, AnswersType, ConcatProperties
    <3>3. Append(replies, "page") \in Seq(Kinds)
      BY DEF Kinds
    <3> QED BY <2>1, <3>2, <3>3
  <2>2. CASE Cut
    BY <2>2, Prefix DEF Cut
  <2>3. CASE ~Serve /\ ~Cut
    <3>1. replies # <<>> => Tail(replies) \in Seq(Kinds)
      BY Behead
    <3>2. <<>> \in Seq(Kinds)
      OBVIOUS
    <3> QED BY <2>3, <3>1, <3>2
  <2> QED BY <2>1, <2>2, <2>3
<1> HIDE DEF Next
<1> QED BY <1>1, <1>2, <1>3, <1>4, <1>5, <1>6, <1>7, <1>8, <1>9

\* The first dial finds no connection and an empty stream.
LEMMA TypeInit == Init => TypeOK
<1> SUFFICES ASSUME Init PROVE TypeOK
  OBVIOUS
<1>1. role \in [Backends -> {"master", "replica", "down"}]
  BY DEF Init
<1>2. run \in [Backends -> Nat] /\ route \in Backends \cup {None}
  BY DEF Init
<1>3. inbox \in Seq(Commands) /\ replies \in Seq(Kinds)
  BY DEF Init
<1>4. /\ pc \in {"idle"} /\ pc \notin Commands
      /\ conn \in {None} /\ backend \in {None}
  BY CommandNames DEF Init
<1>5. broken \in BOOLEAN /\ unnamed \in BOOLEAN /\ outage \in BOOLEAN
  BY DEF Init
<1>6. uncounted \in Int /\ faults \in Nat
  BY DEF Init
<1> QED BY <1>1, <1>2, <1>3, <1>4, <1>5, <1>6 DEF TypeOK

\* The probe's variables keep their types, and a command is waited for only on a
\* connection (main.go:147-200).
THEOREM TypeCorrect == Spec => []TypeOK
BY TypeInit, TypeNext, PTL DEF Spec

-----------------------------------------------------------------------------
(* The stream.                                                             *)

\* Inboxes of up to three commands, spelled out.
LEMMA Appended ==
    ASSUME NEW a, NEW b, NEW c
    PROVE  Append(<<a>>, b) = <<a, b>> /\ Append(<<a, b>>, c) = <<a, b, c>>
<1> DEFINE S == {a, b, c}
           t == Append(<<a>>, b)
           u == <<a, b>>
           v == Append(<<a, b>>, c)
           w == <<a, b, c>>
<1>1. /\ t \in Seq(S) /\ Len(t) = 2 /\ t[1] = a /\ t[2] = b
      /\ u \in Seq(S) /\ Len(u) = 2 /\ u[1] = a /\ u[2] = b
  BY AppendProperties
<1>2. /\ v \in Seq(S) /\ Len(v) = 3 /\ v[1] = a /\ v[2] = b /\ v[3] = c
      /\ w \in Seq(S) /\ Len(w) = 3 /\ w[1] = a /\ w[2] = b /\ w[3] = c
  BY AppendProperties
<1>3. \A i : (i \in 1 .. 2 => i \in {1, 2}) /\ (i \in 1 .. 3 => i \in {1, 2, 3})
  OBVIOUS
<1> HIDE DEF S, t, u, v, w
<1>4. (\A i \in 1 .. Len(t) : t[i] = u[i]) /\ (\A i \in 1 .. Len(v) : v[i] = w[i])
  BY <1>1, <1>2, <1>3
<1>5. t = u /\ v = w
  BY <1>1, <1>2, <1>4, SeqEqual
<1> QED BY <1>5 DEF t, u, v, w

\* The commands that may be on their way, after the next one is sent (Issue).
LEMMA Inboxes ==
    /\ Append(<<>>, "SCAN") = <<"SCAN">> /\ Append(<<>>, "GET") = <<"GET">>
    /\ Append(<<>>, "INCR") = <<"INCR">> /\ Append(<<"INFO">>, "SCAN") = <<"INFO", "SCAN">>
    /\ Append(<<"SCAN">>, "GET") = <<"SCAN", "GET">>
    /\ Append(<<"INFO", "SCAN">>, "GET") = <<"INFO", "SCAN", "GET">>
    /\ Append(<<"GET">>, "INCR") = <<"GET", "INCR">>
    /\ Append(<<"SCAN", "GET">>, "INCR") = <<"SCAN", "GET", "INCR">>
<1>1. \A a : Append(<<>>, a) = <<a>>
  OBVIOUS
<1>2. \A a, b : Append(<<a>>, b) = <<a, b>>
  BY Appended, Zenon
<1>3. \A a, b, c : Append(<<a, b>>, c) = <<a, b, c>>
  BY Appended, Zenon
<1> QED BY <1>1, <1>2, <1>3, Zenon

\* What is left of them when the first command is taken.
LEMMA InboxTails ==
    /\ Tail(<<"GET">>) = <<>> /\ Tail(<<"INCR">>) = <<>>
    /\ Tail(<<"SCAN", "GET">>) = <<"GET">> /\ Tail(<<"GET", "INCR">>) = <<"INCR">>
    /\ Tail(<<"INFO", "SCAN", "GET">>) = <<"SCAN", "GET">>
    /\ Tail(<<"SCAN", "GET", "INCR">>) = <<"GET", "INCR">>
OBVIOUS

\* main issues a command: Dial, Identify, Scan, Tick, GetReply.
LEMMA StreamIssue ==
    ASSUME ProbeInv, Dial \/ Identify \/ Scan \/ Tick \/ GetReply
    PROVE  StreamInv'
<1>1. /\ uncounted >= 0 /\ broken \in BOOLEAN /\ replies \in Seq(Kinds)
      /\ broken => inbox = <<>>
      /\ pc \in Commands => conn # None
  BY DEF ProbeInv, TypeOK, StreamInv
<1>2. CASE Dial
  <2>1. conn' # None
    BY <1>2, ProbeAssumption DEF Dial, Accepting, ProbeInv, TypeOK, Process
  <2>2. /\ pc' = "INFO" /\ broken' = FALSE /\ UNCHANGED uncounted
        /\ inbox' = <<"INFO">> /\ replies' = <<>>
    BY <1>2 DEF Dial
  <2> QED BY <1>1, <2>1, <2>2 DEF InfoStream, StreamInv
<1>3. CASE Identify
  <2>1. /\ conn # None /\ InfoStream
        /\ pc' = "SCAN" /\ UNCHANGED <<conn, broken, uncounted>>
        /\ inbox' = IF broken THEN inbox ELSE Append(inbox, "SCAN")
    BY <1>1, <1>3, CommandNames DEF Identify, Do, ProbeInv, StreamInv
  <2>2. CASE replies # <<>> /\ replies' = Tail(replies)
    <3>1. /\ replies' = <<>> /\ Identified'
          /\ inbox' = IF broken THEN <<>> ELSE <<"SCAN">>
      <4>0. Len(replies) = 1
        BY <2>1, <2>2 DEF InfoStream
      <4>3. replies # Tail(replies)
        BY <1>1, <2>2, <4>0, Behead
      <4>1. /\ inbox = <<>> /\ Len(replies) = 1
            /\ replies' = Tail(replies) /\ Identified'
        BY <1>3, <2>1, <2>2, <4>3 DEF Identify, InfoStream
      <4>2. replies' = <<>>
        BY <1>1, <2>2, <4>1, Behead, EmptySeq
      <4> QED BY <2>1, <4>1, <4>2, Inboxes
    <3>2. Len(replies') = 0 /\ (~broken => inbox' # <<>>)
      BY <3>1
    <3>3. inbox' \in {<<>>, <<"SCAN">>, <<"INFO", "SCAN">>} /\ (~broken' => inbox' # <<>>)
      BY <1>1, <2>1, <3>1, <3>2
    <3>4. ScanStream'
      BY <2>1, <3>1, <3>2, <3>3 DEF ScanStream
    <3> QED BY <1>1, <2>1, <3>1, <3>4 DEF StreamInv
  <2>3. CASE replies = <<>>
    <3>1. replies' = <<>> /\ inbox' = IF broken THEN <<>> ELSE <<"INFO", "SCAN">>
      BY <1>1, <1>3, <2>1, <2>3, Inboxes DEF Identify, InfoStream, NoReply
    <3>2. Len(replies') = 0 /\ inbox' # <<"SCAN">> /\ (~broken => inbox' # <<>>)
      BY <3>1
    <3>3. inbox' \in {<<>>, <<"SCAN">>, <<"INFO", "SCAN">>} /\ (~broken' => inbox' # <<>>)
      BY <1>1, <2>1, <3>1, <3>2
    <3>4. ScanStream'
      BY <2>1, <3>1, <3>2, <3>3 DEF ScanStream
    <3> QED BY <1>1, <2>1, <3>1, <3>4 DEF StreamInv
  <2>4. CASE replies # <<>> /\ broken /\ replies' = replies
    <3>1. /\ inbox' = <<>> /\ replies' # <<>> /\ Len(replies') = 1 /\ broken'
      BY <1>1, <2>1, <2>4 DEF InfoStream
    <3>2. ScanStream'
      BY <3>1 DEF ScanStream
    <3> QED BY <1>1, <2>1, <3>1, <3>2 DEF StreamInv
  <2> QED BY <1>3, <2>2, <2>3, <2>4 DEF Identify, NoReply
<1>4. CASE Scan
  <2>1. /\ conn # None /\ ScanStream
        /\ UNCHANGED <<conn, broken, backend, unnamed, uncounted>>
    BY <1>1, <1>4, CommandNames DEF Scan, ProbeInv, StreamInv
  <2>5. ASSUME replies # <<>>, broken, replies' = replies, Do("GET") PROVE StreamInv'
    <3>1. /\ pc' = "GET" /\ replies' = replies /\ inbox' = <<>> /\ broken'
      BY <1>1, <2>1, <2>5 DEF Do
    <3>2. \A i \in 2 .. Len(replies') : replies'[i] # "int"
      BY <2>1, <3>1 DEF ScanStream
    <3> QED BY <1>1, <2>1, <3>1, <3>2 DEF GetStream, StreamInv
  <2> DEFINE Read == /\ replies' = Tail(replies)
                     /\ IF Head(replies) = "page" THEN Do("SCAN") ELSE Do("GET")
  <2>2. ASSUME replies # <<>>, replies[1] = "page", Read PROVE StreamInv'
    <3>1. pc' = "SCAN" /\ inbox' = IF broken THEN <<>> ELSE <<"SCAN">>
      BY <1>1, <2>1, <2>2, Behead, Inboxes DEF Do, ScanStream
    <3>2. replies' = <<>> /\ (~broken => Identified)
      BY <1>1, <2>1, <2>2, Behead DEF ScanStream
    <3> QED BY <1>1, <2>1, <3>1, <3>2 DEF ScanStream, StreamInv
  <2>3. ASSUME replies # <<>>, replies[1] # "page", Read PROVE StreamInv'
    <3>1. /\ pc' = "GET" /\ replies' = Tail(replies)
          /\ inbox' = IF broken THEN inbox ELSE Append(inbox, "GET")
      BY <1>1, <2>3, Behead DEF Do
    <3>2. /\ Len(replies') = Len(replies) - 1 /\ Len(replies) \in Nat \ {0}
          /\ \A i \in 1 .. Len(replies') : replies'[i] = replies[i + 1]
      BY <1>1, <2>3, <3>1, Behead
    <3>3. \/ broken /\ inbox' = <<>>
          \/ ~broken /\ inbox = <<>> /\ inbox' = <<"GET">>
          \/ ~broken /\ inbox = <<"SCAN">> /\ inbox' = <<"SCAN", "GET">>
      BY <1>1, <2>1, <2>3, <3>1, Inboxes DEF ScanStream
    <3>4. \A i \in 2 .. Len(replies') : replies'[i] # "int"
      BY <2>1, <3>2 DEF ScanStream
    <3>5. inbox' = <<"GET">> /\ replies' = <<>> => Identified'
      BY <2>1, <3>2, <3>3 DEF ScanStream
    <3>6. inbox' # <<"INFO", "SCAN", "GET">> /\ (~broken => inbox' # <<>>)
      BY <3>3
    <3> QED BY <1>1, <2>1, <3>1, <3>3, <3>4, <3>5, <3>6 DEF GetStream, StreamInv
  <2>4. ASSUME replies = <<>> PROVE StreamInv'
    <3>1. /\ pc' = "GET" /\ replies' = <<>>
          /\ inbox' = IF broken THEN inbox ELSE Append(inbox, "GET")
      BY <1>4, <2>4 DEF Scan, Do, NoReply
    <3>2. \/ broken /\ inbox' = <<>>
          \/ inbox' \in {<<"SCAN", "GET">>, <<"INFO", "SCAN", "GET">>}
      BY <1>1, <2>1, <2>4, <3>1, Inboxes DEF ScanStream
    <3>3. inbox' # <<"GET">> /\ (~broken => inbox' # <<>>)
      BY <3>2
    <3> QED BY <1>1, <2>1, <3>1, <3>2, <3>3 DEF GetStream, StreamInv
  <2> QED BY <1>4, <2>2, <2>3, <2>4, <2>5 DEF Scan, NoReply
<1>5. CASE Tick
  <2>1. /\ UNCHANGED <<conn, broken, backend, unnamed, uncounted>> /\ pc' = "GET"
        /\ conn # None /\ Identified
        /\ replies' = <<>> /\ inbox' = IF broken THEN <<>> ELSE <<"GET">>
    BY <1>1, <1>5, Inboxes DEF Tick, Do, IdleStream, ProbeInv, StreamInv
  <2> QED BY <1>1, <2>1 DEF GetStream, StreamInv
<1>6. CASE GetReply
  <2>1. /\ UNCHANGED <<conn, broken, backend, unnamed, uncounted>> /\ GetStream
        /\ conn # None /\ pc' = "INCR"
        /\ replies # <<>> /\ replies' = Tail(replies)
        /\ inbox' = IF broken THEN inbox ELSE Append(inbox, "INCR")
    BY <1>1, <1>6, CommandNames DEF GetReply, Do, ProbeInv, StreamInv
  <2>2. /\ Len(replies') = Len(replies) - 1 /\ Len(replies) \in Nat \ {0}
        /\ \A i \in 1 .. Len(replies') : replies'[i] = replies[i + 1]
    BY <1>1, <2>1, Behead
  <2>3. \/ broken /\ inbox' = <<>>
        \/ ~broken /\ inbox = <<>> /\ inbox' = <<"INCR">>
        \/ inbox' \in {<<"GET", "INCR">>, <<"SCAN", "GET", "INCR">>}
    BY <1>1, <2>1, Inboxes DEF GetStream
  <2>4. inbox' = <<"INCR">> /\ replies' = <<>> => Identified'
    BY <2>1, <2>2, <2>3 DEF GetStream
  <2>5. replies' # <<>> => replies'[1] # "int"
    BY <2>1, <2>2 DEF GetStream
  <2> QED BY <1>1, <2>1, <2>3, <2>4, <2>5 DEF IncrStream, StreamInv
<1> QED BY <1>2, <1>3, <1>4, <1>5, <1>6

\* A tick, or the whole program, ends: DialError, GetError, IncrReply, IncrError,
\* Stop.
LEMMA StreamEnd ==
    ASSUME ProbeInv, DialError \/ GetError \/ IncrReply \/ IncrError \/ Stop
    PROVE  StreamInv'
<1>1. /\ uncounted \in Int /\ uncounted >= 0 /\ replies \in Seq(Kinds)
      /\ broken \in BOOLEAN /\ broken => inbox = <<>>
      /\ pc \in Commands => conn # None
      /\ conn = None => ~broken
  BY DEF ProbeInv, TypeOK, StreamInv
<1>2. CASE DialError
  <2>1. /\ pc = "idle" /\ conn = None /\ IdleStream
        /\ UNCHANGED <<pc, conn, broken, inbox, replies, uncounted>>
    BY <1>2 DEF DialError, ProbeInv, StreamInv
  <2> QED BY <1>1, <2>1 DEF IdleStream, StreamInv
<1>3. CASE GetError \/ IncrError
  <2>1. /\ pc' = "idle" /\ conn' = None /\ broken' = FALSE
        /\ inbox' = <<>> /\ replies' = <<>>
        /\ uncounted' = uncounted \/ uncounted' = uncounted + 1
    BY <1>3 DEF GetError, IncrError, Fail
  <2> QED BY <1>1, <2>1 DEF IdleStream, StreamInv
<1>4. CASE IncrReply
  <2>1. /\ pc' = "idle" /\ UNCHANGED <<conn, broken, inbox, backend, unnamed>>
        /\ conn # None /\ IncrStream
        /\ replies # <<>> /\ Head(replies) = "int" /\ replies' = Tail(replies)
        /\ uncounted' = uncounted - 1
    BY <1>1, <1>4, CommandNames DEF IncrReply, IncrAccepts, ProbeInv, StreamInv
  <2>2. replies[1] = "int" /\ Len(replies') = Len(replies) - 1 /\ replies' \in Seq(Kinds)
    BY <1>1, <2>1, Behead
  <2>3. inbox = <<>> /\ Len(replies) = 1 /\ Identified /\ uncounted >= 1
    BY <2>1, <2>2 DEF IncrStream
  <2>4. replies' = <<>>
    BY <2>2, <2>3, EmptySeq
  <2> QED BY <1>1, <2>1, <2>3, <2>4 DEF IdleStream, StreamInv
<1>5. CASE Stop
  <2>1. /\ pc' = "stopped" /\ conn' = None /\ broken' = FALSE
        /\ inbox' = <<>> /\ replies' = <<>> /\ UNCHANGED uncounted
    BY <1>5 DEF Stop
  <2> QED BY <1>1, <2>1 DEF IdleStream, StreamInv
<1> QED BY <1>2, <1>3, <1>4, <1>5

\* What the server sends for a command.
Sent(cmd) == Answers(cmd) \cup (IF cmd = "SCAN" THEN {<<"page">>} ELSE {})

\* An integer comes first in what is sent, and only as the answer of an INCR that
\* was executed, or as the rest of a reply that was given up.
LEMMA SentShape ==
    ASSUME NEW cmd \in Commands, NEW a \in Sent(cmd)
    PROVE  /\ a \in Seq(Kinds) /\ Len(a) \in {1, 2}
           /\ Len(a) = 2 => a[2] # "int"
           /\ cmd = "INFO" => a[1] # "page"
           /\ cmd = "INFO" /\ pc = "INFO" => Len(a) = 1
           /\ cmd = "SCAN" /\ pc # "GET" => Len(a) = 1 /\ a[1] # "int"
           /\ cmd = "GET" => a[1] # "int"
           /\ cmd # "INCR" /\ replies # <<>> => a[1] # "int"
           /\ cmd = "INCR" /\ a[1] = "int" => role[conn[1]] = "master"
           /\ cmd = "INCR" => Len(a) = 1
<1>1. a \in Seq(Kinds)
  <2>1. "page" \in Kinds
    BY DEF Kinds
  <2>2. <<"page">> \in Seq(Kinds)
    BY <2>1
  <2> QED BY <2>2, AnswersType DEF Sent
<1>2. CASE cmd = "INFO"
  BY <1>1, <1>2 DEF Sent, Answers, RestOfInfo
<1>3. CASE cmd = "SCAN"
  BY <1>1, <1>3 DEF Sent, Answers, RestOfScan
<1>4. CASE cmd = "GET"
  BY <1>1, <1>4 DEF Sent, Answers
<1>5. CASE cmd = "INCR"
  BY <1>1, <1>5 DEF Sent, Answers
<1> QED BY <1>2, <1>3, <1>4, <1>5 DEF Commands

\* The server executes a command (Serve).
LEMMA StreamServe ==
    ASSUME ProbeInv, Serve
    PROVE  StreamInv'
<1>1. /\ uncounted \in Int /\ uncounted >= 0
      /\ replies \in Seq(Kinds) /\ inbox \in Seq(Commands)
      /\ conn # None /\ broken = FALSE /\ inbox # <<>>
      /\ UNCHANGED <<pc, conn, broken, backend, unnamed>>
  BY DEF ProbeInv, TypeOK, StreamInv, Serve
<1>2. Head(inbox) \in Commands /\ inbox' = Tail(inbox)
  BY <1>1, Behead DEF Serve
<1>3. PICK a \in Sent(Head(inbox)) : replies' = replies \o a
  <2>1. CASE replies' = Append(replies, "page") /\ Head(inbox) = "SCAN"
    BY <1>1, <2>1, AppendIsConcat DEF Sent, Kinds
  <2>2. CASE \E a \in Answers(Head(inbox)) : replies' = replies \o a
    BY <2>2 DEF Sent
  <2> QED BY <2>1, <2>2 DEF Serve
<1> DEFINE n == Len(replies)
<1>4. /\ a \in Seq(Kinds) /\ Len(a) \in {1, 2} /\ n \in Nat
      /\ replies' \in Seq(Kinds) /\ Len(replies') = n + Len(a) /\ replies' # <<>>
      /\ \A i \in 1 .. n : replies'[i] = replies[i]
      /\ \A i \in n + 1 .. n + Len(a) : replies'[i] = a[i - n]
  <2>1. a \in Seq(Kinds) /\ Len(a) \in {1, 2}
    BY <1>2, <1>3, SentShape
  <2>2. /\ replies \o a \in Seq(Kinds) /\ Len(replies \o a) = n + Len(a)
        /\ n \in Nat
        /\ \A i \in 1 .. n + Len(a) :
              (replies \o a)[i] = IF i <= n THEN replies[i] ELSE a[i - n]
    BY <1>1, <2>1, ConcatProperties, LenProperties
  <2> QED BY <1>3, <2>1, <2>2
<1>5. uncounted' >= 0
  BY <1>1 DEF Serve
<1>6. Head(inbox) # "INCR" /\ (\A i \in 2 .. n : replies[i] # "int")
      => \A i \in 2 .. Len(replies') : replies'[i] # "int"
  <2> SUFFICES ASSUME Head(inbox) # "INCR", \A i \in 2 .. n : replies[i] # "int",
                      NEW i \in 2 .. Len(replies')
               PROVE  replies'[i] # "int"
    OBVIOUS
  <2>1. CASE i <= n
    BY <1>4, <2>1
  <2>2. CASE i = n + 1
    <3>0. n # 0 /\ i - n = 1 /\ i \in n + 1 .. n + Len(a)
      BY <1>4, <2>2
    <3>1. replies # <<>> /\ replies'[i] = a[1]
      BY <1>4, <3>0
    <3> QED BY <1>2, <1>3, <3>1, SentShape
  <2>3. CASE i = n + 2
    <3>1. Len(a) = 2 /\ replies'[i] = a[2]
      BY <1>4, <2>3
    <3> QED BY <1>2, <1>3, <3>1, SentShape
  <2>4. \A x, l, m \in Nat : \A k \in 2 .. l :
          m \in {1, 2} /\ l = x + m => k <= x \/ k = x + 1 \/ k = x + 2
    OBVIOUS
  <2>5. i <= n \/ i = n + 1 \/ i = n + 2
    <3>1. Len(a) \in Nat /\ Len(replies') \in Nat
      BY <1>4, LenProperties
    <3> HIDE DEF n
    <3> QED BY <1>4, <2>4, <3>1, Zenon
  <2> QED BY <2>1, <2>2, <2>3, <2>5, Zenon
<1>7. IF n = 0 THEN replies = <<>> /\ replies'[1] = a[1] /\ replies' = a
      ELSE replies # <<>> /\ replies'[1] = replies[1] /\ Len(replies') > 1
  <2>1. replies = <<>> => replies' = a
    BY <1>3, <1>4, ConcatEmptySeq
  <2> QED BY <1>1, <1>4, <2>1, EmptySeq
<1>8. CASE pc = "INFO"
  <2>1. InfoStream
    BY <1>8 DEF ProbeInv, StreamInv
  <2>2. inbox = <<"INFO">> /\ replies = <<>>
    BY <1>1, <2>1 DEF InfoStream
  <2>3. Head(inbox) = "INFO" /\ Tail(inbox) = <<>>
    BY <2>2
  <2>4. inbox' = <<>> /\ Len(replies') = 1
    BY <1>2, <1>3, <1>4, <1>7, <1>8, <2>2, <2>3, SentShape
  <2>5. InfoStream'
    BY <1>4, <2>4 DEF InfoStream
  <2> QED BY <1>1, <1>5, <1>8, <2>5 DEF StreamInv
<1>9. CASE pc = "SCAN"
  <2>1. ScanStream
    BY <1>9 DEF ProbeInv, StreamInv
  <2>2. \A i \in 2 .. Len(replies') : replies'[i] # "int"
    <3>1. Head(inbox) \in {"INFO", "SCAN"}
      BY <1>1, <2>1 DEF ScanStream
    <3> QED BY <1>6, <2>1, <3>1 DEF ScanStream
  <2>3. CASE inbox = <<"INFO", "SCAN">>
    <3>1. Head(inbox) = "INFO" /\ inbox' = <<"SCAN">> /\ replies = <<>>
      BY <1>2, <2>1, <2>3 DEF ScanStream
    <3>2. replies'[1] # "page"
      BY <1>2, <1>3, <1>7, <3>1, SentShape
    <3> QED BY <1>1, <1>4, <1>5, <1>9, <2>2, <3>1, <3>2 DEF ScanStream, StreamInv
  <2>4. CASE inbox = <<"SCAN">>
    <3>1. inbox' = <<>>
      BY <1>2, <2>4
    <3>2. Len(replies') = 1 => Identified
      BY <1>7, <2>1, <2>4 DEF ScanStream
    <3>3. replies'[1] = "page" => Len(replies') = 1
      <4>1. CASE n = 0
        BY <1>2, <1>3, <1>4, <1>9, <2>4, <4>1, SentShape
      <4>2. CASE n # 0
        BY <1>7, <2>1, <2>4, <4>2 DEF ScanStream
      <4> QED BY <4>1, <4>2
    <3> QED BY <1>1, <1>4, <1>5, <1>9, <2>2, <3>1, <3>2, <3>3 DEF ScanStream, StreamInv
  <2> QED BY <1>1, <2>1, <2>3, <2>4 DEF ScanStream
<1>10. CASE pc = "GET"
  <2>1. GetStream
    BY <1>10 DEF ProbeInv, StreamInv
  <2>2. \A i \in 2 .. Len(replies') : replies'[i] # "int"
    <3>1. Head(inbox) \in {"INFO", "SCAN", "GET"}
      BY <1>1, <2>1 DEF GetStream
    <3> QED BY <1>6, <2>1, <3>1 DEF GetStream
  <2>3. CASE inbox # <<"GET">>
    <3>1. inbox' \in {<<"GET">>, <<"SCAN", "GET">>}
      BY <1>1, <1>2, <2>1, <2>3, InboxTails DEF GetStream
    <3>2. inbox' # <<"INFO", "SCAN", "GET">> /\ inbox' # <<>>
      BY <3>1
    <3> QED BY <1>1, <1>4, <1>5, <1>10, <2>2, <3>1, <3>2 DEF GetStream, StreamInv
  <2>4. CASE inbox = <<"GET">>
    <3>1. inbox' = <<>> /\ inbox' # <<"GET">> /\ inbox' # <<"INFO", "SCAN", "GET">>
      BY <1>2, <2>4
    <3>2. Len(replies') = 1 => Identified
      BY <1>7, <2>1, <2>4 DEF GetStream
    <3> QED BY <1>1, <1>4, <1>5, <1>10, <2>2, <3>1, <3>2 DEF GetStream, StreamInv
  <2> QED BY <2>3, <2>4
<1>11. CASE pc = "INCR"
  <2>1. IncrStream
    BY <1>11 DEF ProbeInv, StreamInv
  <2>2. inbox' \in {<<>>, <<"INCR">>, <<"GET", "INCR">>}
    BY <1>1, <1>2, <2>1, InboxTails DEF IncrStream
  <2>3. ASSUME replies'[1] = "int"
        PROVE  inbox' = <<>> /\ Len(replies') = 1 /\ Identified /\ uncounted' >= 1
    <3>1. n = 0
      BY <1>1, <1>7, <2>1, <2>3 DEF IncrStream
    <3>2. Head(inbox) = "INCR"
      <4>1. Head(inbox) \in {"SCAN", "GET", "INCR"}
        BY <1>1, <2>1 DEF IncrStream
      <4> QED BY <1>2, <1>3, <1>7, <1>11, <2>3, <3>1, <4>1, SentShape
    <3>3. inbox = <<"INCR">>
      BY <1>1, <2>1, <3>2 DEF IncrStream
    <3>4. Len(a) = 1 /\ role[conn[1]] = "master"
      BY <1>2, <1>3, <1>7, <2>3, <3>1, <3>2, SentShape
    <3>5. uncounted' = uncounted + 1
      BY <3>2, <3>4 DEF Serve
    <3>6. Identified
      BY <1>7, <2>1, <3>1, <3>3 DEF IncrStream
    <3> QED BY <1>1, <1>2, <1>4, <3>1, <3>3, <3>4, <3>5, <3>6
  <2> QED BY <1>1, <1>4, <1>5, <1>11, <2>2, <2>3 DEF IncrStream, StreamInv
<1>12. CASE pc \notin Commands
  BY <1>1, <1>12 DEF ProbeInv, TypeOK, StreamInv, IdleStream
<1> QED BY <1>8, <1>9, <1>10, <1>11, <1>12 DEF Commands

\* The connection goes: what is lost leaves a prefix of the stream (Cut).
LEMMA StreamCut ==
    ASSUME ProbeInv, conn # None, Cut
    PROVE  StreamInv'
<1>1. /\ inbox' = <<>> /\ broken' = TRUE /\ uncounted' >= 0
      /\ UNCHANGED <<pc, conn, backend, unnamed, uncounted>>
  BY DEF ProbeInv, TypeOK, StreamInv, Cut
<1>2. PICK k \in 0 .. Len(replies) : replies' = SubSeq(replies, 1, k)
  BY DEF Cut
<1>3. /\ replies \in Seq(Kinds) /\ Len(replies) \in Nat /\ replies' \in Seq(Kinds)
      /\ Len(replies') = k /\ \A i \in 1 .. k : replies'[i] = replies[i]
  BY <1>2, Prefix, LenProperties DEF ProbeInv, TypeOK
<1>4. replies' # <<>> =>
         replies # <<>> /\ k \in 1 .. Len(replies) /\ replies'[1] = replies[1]
  BY <1>3
<1>5. CASE pc = "INFO"
  <2>1. InfoStream
    BY <1>5 DEF ProbeInv, StreamInv
  <2>2. ASSUME replies' # <<>> PROVE Len(replies') = 1
    <3>1. k \in 1 .. Len(replies) /\ Len(replies) = 1
      BY <1>4, <2>1, <2>2 DEF InfoStream
    <3> QED BY <1>3, <3>1
  <2> QED BY <1>1, <1>5, <2>2 DEF InfoStream, StreamInv
<1>6. CASE pc = "SCAN"
  <2>1. ScanStream
    BY <1>6 DEF ProbeInv, StreamInv
  <2>2. /\ \A i \in 2 .. Len(replies') : replies'[i] # "int"
        /\ replies' # <<>> /\ replies'[1] = "page" => Len(replies') = 1
    BY <1>3, <1>4, <2>1 DEF ScanStream
  <2> QED BY <1>1, <1>6, <2>2 DEF ScanStream, StreamInv
<1>7. CASE pc = "GET"
  <2>1. GetStream
    BY <1>7 DEF ProbeInv, StreamInv
  <2>2. \A i \in 2 .. Len(replies') : replies'[i] # "int"
    BY <1>3, <2>1 DEF GetStream
  <2> QED BY <1>1, <1>7, <2>2 DEF GetStream, StreamInv
<1>8. CASE pc = "INCR"
  <2>1. IncrStream
    BY <1>8 DEF ProbeInv, StreamInv
  <2>2. replies' # <<>> /\ replies'[1] = "int" =>
           Len(replies') = 1 /\ Identified /\ uncounted >= 1
    BY <1>3, <1>4, <2>1 DEF IncrStream
  <2> QED BY <1>1, <1>8, <2>2 DEF IncrStream, StreamInv
<1>9. CASE pc \notin Commands
  <2>1. replies = <<>> /\ pc \in {"idle", "stopped"} /\ (pc = "idle" => Identified)
    BY <1>9 DEF ProbeInv, TypeOK, StreamInv, IdleStream
  <2>2. replies' = <<>>
    BY <1>4, <2>1
  <2> QED BY <1>1, <2>1, <2>2 DEF IdleStream, StreamInv
<1> QED BY <1>5, <1>6, <1>7, <1>8, <1>9 DEF Commands

\* Every step keeps the invariant.
LEMMA ProbeNext == ProbeInv /\ [Next]_vars => ProbeInv'
<1> SUFFICES ASSUME ProbeInv, [Next]_vars PROVE StreamInv'
  BY TypeNext DEF ProbeInv
<1>1. ASSUME UNCHANGED client PROVE StreamInv'
  BY <1>1 DEF ProbeInv, StreamInv, client, InfoStream, ScanStream, GetStream,
              IncrStream, IdleStream
<1>2. CASE Probe \/ Stop
  BY <1>2, StreamIssue, StreamEnd DEF Probe
<1>3. CASE Serve
  BY <1>3, StreamServe
<1>4. CASE Break
  BY <1>4, StreamCut DEF Break
<1>5. ASSUME NEW b \in Backends, Crash(b) PROVE StreamInv'
  <2>1. <<b, run[b]>> # None
    BY ProbeAssumption DEF ProbeInv, TypeOK, Process
  <2>2. CASE conn = <<b, run[b]>> /\ ~broken
    BY <1>5, <2>1, <2>2, StreamCut DEF Crash
  <2>3. CASE ~(conn = <<b, run[b]>> /\ ~broken)
    BY <1>1, <1>5, <2>3 DEF Crash, client
  <2> QED BY <2>2, <2>3
<1>6. CASE Reroute \/ UNCHANGED vars
  BY <1>1, <1>6 DEF Reroute, vars, client
<1>7. ASSUME NEW b \in Backends, Reboot(b) \/ Demote(b) \/ Promote(b) PROVE StreamInv'
  BY <1>1, <1>7 DEF Reboot, Demote, Promote
<1> QED BY <1>2, <1>3, <1>4, <1>5, <1>6, <1>7 DEF Next

\* The stream holds what the invariant says in every state the probe reaches.
THEOREM ProbeCorrect == Spec => []ProbeInv
<1>1. Init => StreamInv
  BY CommandNames DEF Init, StreamInv, IdleStream
<1> QED BY <1>1, TypeInit, ProbeNext, PTL DEF Spec, ProbeInv

-----------------------------------------------------------------------------
(* What follows.                                                           *)

\* Every write in st.ok is an INCR that a master executed, and none is counted
\* twice, for any number of backends, faults, late replies and reconnects
\* (main.go:178-195, 309-318).
THEOREM CountedWritesAreReal == Spec => []CountsRealWrites
<1>1. ProbeInv => CountsRealWrites
  BY DEF ProbeInv, StreamInv, CountsRealWrites
<1> QED BY <1>1, ProbeCorrect, PTL

\* A write is counted only on the instance that main identified last, although
\* main goes on when identify fails, unless this instance answered INFO without a
\* run_id (main.go:156-200).
THEOREM CountedOnIdentified == Spec => WritesOnIdentified
<1>1. ProbeInv /\ [Next]_vars => [uncounted' < uncounted => Identified]_vars
  <2> SUFFICES ASSUME ProbeInv, Next, uncounted' < uncounted PROVE Identified
    BY DEF vars
  <2>1. uncounted \in Int
    BY DEF ProbeInv, TypeOK
  <2>2. IncrReply
    BY <2>1 DEF Next, Probe, Dial, DialError, Identify, Scan, Tick, GetReply, GetError,
                IncrError, Fail, Stop, Serve, Break, Cut, Crash, Reboot, Demote,
                Promote, Reroute, client
  <2>3. replies # <<>> /\ replies[1] = "int" /\ IncrStream
    BY <2>2, Behead DEF IncrReply, IncrAccepts, ProbeInv, TypeOK, StreamInv
  <2> QED BY <2>3 DEF IncrStream
<1> QED BY <1>1, ProbeCorrect, PTL DEF Spec, WritesOnIdentified
=============================================================================
