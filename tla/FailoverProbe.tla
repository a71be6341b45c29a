--------------------------- MODULE FailoverProbe ---------------------------
(***************************************************************************)
(* The failover probe (tools/failover-probe/main.go): one long-lived       *)
(* connection through the write Service, a GET and an INCR on every tick.  *)
(*                                                                         *)
(* Commands are answered in order. INFO and SCAN that miss their deadline  *)
(* do not cost the connection, so that their replies, whole or in part,    *)
(* may be read as the answers of later commands. A reply is its RESP type. *)
(***************************************************************************)
EXTENDS Integers, Sequences

CONSTANTS
    Backends,   \* the Redis Pods behind the Service
    None,
    Faults,     \* kinds of fault that may happen
    MaxFaults   \* how many happen in one behaviour

FaultKinds == {"dial", "late", "break", "crash", "demote", "page"}

\* A run_id stands for one process of a backend.
Process == Backends \X Nat

ASSUME ProbeAssumption ==
    /\ None \notin Backends \cup Process
    /\ Faults \subseteq FaultKinds /\ MaxFaults \in Nat

VARIABLES
    role,       \* of each backend: master, replica or down
    run,        \* the number of its current process, its run_id
    route,      \* where the Service leads, or None
    pc,         \* the command whose reply main waits for, "idle" or "stopped"
    conn,       \* the process it is connected to, or None
    broken,     \* the connection is gone, which main does not know yet
    inbox,      \* commands on their way to the server
    replies,    \* replies on their way back
    backend,    \* the last run_id identified, or None
    unnamed,    \* this connection answered INFO, but named no run_id
    outage,     \* outageStart is set
    uncounted,  \* INCRs executed so far, less those in st.ok
    faults      \* faults so far

vars == <<role, run, route, pc, conn, broken, inbox, replies, backend, unnamed,
          outage, uncounted, faults>>
pods   == <<role, run, route>>
client == <<pc, conn, broken, inbox, replies, backend, unnamed, outage, uncounted>>

Commands == {"INFO", "SCAN", "GET", "INCR"}
\* What readReply makes of a reply; a page is an array after
\* which the scan goes on: its cursor is not "0" and the limit is not reached.
Kinds    == {"string", "nil", "int", "array", "page", "info", "error", "garbled"}

\* The values every variable stays within; a command is waited for only on a
\* connection.
TypeOK ==
    /\ role \in [Backends -> {"master", "replica", "down"}]
    /\ run \in [Backends -> Nat]
    /\ route \in Backends \cup {None}
    /\ pc \in Commands \cup {"idle", "stopped"}
    /\ conn \in Process \cup {None}
    /\ broken \in BOOLEAN
    /\ inbox \in Seq(Commands) /\ replies \in Seq(Kinds)
    /\ backend \in Process \cup {None}
    /\ unnamed \in BOOLEAN /\ outage \in BOOLEAN
    /\ uncounted \in Int /\ faults \in Nat
    /\ pc \in Commands => conn # None

\* A fault of kind k happens, within the budget.
Fault(k) == k \in Faults /\ faults < MaxFaults /\ faults' = faults + 1
NoFault  == UNCHANGED faults

\* A fresh Service with one master; main has not dialled yet.
Init ==
    /\ \E b \in Backends :
          route = b /\ role = [c \in Backends |-> IF c = b THEN "master" ELSE "replica"]
    /\ run = [b \in Backends |-> 0]
    /\ pc = "idle" /\ conn = None /\ broken = FALSE
    /\ inbox = <<>> /\ replies = <<>>
    /\ backend = None /\ unnamed = FALSE /\ outage = FALSE
    /\ uncounted = 0 /\ faults = 0

-----------------------------------------------------------------------------
(* The client.                                                             *)

\* do: the command is written, with effect if the connection still stands.
Do(cmd) ==
    /\ pc' = cmd
    /\ inbox' = IF broken THEN inbox ELSE Append(inbox, cmd)

\* closeConn and noteFailure. An INCR that was sent may still be executed.
Fail ==
    /\ outage' = TRUE
    /\ pc' = "idle" /\ conn' = None /\ broken' = FALSE
    /\ inbox' = <<>> /\ replies' = <<>>
    /\ \/ UNCHANGED uncounted
       \/ /\ "INCR" \in {inbox[i] : i \in 1 .. Len(inbox)}
          /\ role[conn[1]] = "master"
          /\ uncounted' = uncounted + 1
    /\ UNCHANGED <<pods, backend, unnamed>>

\* do returns no reply: the connection is gone, which the write may find out
\* before the replies that came are read, or the deadline passes.
NoReply ==
    \/ broken /\ NoFault
    \/ ~broken /\ replies = <<>> /\ Fault("late")

\* The Service leads to a process that accepts connections.
Accepting == \E b \in Backends : route = b /\ role[b] # "down"

\* A tick without a connection: dial, and ask who answers.
Dial ==
    /\ pc = "idle" /\ conn = None
    /\ Accepting
    /\ conn' = <<route, run[route]>>
    /\ broken' = FALSE /\ unnamed' = FALSE
    /\ pc' = "INFO" /\ inbox' = <<"INFO">> /\ replies' = <<>>
    /\ UNCHANGED <<pods, backend, outage, uncounted, faults>>

\* dial fails: the Service may lead nowhere.
DialError ==
    /\ pc = "idle" /\ conn = None
    /\ \/ ~Accepting /\ NoFault
       \/ Accepting /\ Fault("dial")
    /\ outage' = TRUE
    /\ UNCHANGED <<pods, pc, conn, broken, inbox, replies, backend, unnamed, uncounted>>

\* identify returns, and scanKeys begins. backend is kept when the reply holds no
\* run_id, as an error does not (BUSY, NOPERM), and when there is no reply.
Identify ==
    /\ pc = "INFO"
    /\ \/ /\ replies # <<>> /\ Head(replies) = "info"
          /\ backend' = conn /\ replies' = Tail(replies)
          /\ NoFault /\ UNCHANGED unnamed
       \/ /\ replies # <<>>
          /\ unnamed' = TRUE /\ replies' = Tail(replies)
          /\ NoFault /\ UNCHANGED backend
       \/ NoReply /\ UNCHANGED <<backend, unnamed, replies>>
    /\ Do("SCAN")
    /\ UNCHANGED <<pods, conn, broken, outage, uncounted>>

\* One page of scanKeys; anything but an array ends the scan, and GET follows.
Scan ==
    /\ pc = "SCAN"
    /\ \/ /\ replies # <<>> /\ replies' = Tail(replies) /\ NoFault
          /\ IF Head(replies) = "page" THEN Do("SCAN") ELSE Do("GET")
       \/ NoReply /\ UNCHANGED replies /\ Do("GET")
    /\ UNCHANGED <<pods, conn, broken, backend, unnamed, outage, uncounted>>

\* A tick with a connection begins with GET.
Tick ==
    /\ pc = "idle" /\ conn # None
    /\ Do("GET")
    /\ UNCHANGED <<pods, conn, broken, replies, backend, unnamed, outage, uncounted, faults>>

\* get takes a string or nil, whatever command it answers.
GetAccepts(reply) == reply \in {"string", "nil", "info"}

\* The read succeeded, and the write follows.
GetReply ==
    /\ pc = "GET" /\ replies # <<>> /\ GetAccepts(Head(replies))
    /\ replies' = Tail(replies)
    /\ Do("INCR")
    /\ UNCHANGED <<pods, conn, broken, backend, unnamed, outage, uncounted, faults>>

\* Mutant of GetError: the tick goes on after closeConn.
GetErrorGoesOn ==
    /\ pc = "GET"
    /\ NoReply
    /\ conn' = None /\ outage' = TRUE
    /\ pc' = "INCR"
    /\ UNCHANGED <<pods, broken, inbox, replies, backend, unnamed, uncounted>>

\* GET fails: the connection is dropped and the tick is over.
GetError ==
    /\ pc = "GET"
    /\ \/ replies # <<>> /\ ~GetAccepts(Head(replies)) /\ NoFault
       \/ NoReply
    /\ Fail

\* Mutant of IncrAccepts: any reply that is not an error.
IncrAcceptsAny(reply) == reply \notin {"error", "garbled"}

\* incr takes an integer.
IncrAccepts(reply) == reply = "int"

\* The write succeeded: st.ok counts it, and the outage is over.
IncrReply ==
    /\ pc = "INCR" /\ replies # <<>> /\ IncrAccepts(Head(replies))
    /\ replies' = Tail(replies)
    /\ uncounted' = uncounted - 1
    /\ outage' = FALSE
    /\ pc' = "idle"
    /\ UNCHANGED <<pods, conn, broken, inbox, backend, unnamed, faults>>

\* Mutant of IncrError: READONLY does not cost the connection.
IncrErrorKeeps ==
    /\ pc = "INCR" /\ replies # <<>> /\ ~IncrAccepts(Head(replies))
    /\ replies' = Tail(replies)
    /\ outage' = TRUE
    /\ pc' = "idle"
    /\ UNCHANGED <<pods, conn, broken, inbox, backend, unnamed, uncounted, faults>>

\* INCR fails, READONLY included.
IncrError ==
    /\ pc = "INCR"
    /\ \/ replies # <<>> /\ ~IncrAccepts(Head(replies)) /\ NoFault
       \/ NoReply
    /\ Fail

\* A signal, between two ticks.
Stop ==
    /\ pc = "idle"
    /\ pc' = "stopped" /\ conn' = None /\ broken' = FALSE
    /\ inbox' = <<>> /\ replies' = <<>>
    /\ UNCHANGED <<pods, backend, unnamed, outage, uncounted, faults>>

-----------------------------------------------------------------------------
(* The servers and the network.                                            *)

\* What is left in the stream of a reply of which the client had consumed a part
\* when it stopped waiting: of INFO, text that begins in the middle of a line,
\* which may look like an integer; of SCAN, also bulk strings.
RestOfInfo ==
    IF replies # <<>> \/ pc = "INFO" THEN {}
    ELSE {<<"garbled">>, <<"garbled", "garbled">>, <<"int", "garbled">>}
RestOfScan ==
    IF replies # <<>> \/ pc # "GET" THEN {}
    ELSE {<<"garbled">>, <<"string">>, <<"string", "string">>, <<"int", "string">>}

\* What the client finds in its stream for cmd.
Answers(cmd) ==
    LET writable == role[conn[1]] = "master"
    IN  [INFO |-> {<<"info">>, <<"error">>} \cup RestOfInfo,
         SCAN |-> {<<"array">>} \cup RestOfScan,
         GET  |-> {<<"string">>, <<"nil">>} \cup (IF writable THEN {} ELSE {<<"error">>}),
         INCR |-> IF writable THEN {<<"int">>} ELSE {<<"error">>}][cmd]

\* The server executes the next command.
Serve ==
    /\ conn # None /\ ~broken /\ inbox # <<>>
    /\ inbox' = Tail(inbox)
    /\ \/ \E a \in Answers(Head(inbox)) : replies' = replies \o a /\ NoFault
       \/ Head(inbox) = "SCAN" /\ Fault("page") /\ replies' = Append(replies, "page")
    /\ uncounted' = IF Head(inbox) = "INCR" /\ role[conn[1]] = "master"
                    THEN uncounted + 1 ELSE uncounted
    /\ UNCHANGED <<pods, pc, conn, broken, backend, unnamed, outage>>

\* The connection goes: commands not yet executed are lost, and so may be some
\* of the replies.
Cut ==
    /\ broken' = TRUE
    /\ inbox' = <<>>
    /\ \E k \in 0 .. Len(replies) : replies' = SubSeq(replies, 1, k)
    /\ UNCHANGED <<pc, conn, backend, unnamed, outage, uncounted>>

Break ==
    /\ conn # None /\ ~broken
    /\ Fault("break")
    /\ Cut
    /\ UNCHANGED pods

\* A backend dies, and its connections with it.
Crash(b) ==
    /\ role[b] # "down"
    /\ Fault("crash")
    /\ role' = [role EXCEPT ![b] = "down"]
    /\ IF conn = <<b, run[b]>> /\ ~broken THEN Cut
       ELSE UNCHANGED client
    /\ UNCHANGED <<run, route>>

\* It comes back as another process.
Reboot(b) ==
    /\ role[b] = "down"
    /\ role' = [role EXCEPT ![b] = "master"]
    /\ run' = [run EXCEPT ![b] = @ + 1]
    /\ UNCHANGED <<route, client, faults>>

\* A master is demoted, and keeps its connections.
Demote(b) ==
    /\ role[b] = "master"
    /\ Fault("demote")
    /\ role' = [role EXCEPT ![b] = "replica"]
    /\ UNCHANGED <<run, route, client>>

Promote(b) ==
    /\ role[b] = "replica"
    /\ role' = [role EXCEPT ![b] = "master"]
    /\ UNCHANGED <<run, route, client, faults>>

\* The endpoints of the Service change, sooner or later than the roles do.
Reroute ==
    /\ route' \in (Backends \cup {None}) \ {route}
    /\ UNCHANGED <<role, run, client, faults>>

Probe ==
    \/ Dial \/ DialError \/ Identify \/ Scan \/ Tick
    \/ GetReply \/ GetError \/ IncrReply \/ IncrError

Next ==
    \/ Probe \/ Stop \/ Serve \/ Break \/ Reroute
    \/ \E b \in Backends : Crash(b) \/ Reboot(b) \/ Demote(b) \/ Promote(b)

Spec == Init /\ [][Next]_vars

\* The ticker of main keeps firing, and a server that lives answers.
FairSpec == Spec /\ WF_vars(Probe) /\ WF_vars(Serve)

-----------------------------------------------------------------------------

\* Every write in st.ok is an INCR that some master executed, and none is
\* counted twice: late replies may pass for reads, but never for a write
\* (main.go:178-195, 309-318).
CountsRealWrites == uncounted >= 0

\* main goes on when identify fails, and still a counted write was made on the
\* instance identified last, the one that [RECOVERED] names (main.go:195-200): a
\* reply that is late shifts the stream, and the connection is dropped before a
\* write can succeed on it. Only where INFO was answered and named no run_id does
\* nothing shift: there writes are counted, and [RECOVERED] names the instance of
\* an earlier connection.
WritesOnIdentified ==
    [][uncounted' < uncounted => backend = conn \/ unnamed]_vars

\* Once the Service leads for good to a master that takes writes, an outage ends,
\* unless the probe is stopped: it never stays on a demoted or dead instance, nor
\* on a shifted stream (main.go:156-192).
Recovers ==
    <>[](\E b \in Backends : route = b /\ role[b] = "master")
    => []<>(~outage \/ pc = "stopped")
=============================================================================
