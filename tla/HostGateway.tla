----------------------------- MODULE HostGateway -----------------------------
(***************************************************************************)
(* The host agent's signaling gateway (mediaservo-host/src/gateway.rs): the *)
(* child processes of a vehicle share one session with the server.  Their   *)
(* requests are forwarded in order and the answers, which carry no sender,  *)
(* are handed out by a FIFO of pending connection ids.                      *)
(*                                                                          *)
(* conn_task runs once per child, remote_loop/run_session once; they share  *)
(* State under a mutex, so one critical section is one step.  The server    *)
(* reads the session's requests one at a time and answers each before the   *)
(* next (handle_socket); what it answers is taken from handle_sfu_message.  *)
(***************************************************************************)
EXTENDS Naturals, Sequences, FiniteSets

CONSTANTS
    Conns,      \* local child connections, each used once (next_id only grows)
    Kinds,      \* the requests children send: see Tracked and Untracked
    MaxReq,     \* bound: requests of one connection
    MaxSess,    \* bound: remote sessions
    EvCap       \* capacity of the link session's event channel

\* is_sfu_request: the requests that get a slot in the FIFO ...
Tracked == {"transport", "produce"}
\* ... and one it does not name although the server answers it too (data
\* producers and consumers, router capabilities, preferred layers).
Untracked == {"data"}

ASSUME GatewayAssumption ==
    /\ Kinds \subseteq Tracked \cup Untracked
    /\ MaxReq \in Nat /\ MaxSess \in Nat /\ EvCap \in Nat \ {0}

Msg   == [kind : Kinds \cup {"gone"}, conn : Conns]
Event == [kind : {"answer", "error", "broadcast"}, conn : Conns]

VARIABLES
    conn,       \* per connection: its conn_task
    produced,   \* connections with a producer_key
    nreq,       \* requests made so far
    joined,     \* State.joined
    pending,    \* State.pending
    hi,         \* UpstreamQueue.hi
    phase,      \* where remote_loop stands
    again,      \* its local flag `reconnected`
    link,       \* the link session
    sess,       \* sessions established so far
    sent,       \* requests between run_session and the server
    down,       \* events between the server and run_session
    prod,       \* at the server: connections whose producers live
    owed,       \* per child: accepted requests it still waits for
    got,        \* history: whose answers each child was given in this session
    shifted     \* history: an event without a slot, or a slot without its event, in this session

connVars == <<conn, produced, nreq>>
loopVars == <<joined, phase, again>>
linkVars == <<link, sess, sent, down, prod>>
history  == <<got, shifted>>
vars     == <<connVars, loopVars, linkVars, pending, hi, owed, history>>

TypeOK ==
    /\ conn \in [Conns -> {"off", "open", "closing", "reported", "gone"}]
    /\ produced \subseteq Conns
    /\ nreq \in [Conns -> 0..MaxReq]
    /\ joined \in BOOLEAN
    /\ pending \in Seq(Conns)
    /\ hi \in Seq(Msg)
    /\ phase \in {"connecting", "joining", "notify", "serve", "ended", "drain"}
    /\ again \in BOOLEAN
    /\ link \in {"none", "up", "dropped", "silent"}
    /\ sess \in 0..MaxSess
    /\ sent \in Seq(Msg)
    /\ down \in Seq(Event)
    /\ prod \subseteq Conns
    /\ owed \in [Conns -> 0..MaxReq]
    /\ got \in [Conns -> SUBSET Conns]
    /\ shifted \in BOOLEAN

Init ==
    /\ conn = [c \in Conns |-> "off"]
    /\ produced = {}
    /\ nreq = [c \in Conns |-> 0]
    /\ joined = FALSE
    /\ pending = <<>>
    /\ hi = <<>>
    /\ phase = "connecting"
    /\ again = FALSE
    /\ link = "none"
    /\ sess = 0
    /\ sent = <<>>
    /\ down = <<>>
    /\ prod = {}
    /\ owed = [c \in Conns |-> 0]
    /\ got = [c \in Conns |-> {}]
    /\ shifted = FALSE

\* Still in State.conns, where answers and notices find it.
Listed(c) == conn[c] \in {"open", "closing", "reported"}

-----------------------------------------------------------------------------
(* conn_task of one child. *)

Accept(c) ==
    /\ conn[c] = "off"
    /\ conn' = [conn EXCEPT ![c] = "open"]
    /\ UNCHANGED <<produced, nreq, loopVars, linkVars, pending, hi, owed, history>>

\* upstream() and the push onto the hi queue, in one critical section: refused
\* with 5001 while not joined, before anything is recorded but the producer key.
TakesSlot(c, k) == joined /\ k \in Tracked
upstream(c, k) ==
    /\ conn[c] = "open"
    /\ nreq[c] < MaxReq
    /\ nreq' = [nreq EXCEPT ![c] = @ + 1]
    /\ produced' = IF k = "produce" THEN produced \cup {c} ELSE produced
    /\ pending' = IF TakesSlot(c, k) THEN Append(pending, c) ELSE pending
    /\ hi' = IF joined THEN Append(hi, [kind |-> k, conn |-> c]) ELSE hi
    /\ owed' = IF joined /\ k \in Tracked THEN [owed EXCEPT ![c] = @ + 1] ELSE owed
    /\ UNCHANGED <<conn, loopVars, linkVars, history>>

\* The socket closes or fails: the loop ends.
ConnEnds(c) ==
    /\ conn[c] = "open"
    /\ conn' = [conn EXCEPT ![c] = "closing"]
    /\ UNCHANGED <<produced, nreq, loopVars, linkVars, pending, hi, owed, history>>

\* DownstreamGone goes onto the hi queue whether or not the gateway is joined.
DownstreamGone(c) == [kind |-> "gone", conn |-> c]
ReportGone(c) ==
    /\ conn[c] = "closing"
    /\ conn' = [conn EXCEPT ![c] = "reported"]
    /\ hi' = IF c \in produced THEN Append(hi, DownstreamGone(c)) ELSE hi
    /\ UNCHANGED <<produced, nreq, loopVars, linkVars, pending, owed, history>>

\* The slots of the connection stay in the FIFO (mark-dead).
SlotsRemoved(c) == SelectSeq(pending, LAMBDA d : d # c)
SlotsKept(c)    == pending
remove_conn(c) ==
    /\ conn[c] = "reported"
    /\ conn' = [conn EXCEPT ![c] = "gone"]
    /\ pending' = SlotsKept(c)
    /\ UNCHANGED <<produced, nreq, loopVars, linkVars, hi, owed, history>>

-----------------------------------------------------------------------------
(* remote_loop. *)

\* connect_with_retry has succeeded.  A re-attached session keeps its producers
\* at the server, a full join starts without any.
Connect ==
    /\ phase = "connecting"
    /\ sess < MaxSess
    /\ sess' = sess + 1
    /\ link' = "up"
    /\ sent' = <<>>
    /\ down' = <<>>
    /\ prod' \in {prod, {}}
    /\ phase' = "joining"
    /\ UNCHANGED <<connVars, joined, again, pending, hi, owed, history>>

Join ==
    /\ phase = "joining"
    /\ joined' = TRUE
    /\ phase' = IF again THEN "notify" ELSE "serve"
    /\ UNCHANGED <<connVars, again, linkVars, pending, hi, owed, history>>

\* H6: every child is told, with a 5001, to rebuild its SFU session.
Unnotified(c) == owed[c]
Notified(c)   == IF Listed(c) THEN 0 ELSE owed[c]
Notify ==
    /\ phase = "notify"
    /\ owed' = [c \in Conns |-> Notified(c)]
    /\ phase' = "serve"
    /\ UNCHANGED <<connVars, joined, again, linkVars, pending, hi, history>>

\* run_session has returned: reset_remote ...
reset_remote ==
    /\ phase = "ended"
    /\ joined' = FALSE
    /\ pending' = <<>>
    /\ link' = "none"
    /\ sent' = <<>>
    /\ down' = <<>>
    /\ phase' = "drain"
    /\ got' = [c \in Conns |-> {}]
    /\ shifted' = FALSE
    /\ UNCHANGED <<connVars, again, sess, prod, hi, owed>>

\* ... then the upstream queue is emptied.
Drain ==
    /\ phase = "drain"
    /\ hi' = <<>>
    /\ again' = TRUE
    /\ phase' = "connecting"
    /\ UNCHANGED <<connVars, joined, linkVars, pending, owed, history>>

-----------------------------------------------------------------------------
(* run_session. *)

\* session.send: an error ends the session.
SendUp ==
    /\ phase = "serve"
    /\ hi # <<>>
    /\ hi' = Tail(hi)
    /\ IF link = "up"
       THEN sent' = Append(sent, Head(hi)) /\ UNCHANGED phase
       ELSE phase' = "ended" /\ UNCHANGED sent
    /\ UNCHANGED <<connVars, joined, again, link, sess, down, prod, pending, owed, history>>

\* downstream(): an answer or an Error goes to the connection of the first slot,
\* or nowhere when that connection has gone; other messages go to everyone.
Receive ==
    /\ phase = "serve"
    /\ down # <<>>
    /\ Len(down) <= EvCap
    /\ down' = Tail(down)
    /\ shifted' = (shifted \/ Head(down).kind = "error")
    /\ IF Head(down).kind = "broadcast" \/ pending = <<>>
       THEN UNCHANGED <<pending, owed, got>>
       ELSE LET to == Head(pending) IN
            /\ pending' = Tail(pending)
            /\ IF Listed(to)
               THEN /\ got' = [got EXCEPT ![to] = @ \cup {Head(down).conn}]
                    /\ owed' = [owed EXCEPT ![to] = IF @ = 0 THEN 0 ELSE @ - 1]
               ELSE UNCHANGED <<got, owed>>
    /\ UNCHANGED <<connVars, loopVars, link, sess, sent, prod, hi>>

\* RecvError::Lagged: the oldest events were overwritten.
Lagged ==
    /\ phase = "serve"
    /\ Len(down) > EvCap
    /\ down' = SubSeq(down, Len(down) - EvCap + 1, Len(down))
    /\ shifted' = TRUE
    /\ UNCHANGED <<connVars, loopVars, link, sess, sent, prod, pending, hi, owed, got>>

\* The Disconnected event comes after everything received before it.
SeeDisconnected ==
    /\ phase = "serve"
    /\ link = "dropped"
    /\ down = <<>>
    /\ phase' = "ended"
    /\ UNCHANGED <<connVars, joined, again, linkVars, pending, hi, owed, history>>

-----------------------------------------------------------------------------
(* The server and the link session (mediaservo-link session_task). *)

Answer(m) ==
    IF m.kind \in Tracked
    THEN {[kind |-> "answer", conn |-> m.conn]}
    ELSE {[kind |-> "broadcast", conn |-> m.conn], [kind |-> "error", conn |-> m.conn]}

handle_sfu_message ==
    /\ link = "up"
    /\ sent # <<>>
    /\ sent' = Tail(sent)
    /\ LET m == Head(sent) IN
       /\ prod' = CASE m.kind = "produce" -> prod \cup {m.conn}
                    [] m.kind = "gone"    -> prod \ {m.conn}
                    [] OTHER              -> prod
       /\ IF m.kind = "gone"
          THEN UNCHANGED down
          ELSE \E e \in Answer(m) : down' = Append(down, e)
    /\ UNCHANGED <<connVars, loopVars, link, sess, pending, hi, owed, history>>

\* The socket ends; what was under way in either direction may be lost.  Before
\* run_session subscribes nobody hears the Disconnected event.
LinkDrops ==
    /\ link = "up"
    /\ link' = IF phase = "serve" THEN "dropped" ELSE "silent"
    /\ sent' = <<>>
    /\ \E n \in 0..Len(down) : down' = SubSeq(down, 1, n)
    /\ UNCHANGED <<connVars, loopVars, sess, prod, pending, hi, owed, history>>

\* A failed write ends session_task without a Disconnected event.
WriteFails ==
    /\ link = "up"
    /\ link' = "silent"
    /\ sent' = <<>>
    /\ UNCHANGED <<connVars, loopVars, sess, down, prod, pending, hi, owed, history>>

-----------------------------------------------------------------------------

LoopStep ==
    \/ Connect \/ Join \/ Notify \/ reset_remote \/ Drain
    \/ SendUp \/ Receive \/ Lagged \/ SeeDisconnected

ConnStep(c) == ReportGone(c) \/ remove_conn(c)

Next ==
    \/ LoopStep
    \/ \E c \in Conns : ConnStep(c) \/ Accept(c) \/ ConnEnds(c)
    \/ \E c \in Conns, k \in Kinds : upstream(c, k)
    \/ handle_sfu_message \/ LinkDrops \/ WriteFails

Spec == Init /\ [][Next]_vars

\* tokio polls every task that is ready, and the server answers what it reads.
FairSpec ==
    /\ Spec
    /\ WF_vars(LoopStep)
    /\ \A c \in Conns : WF_vars(ConnStep(c))
    /\ WF_vars(handle_sfu_message)

-----------------------------------------------------------------------------

\* The FIFO pairing of downstream(): whatever children, disconnects and reconnects
\* interleave, a child is only given answers to its own requests, in every session
\* anew, until that session loses an event or receives an Error nobody has a slot for.
PairedUntilShifted == ~shifted => \A c \in Conns : got[c] \subseteq {c}

Underway(c) ==
    LET mine(s) == Cardinality({i \in DOMAIN s : s[i].conn = c /\ s[i].kind \in Tracked \cup {"answer"}})
    IN  mine(hi) + mine(sent) + mine(down)

\* No child waits for an answer that cannot come: while the session works, each
\* request a connected child waits for is still under way.  Requests lost with
\* the old session were disowned by the notice, those accepted at any point of
\* the disconnect and reconnect included; only a shifted session loses answers.
NoOrphanRequest ==
    phase = "serve" /\ link = "up" /\ ~shifted =>
        \A c \in Conns : conn[c] = "open" => owed[c] <= Underway(c)

-----------------------------------------------------------------------------
(* What comments say, which the code does not keep. *)

\* "Concurrent negotiation is correct": a child is only ever given answers to its
\* own requests.
NoCrossedWires == \A c \in Conns : got[c] \subseteq {c}

\* "remote drop -> clear the pending FIFO ... forwarding resumes after B1
\* reconnect": the loop leaves a session that has ended.
DropNoticed == phase = "serve" /\ link \in {"dropped", "silent"} ~> phase # "serve"

\* "DownstreamGone dropped (upstream down; the vehicle-wide reverse lookup will
\* backstop)": while the session works, producers of a child that is gone are
\* about to be closed.
GoneChildReaped ==
    phase = "serve" /\ link = "up" =>
        \A c \in prod : conn[c] = "gone" =>
            \/ \E i \in DOMAIN hi : hi[i] = DownstreamGone(c)
            \/ \E i \in DOMAIN sent : sent[i] = DownstreamGone(c)

=============================================================================
