----------------------------- MODULE ControlPath -----------------------------
(***************************************************************************)
(* The control plane between cockpits and a vehicle, over the data         *)
(* producers of the SFU.  A cockpit opens control: a send transport, a     *)
(* data channel and its data producer, which the server announces to the   *)
(* room; the vehicle's controller process consumes what is announced and   *)
(* executes the commands that arrive.  Its acknowledgements go the other   *)
(* way, through an "ack" producer that a background pump of the cockpit    *)
(* consumes.                                                               *)
(*                                                                         *)
(* Answers carry no request id.  The link hands every message to every     *)
(* subscriber of a session, so the cockpit's main flow and its pump both   *)
(* see each other's answers, and the controller sits behind the gateway,   *)
(* which keeps the vehicle's session across restarts of the controller     *)
(* (HostGateway models its FIFO; here it passes the answers of the         *)
(* controller on, and drops an Error of a request that took no slot).      *)
(***************************************************************************)
EXTENDS Naturals, Sequences, FiniteSets, SequencesExt

CONSTANTS Cockpits,
          Vehicle,      \* the vehicle's session: the agent behind the gateway
          None,
          Policies,     \* forms of CommandPolicy to start with
          Sigs,         \* forms of signature the cockpits send
          Seqs,         \* sequence numbers the callers choose
          MaxDps,       \* bound: data producers ever created
          MaxStops,     \* bound: emergency stops sent
          MaxEvents,    \* bound: consume calls, exits of the controller, drops
                        \* of a link, waits running out, requests or channels
                        \* failing, all together
          MaxTotal      \* bound: stops and events together

ASSUME ControlAssumption ==
  /\ Vehicle \notin Cockpits \cup (Cockpits \X {"main", "pump"})
  /\ Policies \subseteq {"unset", "strict", "lenient"}
  /\ Sigs \subseteq {"absent", "good", "bad"}
  /\ \A b \in {MaxDps, MaxStops, MaxEvents, MaxTotal} : b \in Nat

VARIABLES dps,     \* open data producers: id -> session that made it
          made,    \* data producers ever made
          sess,    \* session -> "off", "joined" or "served" (replay done)
          inbox,   \* session -> requests the server has not served
          ans,     \* session -> the answer its task is about to write
          chan,    \* session -> broadcasts its relay task has not written
          ev,      \* subscriber -> events not taken yet
          ctl,     \* the controller process
          main,    \* cockpit -> open_control and consume
          pump,    \* cockpit -> ack_consumer_pump
          policy,  \* CommandPolicy
          cmds,    \* commands on the way to the controller
          acted,   \* history: commands executed
          sent,    \* history: commands sent
          acks,    \* cockpit -> acknowledgements that arrived
          got,     \* cockpit -> the acknowledgement its caller took
          uses,    \* how often each bounded thing has happened
          missed,  \* history: producers whose announcement was lost
          dropped, \* history: producers whose consumption was lost
          muddled  \* history: cockpits with two flows or a late answer

wires == <<inbox, ans, chan, ev>>
stops == <<policy, cmds, acted, sent, acks, got>>
controlvars == <<dps, made, sess, wires, ctl, main, pump, stops, uses, missed, dropped,
          muddled>>

Ends == Cockpits \cup {Vehicle}
Subscribers == {Vehicle} \cup (Cockpits \X {"main", "pump"})
SubsOf(k) == IF k = Vehicle THEN {Vehicle} ELSE {k} \X {"main", "pump"}
Bounds == [stops |-> MaxStops, events |-> MaxEvents]
Used(b) ==
  /\ uses[b] < Bounds[b] /\ uses.stops + uses.events < MaxTotal
  /\ uses' = [uses EXCEPT ![b] = @ + 1]

Off == [pc |-> "off", gen |-> 0, own |-> None, pending |-> <<>>,
        consumed |-> {}, routes |-> {}]
NoMain == [pc |-> "off", taken |-> FALSE, dp |-> None, send |-> None,
           recv |-> None]
NoPump == [pc |-> "off", seed |-> <<>>, tr |-> None, cur |-> None, dcs |-> {}]

ControlInit ==
  /\ dps = << >> /\ made = 0
  /\ sess = [k \in Ends |-> IF k = Vehicle THEN "served" ELSE "off"]
  /\ inbox = [k \in Ends |-> <<>>]
  /\ ans = [k \in Ends |-> <<>>]
  /\ chan = [k \in Ends |-> <<>>]
  /\ ev = [r \in Subscribers |-> <<>>]
  /\ ctl = Off
  /\ main = [c \in Cockpits |-> NoMain]
  /\ pump = [c \in Cockpits |-> NoPump]
  /\ policy \in Policies
  /\ cmds = <<>> /\ acted = {} /\ sent = {}
  /\ acks = [c \in Cockpits |-> <<>>]
  /\ got = [c \in Cockpits |-> None]
  /\ uses = [b \in DOMAIN Bounds |-> 0]
  /\ missed = {} /\ dropped = {} /\ muddled = {}

Open == DOMAIN dps
OpenOf(k) == {d \in Open : dps[d] = k}
FromCockpits == {d \in Open : dps[d] \in Cockpits}
Items(s) == ToSet(s)
\* The lists of a set's members: the server iterates over hash maps.
Orders(S) == {s \in [1 .. Cardinality(S) -> S] : S \subseteq Items(s)}

(***************************************************************************)
(* The server                                                              *)
(***************************************************************************)
\* An announcement carries the label: "ack" for what the vehicle makes.
NewDP(d, k) == [t |-> "new", dp |-> d, label |-> IF k = Vehicle THEN "ack" ELSE "cmd"]
Closed(d) == [t |-> "closed", dp |-> d]
ErrorTo(f) == [t |-> "error", for |-> f]

\* Who is subscribed: the controller once it runs, a cockpit once its
\* constructor has asked for the two streams.
Listening(r) == IF r = Vehicle THEN ctl.pc # "off"
                ELSE main[r[1]].pc \notin {"off", "joined", "gone"}
\* What every wait of r passes over is not kept in its stream.
Heeds(r, m) ==
  \/ r = Vehicle /\ (ctl.pc = "run" => m.t \in {"new", "closed", "consumed"})
  \/ r # Vehicle /\ r[2] = "main" /\ m.t \in {"transport", "dp", "media", "error"}
  \/ /\ r # Vehicle /\ r[2] = "pump"
     /\ \/ m.t \in {"closed", "transport", "consumed", "error"}
        \/ m.t = "new" /\ m.label = "ack"
\* What is written to k's socket reaches all subscribers there are.
Deliver(e, k, m) ==
  [r \in Subscribers |->
     IF r \in SubsOf(k) /\ Listening(r) /\ Heeds(r, m) THEN Append(e[r], m) ELSE e[r]]
Broadcast(ch, ms) ==
  [k \in Ends |-> IF sess[k] # "off" THEN ch[k] \o ms ELSE ch[k]]

\* Through the gateway, an answer with a FIFO slot goes to the controller
\* that asked, one without to whichever is there, and its Error to nobody.
Tracked(m) == m.t = "transport"
PassesGateway(m) ==
  IF m.t = "error" THEN m.tracked /\ m.for = ctl.gen
                   ELSE Tracked(m) => m.for = ctl.gen

\* One request of k is served: its effect, its announcement, its answer.
\* The answer to what the room hears of can be overtaken by a broadcast;
\* the others are written at once.  ConnectWebRtcTransport is left out: its
\* confirmation is passed over by every wait.
Answered(k, m) == ans' = [ans EXCEPT ![k] = <<m>>] /\ UNCHANGED ev
Written(k, m) ==
  /\ ev' = IF k = Vehicle /\ ~PassesGateway(m) THEN ev ELSE Deliver(ev, k, m)
  /\ UNCHANGED ans

create_data_producer(k, m) ==
  /\ m.t = "produce" /\ made < MaxDps
  /\ LET d == made + 1
     IN  /\ made' = d
         /\ dps' = [x \in Open \cup {d} |-> IF x = d THEN k ELSE dps[x]]
         /\ chan' = Broadcast(chan, <<NewDP(d, k)>>)
         /\ Answered(k, [t |-> "dp", dp |-> d, for |-> m.for])
  /\ UNCHANGED uses

create_data_consumer(k, m) ==
  /\ m.t = "consume" /\ m.dp \in Open
  /\ Answered(k, [t |-> "consumed", dp |-> m.dp, for |-> m.for])
  /\ UNCHANGED <<dps, made, chan, uses>>

\* Transports and video: an answer of the same kind.
Plain(k, m) ==
  /\ m.t \in {"transport", "media"}
  /\ Written(k, m)
  /\ UNCHANGED <<dps, made, chan, uses>>

Refused(k, m) ==
  /\ \/ m.t = "consume" /\ m.dp \notin Open /\ UNCHANGED uses
     \/ Used("events")
  /\ Written(k, [t |-> "error", for |-> m.for, tracked |-> Tracked(m)])
  /\ UNCHANGED <<dps, made, chan>>

Serve(k) ==
  /\ sess[k] = "served" /\ inbox[k] # <<>> /\ ans[k] = <<>>
  /\ inbox' = [inbox EXCEPT ![k] = Tail(@)]
  /\ LET m == Head(inbox[k]) IN
       /\ \/ create_data_producer(k, m) \/ create_data_consumer(k, m)
          \/ Plain(k, m) \/ Refused(k, m)
       /\ dropped' = IF k = Vehicle /\ m.t = "consume" /\ ans' = ans
                  THEN dropped \cup {m.dp} ELSE dropped
  /\ UNCHANGED <<sess, ctl, main, pump, stops, missed, muddled>>

\* The session's task writes the answer; its relay task the broadcasts.
Reply(k) ==
  /\ ans[k] # <<>>
  /\ ev' = IF k = Vehicle /\ ~PassesGateway(ans[k][1]) THEN ev
           ELSE Deliver(ev, k, ans[k][1])
  /\ ans' = [ans EXCEPT ![k] = <<>>]
  /\ UNCHANGED <<dps, made, sess, inbox, chan, ctl, main, pump, stops, uses,
                 missed, dropped, muddled>>

Relay(k) ==
  /\ chan[k] # <<>>
  /\ ev' = Deliver(ev, k, Head(chan[k]))
  /\ chan' = [chan EXCEPT ![k] = Tail(@)]
  /\ UNCHANGED <<dps, made, sess, inbox, ans, ctl, main, pump, stops, uses,
                 missed, dropped, muddled>>

\* Late-joiner sync: the open producers, written by the session's task.  The
\* controller heeds all of them, a pump the vehicle's, a main flow none.
Replay(k) ==
  /\ sess[k] = "joined"
  /\ sess' = [sess EXCEPT ![k] = "served"]
  /\ \E ds \in Orders(IF k = Vehicle THEN Open ELSE OpenOf(Vehicle)) :
       ev' = [r \in Subscribers |->
                IF r \in SubsOf(k) /\ (r = Vehicle \/ r[2] = "pump") /\ Listening(r)
                THEN ev[r] \o [i \in DOMAIN ds |-> NewDP(ds[i], dps[ds[i]])] ELSE ev[r]]
  /\ UNCHANGED <<dps, made, inbox, ans, chan, ctl, main, pump, stops, uses,
                 missed, dropped, muddled>>

\* disconnect_session: k's producers go, and the room is told.
Reclaim(k) ==
  /\ sess[k] = "off" /\ OpenOf(k) # {}
  /\ dps' = [d \in Open \ OpenOf(k) |-> dps[d]]
  /\ \E ds \in Orders(OpenOf(k)) :
       chan' = Broadcast(chan, [i \in DOMAIN ds |-> Closed(ds[i])])
  /\ UNCHANGED <<made, sess, inbox, ans, ev, ctl, main, pump, stops, uses,
                 missed, dropped, muddled>>

(***************************************************************************)
(* The controller: control_loop                                            *)
(***************************************************************************)
Asks(k, ms) == inbox' = [inbox EXCEPT ![k] = @ \o ms]
Transport(f) == [t |-> "transport", for |-> f]
Produce(f) == [t |-> "produce", for |-> f]
ConsumeData(d, f) == [t |-> "consume", dp |-> d, for |-> f]

\* While the upstream is down the gateway answers every request itself with
\* a 5001: the setup ends with it, the main loop only logs it.
Sends(ms) == IF sess[Vehicle] # "off" THEN Asks(Vehicle, ms) ELSE UNCHANGED inbox
Exit == ctl' = [Off EXCEPT !.gen = ctl.gen]

\* The process is up, its RoomJoin was answered by the gateway (which does
\* not replay the room's producers) and the event stream is subscribed.
CtlStart ==
  /\ ctl.pc = "off" /\ sess[Vehicle] # "off"
  /\ ctl' = [Off EXCEPT !.pc = "send", !.gen = ctl.gen + 1]
  /\ ev' = [ev EXCEPT ![Vehicle] = <<>>]
  /\ missed' = FromCockpits
  /\ dropped' = {}
  /\ Asks(Vehicle, <<Transport(ctl'.gen)>>)
  /\ UNCHANGED <<dps, made, sess, ans, chan, main, pump, stops, uses, muddled>>

Event(r, t) == ev[r] # <<>> /\ Head(ev[r]).t = t
Take(r) == ev' = [ev EXCEPT ![r] = Tail(@)]
CtlOnly == UNCHANGED <<dps, made, sess, ans, chan, main, pump, stops, uses,
                       muddled>>

\* setup_send_side: the transport, then the "ack" producer on it (the other
\* labels are announced and skipped in the same way).
SetupSend ==
  /\ ctl.pc = "send" /\ Event(Vehicle, "transport")
  /\ Take(Vehicle)
  /\ IF sess[Vehicle] = "off" THEN Exit ELSE ctl' = [ctl EXCEPT !.pc = "ack"]
  /\ Sends(<<Produce(ctl.gen)>>)
  /\ UNCHANGED <<missed, dropped>> /\ CtlOnly

SetupAck ==
  /\ ctl.pc = "ack" /\ Event(Vehicle, "dp")
  /\ Take(Vehicle)
  /\ IF sess[Vehicle] = "off" THEN Exit
     ELSE ctl' = [ctl EXCEPT !.pc = "recv", !.own = Head(ev[Vehicle]).dp]
  /\ Sends(<<Transport(ctl.gen)>>)
  /\ UNCHANGED <<missed, dropped>> /\ CtlOnly

\* Mutant: what was announced during the setup is forgotten.
CachedNone(p) == {}

\* The announcements of the setup that are not the controller's own.
Cached(p) == Items(p) \ {ctl.own}

\* setup_recv_side, and the consumption of what was announced meanwhile.
SetupRecv ==
  /\ ctl.pc = "recv" /\ Event(Vehicle, "transport")
  /\ Take(Vehicle)
  /\ LET ds == Cached(ctl.pending)
     IN  /\ ctl' = [ctl EXCEPT !.pc = "run", !.pending = <<>>,
                               !.consumed = ds \cup {ctl.own}]
         /\ \E seq \in Orders(ds) :
              Sends([i \in DOMAIN seq |-> ConsumeData(seq[i], ctl.gen)])
         /\ dropped' = IF sess[Vehicle] = "off" THEN dropped \cup ds ELSE dropped
  /\ UNCHANGED missed /\ CtlOnly

\* await_*: an announcement is kept, an Error ends the process, anything
\* else is passed over (a ProducerClosed too).
SetupOther ==
  /\ ctl.pc \in {"send", "ack", "recv"} /\ ev[Vehicle] # <<>>
  /\ LET m == Head(ev[Vehicle]) IN
     \/ /\ m.t = "new"
        /\ ctl' = [ctl EXCEPT !.pending = Append(@, m.dp)]
        /\ missed' = missed \ {m.dp}
     \/ m.t = "error" /\ Exit /\ UNCHANGED missed
     \/ /\ m.t \notin {"new", "error", IF ctl.pc = "ack" THEN "dp"
                                        ELSE "transport"}
        /\ UNCHANGED <<ctl, missed>>
  /\ Take(Vehicle)
  /\ UNCHANGED <<inbox, dropped>> /\ CtlOnly

\* NewDataProducer: consumed once.
OnNewDataProducer ==
  /\ ctl.pc = "run" /\ Event(Vehicle, "new")
  /\ Take(Vehicle)
  /\ LET d == Head(ev[Vehicle]).dp IN
     /\ missed' = missed \ {d}
     /\ \/ /\ d \notin ctl.consumed
           /\ ctl' = [ctl EXCEPT !.consumed = @ \cup {d}]
           /\ Sends(<<ConsumeData(d, ctl.gen)>>)
           /\ dropped' = IF sess[Vehicle] = "off" THEN dropped \cup {d} ELSE dropped
        \/ d \in ctl.consumed /\ UNCHANGED <<ctl, inbox, dropped>>
  /\ CtlOnly

\* DataConsumed: the negotiated channel and its routing task; if the
\* channel cannot be made the producer stays in `consumed'.
OnDataConsumed ==
  /\ ctl.pc = "run" /\ Event(Vehicle, "consumed")
  /\ Take(Vehicle)
  /\ LET d == Head(ev[Vehicle]).dp IN
     \/ /\ ctl' = [ctl EXCEPT !.routes = @ \cup {d}]
        /\ UNCHANGED <<dropped, uses>>
     \/ /\ Used("events")
        /\ dropped' = dropped \cup {d}
        /\ UNCHANGED ctl
  /\ UNCHANGED <<dps, made, sess, inbox, ans, chan, main, pump, stops, missed,
                 muddled>>

\* ProducerClosed: the channel goes, and the id may be consumed again; an
\* id without a channel is left alone.
TornDown(d) == [ctl EXCEPT !.routes = @ \ {d}, !.consumed = @ \ {d}]

OnProducerClosed ==
  /\ ctl.pc = "run" /\ Event(Vehicle, "closed")
  /\ Take(Vehicle)
  /\ LET d == Head(ev[Vehicle]).dp
     IN  ctl' = IF d \in ctl.routes THEN TornDown(d) ELSE ctl
  /\ UNCHANGED <<inbox, missed, dropped>> /\ CtlOnly

\* Errors (the gateway's recovery notice is one) are logged.
OnOther ==
  /\ ctl.pc = "run" /\ ev[Vehicle] # <<>>
  /\ Head(ev[Vehicle]).t \in {"error", "dp", "transport"}
  /\ Take(Vehicle)
  /\ UNCHANGED <<ctl, inbox, missed, dropped>> /\ CtlOnly

\* Signaling lost, ICE failed, the stream lagged, a signal, a crash.
CtlExit ==
  /\ ctl.pc # "off" /\ Used("events")
  /\ Exit
  /\ cmds' = <<>>
  /\ UNCHANGED <<dps, made, sess, wires, main, pump, policy, acted, sent, acks,
                 got, missed, dropped, muddled>>

(***************************************************************************)
(* The vehicle's upstream, kept by the gateway                             *)
(***************************************************************************)

\* What was on the way in either direction is gone.
UpDrop ==
  /\ sess[Vehicle] # "off" /\ Used("events")
  /\ sess' = [sess EXCEPT ![Vehicle] = "off"]
  /\ inbox' = [inbox EXCEPT ![Vehicle] = <<>>]
  /\ ans' = [ans EXCEPT ![Vehicle] = <<>>]
  /\ chan' = [chan EXCEPT ![Vehicle] = <<>>]
  /\ dropped' = dropped \cup {d \in ctl.consumed \ ctl.routes :
                          \E m \in Items(inbox[Vehicle]) \cup Items(ans[Vehicle]) :
                            m.t \in {"consume", "consumed"} /\ m.dp = d}
  /\ missed' = missed \cup {d \in FromCockpits :
                              NewDP(d, dps[d]) \in Items(chan[Vehicle])}
  /\ UNCHANGED <<dps, made, ev, ctl, main, pump, stops, muddled>>

\* Re-attached or joined anew; the children get a 5001.
UpJoin ==
  /\ sess[Vehicle] = "off"
  /\ sess' = [sess EXCEPT ![Vehicle] = "joined"]
  /\ ev' = Deliver(ev, Vehicle, [t |-> "error", for |-> ctl.gen])
  /\ UNCHANGED <<dps, made, inbox, ans, chan, ctl, main, pump, stops, uses,
                 missed, dropped, muddled>>

(***************************************************************************)
(* The cockpit: join, open_control, consume                                *)
(***************************************************************************)
MainOf(c) == <<c, "main">>
PumpOf(c) == <<c, "pump">>
Cockpit == UNCHANGED <<dps, made, ans, chan, ctl, stops, missed, dropped>>

Join(c) ==
  /\ main[c].pc = "off"
  /\ sess' = [sess EXCEPT ![c] = "joined"]
  /\ main' = [main EXCEPT ![c].pc = "joined"]
  /\ UNCHANGED <<inbox, ev, pump, uses, muddled>> /\ Cockpit

\* connect has returned; what the session task read before is gone.
Subscribe(c) ==
  /\ main[c].pc = "joined"
  /\ main' = [main EXCEPT ![c].pc = "idle"]
  /\ UNCHANGED <<sess, inbox, ev, pump, uses, muddled>> /\ Cockpit

\* The answer to another flow's request can still reach subscriber r.
Stray(c, r, flows) ==
  \E m \in Items(inbox[c]) \cup Items(ev[r]) : m.t = "transport" /\ m.for \in flows
Muddle(c, b) == muddled' = IF b THEN muddled \cup {c} ELSE muddled

\* The second stream is taken before anything is asked for.
open_control(c) ==
  /\ main[c].pc = "idle" /\ ~main[c].taken
  /\ main' = [main EXCEPT ![c].pc = "send", ![c].taken = TRUE]
  /\ Asks(c, <<Transport("open")>>)
  /\ Muddle(c, Stray(c, MainOf(c), {"open", "video", "pump"}))
  /\ UNCHANGED <<sess, ev, pump, uses>> /\ Cockpit

\* wait_video_producer has read on to an announcement, past what other
\* flows left in the stream; then the producer is consumed.
consume(c) ==
  /\ main[c].pc = "idle" /\ Used("events")
  /\ main' = [main EXCEPT ![c].pc = "recv"]
  /\ \E n \in 1 .. Len(ev[MainOf(c)]) + 1 :
       ev' = [ev EXCEPT ![MainOf(c)] = SubSeq(@, n, Len(@))]
  /\ Asks(c, <<Transport("video")>>)
  /\ Muddle(c, \E m \in Items(inbox[c]) \cup Items(ev'[MainOf(c)]) :
                 m.t = "transport")
  /\ UNCHANGED <<sess, pump>> /\ Cockpit

Wanted == [send |-> "transport", dp |-> "dp", recv |-> "transport",
           media |-> "media"]
FlowOf(pc) == IF pc \in {"send", "dp"} THEN "open" ELSE "video"

\* An await of the main flow finds its answer.
MainAnswer(c) ==
  LET w == main[c].pc
      m == Head(ev[MainOf(c)])
  IN  /\ w \in DOMAIN Wanted /\ Event(MainOf(c), Wanted[w])
      /\ Take(MainOf(c))
      /\ main' = [main EXCEPT ![c] =
           CASE w = "send"  -> [@ EXCEPT !.pc = "dp", !.send = m.for]
             [] w = "dp"    -> [@ EXCEPT !.pc = "idle", !.dp = m.dp]
             [] w = "recv"  -> [@ EXCEPT !.pc = "media", !.recv = m.for]
             [] w = "media" -> [@ EXCEPT !.pc = "idle"]]
      /\ Asks(c, CASE w = "send"  -> <<Produce("open")>>
                   [] w = "recv"  -> <<[t |-> "media", for |-> "video"]>>
                   [] OTHER       -> <<>>)
      /\ pump' = IF w = "dp" THEN [pump EXCEPT ![c].pc = "drain"] ELSE pump
      /\ UNCHANGED <<sess, uses, muddled>> /\ Cockpit

\* ... another message: an Error ends the flow, whoever's it is.
MainOther(c) ==
  LET w == main[c].pc
      m == Head(ev[MainOf(c)])
  IN  /\ w \in DOMAIN Wanted /\ ev[MainOf(c)] # <<>> /\ m.t # Wanted[w]
      /\ Take(MainOf(c))
      /\ main' = IF m.t = "error" THEN [main EXCEPT ![c].pc = "idle"] ELSE main
      /\ Muddle(c, m.t = "error" /\ m.for # FlowOf(w))
      /\ UNCHANGED <<sess, inbox, pump, uses>> /\ Cockpit

\* The router's capabilities, asked for next, are awaited in one read: any
\* other message there ends the consumption before the video is asked for.
RouterCaps(c) ==
  /\ main[c].pc = "recv" /\ Event(MainOf(c), "transport")
  /\ Take(MainOf(c))
  /\ main' = [main EXCEPT ![c].pc = "idle", ![c].recv = Head(ev[MainOf(c)]).for]
  /\ UNCHANGED <<sess, inbox, pump, uses, muddled>> /\ Cockpit

\* RESPONSE_WAIT: the answer may still come.
MainTimeout(c) ==
  /\ main[c].pc \in DOMAIN Wanted /\ Used("events")
  /\ main' = [main EXCEPT ![c].pc = "idle"]
  /\ Muddle(c, TRUE)
  /\ UNCHANGED <<sess, inbox, ev, pump>> /\ Cockpit

\* The socket is lost: both streams end, the pump and its channels with
\* them.  (The reconnect is ClientSupervisor's; it opens no control.)
LinkDrop(c) ==
  /\ sess[c] # "off" /\ Used("events")
  /\ sess' = [sess EXCEPT ![c] = "off"]
  /\ inbox' = [inbox EXCEPT ![c] = <<>>]
  /\ ans' = [ans EXCEPT ![c] = <<>>]
  /\ chan' = [chan EXCEPT ![c] = <<>>]
  /\ ev' = [ev EXCEPT ![MainOf(c)] = <<>>, ![PumpOf(c)] = <<>>]
  /\ main' = [main EXCEPT ![c].pc = "gone"]
  /\ pump' = [pump EXCEPT ![c] = [NoPump EXCEPT !.pc = "dead"]]
  /\ UNCHANGED <<dps, made, ctl, stops, missed, dropped, muddled>>

(***************************************************************************)
(* ack_consumer_pump                                                       *)
(***************************************************************************)
AckNews(s) == SelectSeq(s, LAMBDA m : m.t = "new" /\ m.label = "ack")

\* Mutant: the announcements are collected and the backlog stays.
DrainedNot(s) == s

\* The answers of open_control are in the stream too: only announcements
\* are kept.
Drained(s) == <<>>

DrainBacklog(c) ==
  /\ pump[c].pc = "drain"
  /\ LET news == AckNews(ev[PumpOf(c)])
     IN  pump' = [pump EXCEPT ![c].pc = "wait",
                              ![c].seed = [i \in DOMAIN news |-> news[i].dp]]
  /\ ev' = [ev EXCEPT ![PumpOf(c)] = Drained(@)]
  /\ UNCHANGED <<sess, inbox, main, uses, muddled>> /\ Cockpit

\* One round for producer d: the transport (once), then the consumption.
Round(c, d, rest) ==
  /\ pump' = [pump EXCEPT ![c].cur = d, ![c].seed = rest,
                          ![c].pc = IF pump[c].tr = None THEN "tr" ELSE "data"]
  /\ IF pump[c].tr = None
     THEN /\ Asks(c, <<Transport("pump")>>)
          /\ Muddle(c, Stray(c, PumpOf(c), {"video", "pump"}))
     ELSE /\ Asks(c, <<ConsumeData(d, "pump")>>)
          /\ UNCHANGED muddled

PumpSeed(c) ==
  /\ pump[c].pc = "wait" /\ pump[c].seed # <<>>
  /\ Round(c, Last(pump[c].seed), Front(pump[c].seed))
  /\ UNCHANGED <<sess, ev, main, uses>> /\ Cockpit

\* await_ack_producer
PumpWait(c) ==
  /\ pump[c].pc = "wait" /\ pump[c].seed = <<>> /\ ev[PumpOf(c)] # <<>>
  /\ Take(PumpOf(c))
  /\ LET m == Head(ev[PumpOf(c)]) IN
     \/ /\ AckNews(<<m>>) # <<>>
        /\ Round(c, m.dp, <<>>)
     \/ /\ AckNews(<<m>>) = <<>>
        /\ pump' = IF m.t = "closed"
                   THEN [pump EXCEPT ![c].dcs = {x \in @ : x[1] # m.dp}]
                   ELSE pump
        /\ UNCHANGED <<inbox, muddled>>
  /\ UNCHANGED <<sess, main, uses>> /\ Cockpit

PumpTransport(c) ==
  /\ pump[c].pc = "tr" /\ Event(PumpOf(c), "transport")
  /\ Take(PumpOf(c))
  /\ pump' = [pump EXCEPT ![c].pc = "data", ![c].tr = Head(ev[PumpOf(c)]).for]
  /\ Asks(c, <<ConsumeData(pump[c].cur, "pump")>>)
  /\ UNCHANGED <<sess, main, uses, muddled>> /\ Cockpit

\* The channel of the answer is kept under the id that was asked for; a
\* channel under the same id closes when its entry is replaced.
PumpConsumed(c) ==
  /\ pump[c].pc = "data" /\ Event(PumpOf(c), "consumed")
  /\ Take(PumpOf(c))
  /\ \/ /\ pump' = [pump EXCEPT ![c].pc = "wait",
             ![c].dcs = {x \in @ : x[1] # pump[c].cur}
                          \cup {<<pump[c].cur, Head(ev[PumpOf(c)]).dp>>}]
        /\ UNCHANGED uses
     \/ Used("events") /\ pump' = [pump EXCEPT ![c].pc = "wait"]
  /\ UNCHANGED <<sess, inbox, main, muddled>> /\ Cockpit

\* Anything else is passed over, announcements and closings too; an Error
\* ends the round.
PumpOther(c) ==
  LET m == Head(ev[PumpOf(c)])
  IN  /\ pump[c].pc \in {"tr", "data"} /\ ev[PumpOf(c)] # <<>>
      /\ m.t # IF pump[c].pc = "tr" THEN "transport" ELSE "consumed"
      /\ Take(PumpOf(c))
      /\ pump' = IF m.t = "error" THEN [pump EXCEPT ![c].pc = "wait"] ELSE pump
      /\ Muddle(c, m.t = "error" /\ m.for # "pump")
      /\ UNCHANGED <<sess, inbox, main, uses>> /\ Cockpit

PumpTimeout(c) ==
  /\ pump[c].pc \in {"tr", "data"} /\ Used("events")
  /\ pump' = [pump EXCEPT ![c].pc = "wait"]
  /\ Muddle(c, TRUE)
  /\ UNCHANGED <<sess, inbox, ev, main>> /\ Cockpit

(***************************************************************************)
(* Commands and acknowledgements                                           *)
(***************************************************************************)
Plane == UNCHANGED <<dps, made, sess, wires, ctl, main, pump, missed, dropped,
                     muddled>>

\* estop_verdict
estop_verdict(sig) ==
  policy = "unset" \/ sig = "good" \/ (sig # "bad" /\ policy = "lenient")

\* emergency_stop: signed if the session has a key.  The command goes out
\* on the data channel; without a channel at the other end the SFU forwards
\* it to nobody.
emergency_stop(c, n, sig) ==
  LET cmd == [from |-> c, seq |-> n, sig |-> sig]
  IN  /\ main[c].dp # None /\ Used("stops")
      /\ \A x \in sent : x.from = c => x.sig = sig
      /\ sent' = sent \cup {cmd}
      /\ cmds' = IF main[c].dp \in ctl.routes
                 THEN Append(cmds, [cmd |-> cmd, dp |-> main[c].dp]) ELSE cmds
      /\ got' = [got EXCEPT ![c] = [want |-> n, ack |-> None]]
      /\ UNCHANGED <<policy, acted, acks>> /\ Plane

\* handle_command, by the routing task of the channel: verdict, execution,
\* audit and the acknowledgement to every cockpit that consumes it.
handle_command ==
  /\ cmds # <<>>
  /\ LET cmd == Head(cmds).cmd
         ok == estop_verdict(cmd.sig)
         ack == [seq |-> cmd.seq, ok |-> ok, of |-> cmd]
     IN  IF Head(cmds).dp \notin ctl.routes THEN UNCHANGED <<acted, acks>>
         ELSE /\ acted' = IF ok THEN acted \cup {cmd} ELSE acted
              /\ acks' = [c \in Cockpits |->
                   IF ctl.own \in Open /\ \E x \in pump[c].dcs : x[2] = ctl.own
                   THEN Append(acks[c], ack) ELSE acks[c]]
  /\ cmds' = Tail(cmds)
  /\ UNCHANGED <<policy, sent, got, uses>> /\ Plane

\* Mutant: the next acknowledgement is taken for the one awaited.
PairsAny(ack, want) == TRUE

\* recv_ack_for: acknowledgements with another number are skipped.
Pairs(ack, want) == ack.seq = want

recv_ack_for(c) ==
  /\ acks[c] # <<>> /\ got[c] # None /\ got[c].ack = None
  /\ acks' = [acks EXCEPT ![c] = Tail(@)]
  /\ got' = IF Pairs(Head(acks[c]), got[c].want)
            THEN [got EXCEPT ![c].ack = Head(acks[c])] ELSE got
  /\ UNCHANGED <<policy, cmds, acted, sent, uses>> /\ Plane

(***************************************************************************)
(* The whole                                                               *)
(***************************************************************************)
Controller ==
  \/ CtlStart \/ SetupSend \/ SetupAck \/ SetupRecv \/ SetupOther
  \/ OnNewDataProducer \/ OnDataConsumed \/ OnProducerClosed \/ OnOther
  \/ CtlExit \/ handle_command

Client(c) ==
  \/ Join(c) \/ Subscribe(c) \/ open_control(c) \/ consume(c)
  \/ MainAnswer(c) \/ MainOther(c) \/ RouterCaps(c) \/ MainTimeout(c)
  \/ LinkDrop(c)
  \/ DrainBacklog(c) \/ PumpSeed(c) \/ PumpWait(c) \/ PumpTransport(c)
  \/ PumpConsumed(c) \/ PumpOther(c) \/ PumpTimeout(c)
  \/ \E n \in Seqs, s \in Sigs : emergency_stop(c, n, s)
  \/ recv_ack_for(c)

Server(k) == Serve(k) \/ Reply(k) \/ Relay(k) \/ Replay(k) \/ Reclaim(k)

ControlNext ==
  \/ Controller \/ UpDrop \/ UpJoin
  \/ \E c \in Cockpits : Client(c)
  \/ \E k \in Ends : Server(k)

ControlSpec == ControlInit /\ [][ControlNext]_controlvars

(***************************************************************************)
(* Properties                                                              *)
(***************************************************************************)

\* Producer d's announcement, request or answer is still on its way.
UnderWay(d) ==
  \/ \E m \in Items(chan[Vehicle]) \cup Items(ev[Vehicle]) :
       m.t = "new" /\ m.dp = d
  \/ d \in Items(ctl.pending)
  \/ \E m \in Items(inbox[Vehicle]) \cup Items(ans[Vehicle]) \cup Items(ev[Vehicle]) :
       m.t \in {"consume", "consumed"} /\ m.dp = d

(* While the vehicle is connected and its controller runs, every open      *)
(* producer of a cockpit is routed or on its way to be: nothing announced  *)
(* during the setup, across a re-attach or beside another producer is      *)
(* forgotten.  The exceptions are the holes the code leaves: a producer    *)
(* announced before this controller subscribed (the gateway replays        *)
(* nothing to a child) and one whose consumption was lost with the         *)
(* upstream or failed (the ledger keeps the id and asks no more).          *)
OpenProducerServed ==
  (ctl.pc # "off" /\ sess[Vehicle] = "served") =>
    \A d \in FromCockpits \ (missed \cup dropped) : d \in ctl.routes \/ UnderWay(d)

(* No flow of a cockpit takes another's answer: the transport each of them *)
(* connects was made for it, and an acknowledgement channel is kept under  *)
(* the producer it belongs to.  The exceptions are two flows of a session  *)
(* asking at once, an answer that comes after its wait was over, and an    *)
(* Error that ended a flow it was not meant for.                           *)
NoCrossedAnswer ==
  \A c \in Cockpits \ muddled :
    /\ main[c].send \in {None, "open"}
    /\ main[c].recv \in {None, "video"}
    /\ pump[c].tr \in {None, "pump"}
    /\ \A x \in pump[c].dcs : x[1] = x[2]

(* The acknowledgement a caller takes for its stop answers a command of    *)
(* its own with that number, and says executed exactly if the vehicle      *)
(* executed it, whatever stale acknowledgements of earlier stops, resent   *)
(* ones included, are still in the stream.  The exception: another cockpit *)
(* used the same number (acknowledgements go to every cockpit and carry    *)
(* nothing but the number).                                                *)
AckIsMine ==
  \A c \in Cockpits :
    (got[c] # None /\ got[c].ack # None
       /\ \A x \in sent : x.seq = got[c].want => x.from = c)
      => /\ got[c].ack.of.from = c
         /\ got[c].ack.of.seq = got[c].want
         /\ got[c].ack.ok <=> got[c].ack.of \in acted
=============================================================================
