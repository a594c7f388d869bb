-------------------------- MODULE HostGatewayProofs --------------------------
(***************************************************************************)
(* Proofs about HostGateway for any number of children, requests and       *)
(* sessions and any capacity of the event channel.                         *)
(*                                                                         *)
(* Argument for the pairing.  Read the wire from the oldest answer not yet *)
(* handed out to the youngest request not yet sent: while the link is up,  *)
(* the messages on it that have a slot and the slots of the FIFO are in    *)
(* one and the same order.  A request appends to both, an answer that is   *)
(* handed out takes the first of both, and what happens in between moves   *)
(* messages along the wire or takes one without a slot off it.  A link     *)
(* that is lost cuts the wire; what is left of the answers still leads the *)
(* FIFO, until both are emptied.                                           *)
(***************************************************************************)
EXTENDS HostGateway, FiniteSetTheorems, TLAPS

USE DEF connVars, loopVars, linkVars, history

\* A message whose answer has a slot, or that answer.
Waits(m) == m.kind \in Tracked \cup {"answer"}

\* Slot i of p stands for message f[i] of w: in order, every message that has a
\* slot, and for its own sender.  The slots of a wire that is cut may be for
\* messages that were lost.
Matches(f, p, w, whole) ==
    /\ \A i, j \in DOMAIN p : i < j => f[i] < f[j]
    /\ \A j \in DOMAIN w : Waits(w[j]) => \E i \in DOMAIN p : f[i] = j
    /\ \A i \in DOMAIN p : f[i] \in DOMAIN w => Waits(w[f[i]]) /\ w[f[i]].conn = p[i]
    /\ whole => \A i \in DOMAIN p : f[i] \in DOMAIN w
Follows(p, w, whole) == \E f \in [DOMAIN p -> Nat \ {0}] : Matches(f, p, w, whole)

\* From the oldest answer to the youngest request.
Wire == down \o sent \o hi

Paired ==
    ~shifted => /\ link = "up" => Follows(pending, Wire, TRUE)
                /\ link # "up" => Follows(pending, down, FALSE)

\* What a phase of remote_loop has done and not done yet.
LoopInv ==
    /\ phase \in {"connecting", "joining", "drain"} => ~joined /\ pending = <<>>
    /\ phase \in {"notify", "serve", "ended"} => joined
    /\ phase \in {"connecting", "joining"} => \A i \in DOMAIN hi : hi[i].kind = "gone"
    /\ phase \in {"connecting", "joining", "notify", "drain"} => sent = <<>> /\ down = <<>>
    /\ phase \in {"connecting", "drain"} => link = "none"
    /\ phase \in {"joining", "notify", "serve"} => link # "none"

\* The slots of c in p.  What a child waits for has one, from the notice on.
Slots(p, c) == {i \in DOMAIN p : p[i] = c}
OwedInv ==
    /\ \A c \in Conns : owed[c] <= nreq[c] /\ (conn[c] = "off" => owed[c] = 0)
    /\ (~again /\ phase \in {"connecting", "joining"}) => \A c \in Conns : owed[c] = 0
    /\ phase \in {"serve", "ended"} =>
         \A c \in Conns : conn[c] = "open" => owed[c] <= Cardinality(Slots(pending, c))

GatewayInv == TypeOK /\ LoopInv /\ Paired /\ PairedUntilShifted /\ OwedInv

-----------------------------------------------------------------------------
(* Sequences of messages and slots. *)

Wired == Msg \cup Event

\* v is w without its message k; v is all of w behind its first message; v
\* has, place by place, a message of the same sender that has a slot or not.
Without(v, w, k) == Len(w) = Len(v) + 1 /\ \A j \in DOMAIN v : v[j] = IF j < k THEN w[j] ELSE w[j + 1]
Behind(v, w)     == w # <<>> /\ Len(w) = Len(v) + 1 /\ \A j \in DOMAIN v : v[j] = w[j + 1]
Alike(v, w)      == Len(v) = Len(w) /\ \A j \in DOMAIN v : (Waits(v[j]) = Waits(w[j])) /\ v[j].conn = w[j].conn
Begins(v, w)     == Len(v) <= Len(w) /\ \A j \in DOMAIN v : v[j] = w[j]

\* A request that gets a slot lengthens the wire and the FIFO.
LEMMA BothGrow ==
    ASSUME NEW p \in Seq(Conns), NEW w \in Seq(Wired), NEW c \in Conns, NEW m \in Wired, Waits(m), m.conn = c, Follows(p, w, TRUE)
    PROVE  Follows(Append(p, c), Append(w, m), TRUE)
<1>1. PICK f \in [DOMAIN p -> Nat \ {0}] : Matches(f, p, w, TRUE)
    BY DEF Follows
<1>2. PICK g : g = [i \in 1 .. Len(p) + 1 |-> IF i <= Len(p) THEN f[i] ELSE Len(w) + 1]
    OBVIOUS
<1>3. DOMAIN Append(p, c) = 1 .. Len(p) + 1 /\ DOMAIN p = 1 .. Len(p) /\ DOMAIN w = 1 .. Len(w)
      /\ DOMAIN Append(w, m) = 1 .. Len(w) + 1 /\ Len(p) \in Nat /\ Len(w) \in Nat
    OBVIOUS
<1>4. g \in [DOMAIN Append(p, c) -> Nat \ {0}]
    BY <1>2, <1>3
<1>5. /\ \A i \in DOMAIN p : Append(p, c)[i] = p[i] /\ g[i] = f[i] /\ g[i] \in DOMAIN w
      /\ Append(p, c)[Len(p) + 1] = c /\ g[Len(p) + 1] = Len(w) + 1
      /\ \A i \in DOMAIN w : Append(w, m)[i] = w[i]
      /\ Append(w, m)[Len(w) + 1] = m
    BY <1>1, <1>2, <1>3 DEF Matches
<1>6. Matches(g, Append(p, c), Append(w, m), TRUE)
    <2>1. \A i, j \in DOMAIN Append(p, c) : i < j => g[i] < g[j]
        BY <1>1, <1>3, <1>5 DEF Matches
    <2>2. ASSUME NEW j \in DOMAIN Append(w, m), Waits(Append(w, m)[j])
          PROVE  \E i \in DOMAIN Append(p, c) : g[i] = j
        <3>1. CASE j \in DOMAIN w
            <4>1. PICK i \in DOMAIN p : f[i] = j
                BY <1>1, <1>5, <2>2, <3>1 DEF Matches
            <4> QED
                BY <1>3, <1>5, <4>1
        <3>2. CASE j = Len(w) + 1
            BY <1>3, <1>5, <3>2
        <3> QED
            BY <1>3, <3>1, <3>2
    <2>3. \A i \in DOMAIN Append(p, c) :
            /\ g[i] \in DOMAIN Append(w, m)
            /\ Waits(Append(w, m)[g[i]]) /\ Append(w, m)[g[i]].conn = Append(p, c)[i]
        BY <1>1, <1>3, <1>5 DEF Matches
    <2> QED
        BY <2>1, <2>2, <2>3 DEF Matches
<1> QED
    BY <1>4, <1>6 DEF Follows

\* A request of a link that is lost only lengthens the FIFO.
LEMMA SlotGrows ==
    ASSUME NEW p \in Seq(Conns), NEW w \in Seq(Wired), NEW c \in Conns, Follows(p, w, FALSE)
    PROVE  Follows(Append(p, c), w, FALSE)
<1>1. PICK f \in [DOMAIN p -> Nat \ {0}] : Matches(f, p, w, FALSE)
    BY DEF Follows
<1>2. DOMAIN Append(p, c) = 1 .. Len(p) + 1 /\ DOMAIN p = 1 .. Len(p) /\ DOMAIN w = 1 .. Len(w)
      /\ Len(p) \in Nat /\ Len(w) \in Nat
    OBVIOUS
<1>3. PICK n \in Nat \ {0} : n > Len(w) /\ \A i \in DOMAIN p : f[i] < n
    <2>1. CASE Len(p) = 0
        <3>1. Len(w) + 1 \in Nat \ {0} /\ Len(w) + 1 > Len(w) /\ \A i \in DOMAIN p : f[i] < Len(w) + 1
            BY <1>2, <2>1
        <3> QED
            BY <3>1
    <2>2. CASE Len(p) # 0
        <3>1. Len(p) \in DOMAIN p /\ f[Len(p)] \in Nat
            BY <1>2, <2>2
        <3>2. \A i \in DOMAIN p : f[i] <= f[Len(p)]
            BY <1>1, <1>2, <3>1 DEF Matches
        <3>3. /\ f[Len(p)] + Len(w) + 1 \in Nat \ {0} /\ f[Len(p)] + Len(w) + 1 > Len(w)
              /\ \A i \in DOMAIN p : f[i] < f[Len(p)] + Len(w) + 1
            BY <1>2, <3>1, <3>2
        <3> QED
            BY <3>3
    <2> QED
        BY <2>1, <2>2
<1>4. PICK g : g = [i \in 1 .. Len(p) + 1 |-> IF i <= Len(p) THEN f[i] ELSE n]
    OBVIOUS
<1>5. g \in [DOMAIN Append(p, c) -> Nat \ {0}]
    BY <1>2, <1>4
<1>6. /\ \A i \in DOMAIN p : Append(p, c)[i] = p[i] /\ g[i] = f[i]
      /\ g[Len(p) + 1] = n /\ n \notin DOMAIN w
    BY <1>2, <1>3, <1>4
<1>7. Matches(g, Append(p, c), w, FALSE)
    <2>1. \A i, j \in DOMAIN Append(p, c) : i < j => g[i] < g[j]
        BY <1>1, <1>2, <1>3, <1>6 DEF Matches
    <2>2. \A j \in DOMAIN w : Waits(w[j]) => \E i \in DOMAIN Append(p, c) : g[i] = j
        BY <1>1, <1>2, <1>6 DEF Matches
    <2>3. \A i \in DOMAIN Append(p, c) : g[i] \in DOMAIN w =>
            Waits(w[g[i]]) /\ w[g[i]].conn = Append(p, c)[i]
        BY <1>1, <1>2, <1>6 DEF Matches
    <2> QED
        BY <2>1, <2>2, <2>3 DEF Matches
<1> QED
    BY <1>5, <1>7 DEF Follows

\* Messages without a slot do not matter: v is w with some more of them behind.
LEMMA OthersGrow ==
    ASSUME NEW p \in Seq(Conns), NEW w \in Seq(Wired), NEW m \in Wired, ~Waits(m), Follows(p, w, TRUE)
    PROVE  Follows(p, Append(w, m), TRUE)
<1>1. PICK f \in [DOMAIN p -> Nat \ {0}] : Matches(f, p, w, TRUE)
    BY DEF Follows
<1>2. /\ \A i \in DOMAIN w : Append(w, m)[i] = w[i] /\ i \in DOMAIN Append(w, m)
      /\ \A i \in DOMAIN Append(w, m) : i \in DOMAIN w \/ Append(w, m)[i] = m
    OBVIOUS
<1>3. Matches(f, p, Append(w, m), TRUE)
    BY <1>1, <1>2 DEF Matches
<1> QED
    BY <1>3 DEF Follows

\* A message without a slot leaves the wire, wherever it was.
LEMMA OtherLeaves ==
    ASSUME NEW p \in Seq(Conns), NEW w \in Seq(Wired), NEW v \in Seq(Wired), NEW whole \in BOOLEAN,
           NEW k \in DOMAIN w, ~Waits(w[k]), Without(v, w, k), Follows(p, w, whole)
    PROVE  Follows(p, v, whole)
<1> USE DEF Without
<1>1. PICK f \in [DOMAIN p -> Nat \ {0}] : Matches(f, p, w, whole)
    BY DEF Follows
<1>2. DOMAIN w = 1 .. Len(w) /\ DOMAIN v = 1 .. Len(v) /\ Len(v) \in Nat /\ k \in Nat /\ k > 0 /\ k <= Len(w)
    OBVIOUS
<1>3. \A i \in DOMAIN p : f[i] # k /\ f[i] \in Nat /\ f[i] > 0
    BY <1>1 DEF Matches
<1>4. PICK g : g = [i \in DOMAIN p |-> IF f[i] < k THEN f[i] ELSE f[i] - 1]
    OBVIOUS
<1>5. \A i \in DOMAIN p : g[i] = (IF f[i] < k THEN f[i] ELSE f[i] - 1) /\ g[i] \in Nat /\ g[i] > 0
    BY <1>2, <1>3, <1>4
<1>6. g \in [DOMAIN p -> Nat \ {0}]
    BY <1>4, <1>5
<1>7. Matches(g, p, v, whole)
    <2>1. \A i, j \in DOMAIN p : i < j => g[i] < g[j]
        BY <1>1, <1>2, <1>3, <1>5 DEF Matches
    <2>2. ASSUME NEW j \in DOMAIN v, Waits(v[j]) PROVE \E i \in DOMAIN p : g[i] = j
        <3>1. CASE j < k
            <4>1. j \in DOMAIN w /\ Waits(w[j])
                BY <1>2, <2>2, <3>1
            <4>2. PICK i \in DOMAIN p : f[i] = j
                BY <1>1, <4>1 DEF Matches
            <4> QED
                BY <1>5, <3>1, <4>2
        <3>2. CASE ~(j < k)
            <4>1. j + 1 \in DOMAIN w /\ Waits(w[j + 1]) /\ j \in Nat
                BY <1>2, <2>2, <3>2
            <4>2. PICK i \in DOMAIN p : f[i] = j + 1
                BY <1>1, <4>1 DEF Matches
            <4> QED
                BY <1>2, <1>5, <3>2, <4>1, <4>2
        <3> QED
            BY <3>1, <3>2
    <2>3. ASSUME NEW i \in DOMAIN p
          PROVE  /\ g[i] \in DOMAIN v => f[i] \in DOMAIN w /\ v[g[i]] = w[f[i]]
                 /\ f[i] \in DOMAIN w => g[i] \in DOMAIN v
        <3>1. PICK a \in Nat, b \in Nat : a = f[i] /\ b = g[i]
            BY <1>3, <1>5
        <3>2. a # k /\ a > 0 /\ b > 0 /\ b = IF a < k THEN a ELSE a - 1
            BY <1>3, <1>5, <3>1
        <3>3. a = IF b < k THEN b ELSE b + 1
            BY <1>2, <3>1, <3>2
        <3>4. b \in DOMAIN v => v[b] = w[a]
            <4>1. CASE b < k
                BY <3>3, <4>1
            <4>2. CASE ~(b < k)
                BY <3>3, <4>2
            <4> QED
                BY <4>1, <4>2
        <3>5. b \in DOMAIN v <=> a \in DOMAIN w
            BY <1>2, <3>1, <3>2, <3>3
        <3> QED
            BY <3>1, <3>4, <3>5
    <2> QED
        BY <1>1, <2>1, <2>2, <2>3 DEF Matches
<1> QED
    BY <1>6, <1>7 DEF Follows

\* The first message of the wire has the first slot, if it has one.
LEMMA FirstLeaves ==
    ASSUME NEW p \in Seq(Conns), NEW w \in Seq(Wired), NEW v \in Seq(Wired), NEW whole \in BOOLEAN,
           Waits(w[1]), Behind(v, w), Follows(p, w, whole)
    PROVE  p # <<>> /\ Head(p) = w[1].conn /\ Follows(Tail(p), v, whole)
<1> USE DEF Behind
<1>1. PICK f \in [DOMAIN p -> Nat \ {0}] : Matches(f, p, w, whole)
    BY DEF Follows
<1>2. DOMAIN w = 1 .. Len(w) /\ DOMAIN v = 1 .. Len(v) /\ Len(v) \in Nat /\ DOMAIN p = 1 .. Len(p)
      /\ Len(p) \in Nat /\ 1 \in DOMAIN w
    OBVIOUS
<1>3. PICK k \in DOMAIN p : f[k] = 1
    BY <1>1, <1>2 DEF Matches
<1>4. 1 \in DOMAIN p /\ k = 1
    BY <1>1, <1>2, <1>3 DEF Matches
<1>5. p # <<>> /\ Head(p) = w[1].conn
    BY <1>1, <1>2, <1>3, <1>4 DEF Matches
<1>6. /\ Tail(p) \in Seq(Conns) /\ DOMAIN Tail(p) = 1 .. Len(p) - 1
      /\ \A i \in DOMAIN Tail(p) : Tail(p)[i] = p[i + 1] /\ i + 1 \in DOMAIN p /\ i \in Nat /\ i > 0
    BY <1>2, <1>5
<1>7. \A i \in DOMAIN Tail(p) : f[i + 1] \in Nat /\ f[i + 1] > 1
    BY <1>1, <1>2, <1>3, <1>4, <1>6 DEF Matches
<1>8. PICK g : g = [i \in DOMAIN Tail(p) |-> f[i + 1] - 1]
    OBVIOUS
<1>9. \A i \in DOMAIN Tail(p) : g[i] = f[i + 1] - 1 /\ g[i] \in Nat /\ g[i] > 0
    BY <1>7, <1>8
<1>10. g \in [DOMAIN Tail(p) -> Nat \ {0}]
    BY <1>8, <1>9
<1>11. Matches(g, Tail(p), v, whole)
    <2>1. ASSUME NEW i \in DOMAIN Tail(p), NEW j \in DOMAIN Tail(p), i < j PROVE g[i] < g[j]
        <3>1. f[i + 1] < f[j + 1]
            BY <1>1, <1>6, <2>1 DEF Matches
        <3> QED
            BY <1>7, <1>9, <3>1
    <2>2. ASSUME NEW j \in DOMAIN v, Waits(v[j]) PROVE \E i \in DOMAIN Tail(p) : g[i] = j
        <3>1. j + 1 \in DOMAIN w /\ Waits(w[j + 1]) /\ j \in Nat /\ j > 0
            BY <1>2, <2>2
        <3>2. PICK i \in DOMAIN p : f[i] = j + 1
            BY <1>1, <3>1 DEF Matches
        <3>3. i # 1 /\ i - 1 \in DOMAIN Tail(p) /\ (i - 1) + 1 = i
            BY <1>2, <1>3, <1>4, <1>6, <3>1, <3>2
        <3>4. g[i - 1] = j
            BY <1>9, <3>1, <3>2, <3>3
        <3> QED
            BY <3>3, <3>4
    <2>3. ASSUME NEW i \in DOMAIN Tail(p)
          PROVE  /\ g[i] \in DOMAIN v => f[i + 1] \in DOMAIN w /\ v[g[i]] = w[f[i + 1]]
                 /\ f[i + 1] \in DOMAIN w => g[i] \in DOMAIN v
        <3>1. PICK a \in Nat, b \in Nat : a = f[i + 1] /\ b = g[i] /\ a = b + 1 /\ b > 0
            BY <1>7, <1>9
        <3>2. (b \in DOMAIN v => v[b] = w[b + 1]) /\ (b \in DOMAIN v <=> a \in DOMAIN w)
            BY <1>2, <3>1
        <3> QED
            BY <3>1, <3>2
    <2>4. \A i \in DOMAIN Tail(p) : g[i] \in DOMAIN v => Waits(v[g[i]]) /\ v[g[i]].conn = Tail(p)[i]
        BY <1>1, <1>6, <2>3 DEF Matches
    <2>5. whole => \A i \in DOMAIN Tail(p) : g[i] \in DOMAIN v
        BY <1>1, <1>6, <2>3 DEF Matches
    <2> QED
        BY <2>1, <2>2, <2>4, <2>5 DEF Matches
<1> QED
    BY <1>5, <1>10, <1>11 DEF Follows

\* A wire that is cut.
LEMMA CutFollows ==
    ASSUME NEW p \in Seq(Conns), NEW w \in Seq(Wired), NEW v \in Seq(Wired), NEW whole \in BOOLEAN,
           Begins(v, w), Follows(p, w, whole)
    PROVE  Follows(p, v, FALSE)
<1> USE DEF Begins
<1>1. PICK f \in [DOMAIN p -> Nat \ {0}] : Matches(f, p, w, whole)
    BY DEF Follows
<1>2. \A j \in DOMAIN v : j \in DOMAIN w
    OBVIOUS
<1>3. Matches(f, p, v, FALSE)
    BY <1>1, <1>2 DEF Matches
<1> QED
    BY <1>3 DEF Follows

\* A request that has become its answer keeps its place and its sender.
LEMMA SameFollows ==
    ASSUME NEW p \in Seq(Conns), NEW w \in Seq(Wired), NEW v \in Seq(Wired), NEW whole \in BOOLEAN,
           Alike(v, w), Follows(p, w, whole)
    PROVE  Follows(p, v, whole)
<1> USE DEF Alike
<1>1. PICK f \in [DOMAIN p -> Nat \ {0}] : Matches(f, p, w, whole)
    BY DEF Follows
<1>2. DOMAIN v = DOMAIN w
    OBVIOUS
<1>3. Matches(f, p, v, whole)
    BY <1>1, <1>2 DEF Matches
<1> QED
    BY <1>3 DEF Follows

\* No message with a slot and no slot.
LEMMA NoneFollows ==
    ASSUME NEW w \in Seq(Wired), \A j \in DOMAIN w : ~Waits(w[j])
    PROVE  Follows(<<>>, w, TRUE) /\ Follows(<<>>, w, FALSE)
<1>1. PICK f : f = [i \in {} |-> 1]
    OBVIOUS
<1>2. f \in [DOMAIN <<>> -> Nat \ {0}] /\ DOMAIN <<>> = {}
    BY <1>1
<1>3. Matches(f, <<>>, w, TRUE) /\ Matches(f, <<>>, w, FALSE)
    BY <1>2 DEF Matches
<1> QED
    BY <1>2, <1>3 DEF Follows

-----------------------------------------------------------------------------
(* Types and the course of remote_loop. *)

\* A step is one of the actions below.
LEMMA NextCases ==
    ASSUME [Next]_vars
    PROVE  \/ UNCHANGED vars
           \/ Connect \/ Join \/ Notify \/ reset_remote \/ Drain
           \/ SendUp \/ Receive \/ Lagged \/ SeeDisconnected
           \/ \E c \in Conns : ReportGone(c) \/ remove_conn(c) \/ Accept(c) \/ ConnEnds(c)
           \/ \E c \in Conns, k \in Kinds : upstream(c, k)
           \/ handle_sfu_message \/ LinkDrops \/ WriteFails
BY DEF Next, LoopStep, ConnStep

\* The messages children and server exchange.
LEMMA MessagesAre ==
    /\ \A c \in Conns, k \in Kinds : /\ [kind |-> k, conn |-> c] \in Msg
                                     /\ Waits([kind |-> k, conn |-> c]) <=> k \in Tracked
    /\ \A c \in Conns : DownstreamGone(c) \in Msg /\ ~Waits(DownstreamGone(c))
    /\ \A m \in Msg : m.kind # "gone" => \A e \in Answer(m) :
         e \in Event /\ e.conn = m.conn /\ (Waits(e) <=> Waits(m))
    /\ \A m \in Msg : m.conn \in Conns /\ (Waits(m) => m.kind \in Tracked)
    /\ \A m \in Event : m.conn \in Conns /\ (Waits(m) <=> m.kind = "answer")
BY GatewayAssumption DEF Msg, Event, Waits, Answer, DownstreamGone, Tracked, Untracked

\* What downstream() does with an event.
LEMMA ReceiveDoes ==
    ASSUME Receive
    PROVE  /\ phase = "serve" /\ down # <<>> /\ down' = Tail(down)
           /\ ~shifted' => ~shifted /\ Head(down).kind # "error"
           /\ Head(down).kind = "broadcast" \/ pending = <<>> => pending' = pending /\ owed' = owed /\ got' = got
           /\ ~(Head(down).kind = "broadcast" \/ pending = <<>>) =>
                /\ pending' = Tail(pending)
                /\ \/ /\ Listed(Head(pending))
                      /\ got' = [got EXCEPT ![Head(pending)] = @ \cup {Head(down).conn}]
                      /\ owed' = [owed EXCEPT ![Head(pending)] = IF @ = 0 THEN 0 ELSE @ - 1]
                   \/ ~Listed(Head(pending)) /\ got' = got /\ owed' = owed
           /\ UNCHANGED <<connVars, loopVars, link, sess, sent, prod, hi>>
<1>1. phase = "serve" /\ down # <<>> /\ down' = Tail(down)
    BY DEF Receive
<1>2. ~shifted' => ~shifted /\ Head(down).kind # "error"
    BY Zenon DEF Receive
<1>3. Head(down).kind = "broadcast" \/ pending = <<>> => pending' = pending /\ owed' = owed /\ got' = got
    BY Zenon DEF Receive
<1>4. ASSUME ~(Head(down).kind = "broadcast" \/ pending = <<>>)
      PROVE  /\ pending' = Tail(pending)
             /\ \/ /\ Listed(Head(pending))
                   /\ got' = [got EXCEPT ![Head(pending)] = @ \cup {Head(down).conn}]
                   /\ owed' = [owed EXCEPT ![Head(pending)] = IF @ = 0 THEN 0 ELSE @ - 1]
                \/ ~Listed(Head(pending)) /\ got' = got /\ owed' = owed
    BY <1>4, Zenon DEF Receive
<1>5. UNCHANGED <<connVars, loopVars, link, sess, sent, prod, hi>>
    BY DEF Receive
<1> HIDE DEF connVars, loopVars, linkVars, history
<1> QED
    BY <1>1, <1>2, <1>3, <1>4, <1>5, Zenon

\* Every step keeps the types.
LEMMA TypeStep == TypeOK /\ OwedInv /\ [Next]_vars => TypeOK'
<1> SUFFICES ASSUME TypeOK, OwedInv, [Next]_vars PROVE TypeOK'
    OBVIOUS
<1> USE DEF TypeOK
<1>1. CASE UNCHANGED vars
    BY <1>1 DEF vars
<1>2. CASE Connect
    <2>1. sess + 1 \in 0..MaxSess /\ <<>> \in Seq(Msg) /\ <<>> \in Seq(Event)
        BY <1>2, GatewayAssumption DEF Connect
    <2> QED
        BY <1>2, <2>1 DEF Connect
<1>3. CASE Join \/ SeeDisconnected
    BY <1>3 DEF Join, SeeDisconnected
<1>4. CASE Notify
    <2>1. \A c \in Conns : Notified(c) \in 0..MaxReq
        BY GatewayAssumption DEF Notified
    <2> QED
        BY <1>4, <2>1 DEF Notify
<1>5. CASE reset_remote
    <2>1. <<>> \in Seq(Msg) /\ <<>> \in Seq(Event) /\ <<>> \in Seq(Conns)
        OBVIOUS
    <2> QED
        BY <1>5, <2>1 DEF reset_remote
<1>6. CASE Drain
    <2>1. <<>> \in Seq(Msg)
        OBVIOUS
    <2> QED
        BY <1>6, <2>1 DEF Drain
<1>7. CASE SendUp
    <2>1. Tail(hi) \in Seq(Msg) /\ Append(sent, Head(hi)) \in Seq(Msg)
        BY <1>7 DEF SendUp
    <2> QED
        BY <1>7, <2>1 DEF SendUp
<1>8. CASE Receive
    <2>1. Tail(down) \in Seq(Event) /\ Head(down) \in Event
        BY <1>8 DEF Receive
    <2>2. Head(down).conn \in Conns
        BY <2>1, MessagesAre
    <2>3. pending # <<>> => Tail(pending) \in Seq(Conns) /\ Head(pending) \in Conns
        OBVIOUS
    <2>4. pending' \in Seq(Conns)
        BY <1>8, <2>3, ReceiveDoes
    <2>5. got' \in [Conns -> SUBSET Conns]
        <3>1. CASE got' = got
            BY <3>1
        <3>2. ASSUME NEW to \in Conns, got' = [got EXCEPT ![to] = @ \cup {Head(down).conn}]
              PROVE  got' \in [Conns -> SUBSET Conns]
            BY <2>2, <3>2
        <3> HIDE DEF TypeOK
        <3> QED
            BY <1>8, <2>3, <3>1, <3>2, ReceiveDoes
    <2>6. owed' \in [Conns -> 0..MaxReq]
        <3>1. CASE owed' = owed
            BY <3>1
        <3>2. ASSUME NEW to \in Conns, owed' = [owed EXCEPT ![to] = IF @ = 0 THEN 0 ELSE @ - 1]
              PROVE  owed' \in [Conns -> 0..MaxReq]
            <4>1. (IF owed[to] = 0 THEN 0 ELSE owed[to] - 1) \in 0..MaxReq
                BY GatewayAssumption
            <4> QED
                BY <3>2, <4>1
        <3> HIDE DEF TypeOK
        <3> QED
            BY <1>8, <2>3, <3>1, <3>2, ReceiveDoes
    <2>7. shifted' \in BOOLEAN
        BY <1>8 DEF Receive
    <2> QED
        BY <1>8, <2>1, <2>4, <2>5, <2>6, <2>7 DEF Receive
<1>9. CASE Lagged
    <2>1. SubSeq(down, Len(down) - EvCap + 1, Len(down)) \in Seq(Event)
        BY <1>9, GatewayAssumption DEF Lagged
    <2> QED
        BY <1>9, <2>1 DEF Lagged
<1>10. ASSUME NEW c \in Conns, ReportGone(c) PROVE TypeOK'
    <2>1. Append(hi, DownstreamGone(c)) \in Seq(Msg)
        BY MessagesAre
    <2> QED
        BY <1>10, <2>1 DEF ReportGone
<1>11. ASSUME NEW c \in Conns, remove_conn(c) \/ Accept(c) \/ ConnEnds(c) PROVE TypeOK'
    BY <1>11 DEF remove_conn, Accept, ConnEnds, SlotsKept
<1>12. ASSUME NEW c \in Conns, NEW k \in Kinds, upstream(c, k) PROVE TypeOK'
    <2>1. Append(hi, [kind |-> k, conn |-> c]) \in Seq(Msg) /\ Append(pending, c) \in Seq(Conns)
        BY MessagesAre
    <2>2. nreq[c] + 1 \in 0..MaxReq /\ owed[c] + 1 \in 0..MaxReq
        BY <1>12, GatewayAssumption DEF upstream, OwedInv
    <2> QED
        BY <1>12, <2>1, <2>2 DEF upstream
<1>13. CASE handle_sfu_message
    <2>1. PICK m \in Msg : m = Head(sent) /\ m.conn \in Conns
        BY <1>13, MessagesAre DEF handle_sfu_message
    <2>2. Tail(sent) \in Seq(Msg)
        BY <1>13 DEF handle_sfu_message
    <2>3. down' \in Seq(Event)
        <3>1. CASE m.kind = "gone"
            BY <1>13, <2>1, <3>1 DEF handle_sfu_message
        <3>2. CASE m.kind # "gone"
            <4>1. PICK e \in Answer(m) : down' = Append(down, e)
                BY <1>13, <2>1, <3>2 DEF handle_sfu_message
            <4> QED
                BY <2>1, <3>2, <4>1, MessagesAre
        <3> QED
            BY <3>1, <3>2
    <2>4. prod' \subseteq Conns
        BY <1>13, <2>1 DEF handle_sfu_message
    <2> QED
        BY <1>13, <2>2, <2>3, <2>4 DEF handle_sfu_message
<1>14. CASE LinkDrops
    <2>1. PICK n \in 0..Len(down) : down' = SubSeq(down, 1, n)
        BY <1>14 DEF LinkDrops
    <2>2. down' \in Seq(Event) /\ <<>> \in Seq(Msg)
        BY <2>1
    <2> QED
        BY <1>14, <2>2 DEF LinkDrops
<1>15. CASE WriteFails
    <2>1. <<>> \in Seq(Msg)
        OBVIOUS
    <2> QED
        BY <1>15, <2>1 DEF WriteFails
<1> QED
    BY <1>1, <1>2, <1>3, <1>4, <1>5, <1>6, <1>7, <1>8, <1>9, <1>10, <1>11, <1>12, <1>13, <1>14, <1>15,
       NextCases

\* Every step keeps the facts about the phases.
LEMMA LoopKept == TypeOK /\ LoopInv /\ [Next]_vars => LoopInv'
<1> SUFFICES ASSUME TypeOK, LoopInv, [Next]_vars PROVE LoopInv'
    OBVIOUS
<1> USE DEF LoopInv
<1>1. CASE UNCHANGED vars
    BY <1>1 DEF vars
<1>2. CASE Connect \/ Join \/ Notify \/ SeeDisconnected
    BY <1>2 DEF Connect, Join, Notify, SeeDisconnected
<1>3. CASE reset_remote
    BY <1>3 DEF reset_remote
<1>4. CASE Drain
    BY <1>4 DEF Drain
<1>5. CASE SendUp
    BY <1>5 DEF SendUp
<1>6. CASE Receive \/ Lagged
    BY <1>6 DEF Receive, Lagged
<1>7. ASSUME NEW c \in Conns, ReportGone(c) PROVE LoopInv'
    <2>1. hi \in Seq(Msg) /\ DownstreamGone(c) \in Msg /\ DownstreamGone(c).kind = "gone"
        BY MessagesAre DEF TypeOK, DownstreamGone
    <2>2. (\A i \in DOMAIN hi : hi[i].kind = "gone") => (\A i \in DOMAIN hi' : hi'[i].kind = "gone")
        BY <1>7, <2>1 DEF ReportGone
    <2> QED
        BY <1>7, <2>2 DEF ReportGone
<1>8. ASSUME NEW c \in Conns, remove_conn(c) \/ Accept(c) \/ ConnEnds(c) PROVE LoopInv'
    BY <1>8 DEF remove_conn, Accept, ConnEnds, SlotsKept
<1>9. ASSUME NEW c \in Conns, NEW k \in Kinds, upstream(c, k) PROVE LoopInv'
    BY <1>9 DEF upstream, TakesSlot
<1>10. CASE handle_sfu_message
    BY <1>10 DEF handle_sfu_message
<1>11. CASE LinkDrops
    <2>1. down = <<>> => down' = <<>>
        BY <1>11 DEF LinkDrops, TypeOK
    <2> QED
        BY <1>11, <2>1 DEF LinkDrops
<1>12. CASE WriteFails
    BY <1>12 DEF WriteFails
<1> QED
    BY <1>1, <1>2, <1>3, <1>4, <1>5, <1>6, <1>7, <1>8, <1>9, <1>10, <1>11, <1>12, NextCases

-----------------------------------------------------------------------------
(* The pairing. *)

\* What is at which place of a wire w of events d, requests sent s and requests
\* to be sent h, of which there are x, y and z.
Places(w, d, s, h, x, y, z) ==
    /\ \A j \in 1 .. x : w[j] = d[j]
    /\ \A j \in 1 .. y : w[x + j] = s[j]
    /\ \A j \in 1 .. z : w[x + y + j] = h[j]

\* t is s, of length n, and m; g, of length n, is s without its first.
Grown(t, s, n, m) == (\A j \in 1 .. n : t[j] = s[j]) /\ t[n + 1] = m
Shrunk(g, s, n)   == \A j \in 1 .. n : g[j] = s[j + 1]

\* The concatenation of the three is such a wire.
LEMMA WireIs ==
    ASSUME NEW d \in Seq(Wired), NEW s \in Seq(Wired), NEW h \in Seq(Wired)
    PROVE  /\ d \o s \o h \in Seq(Wired)
           /\ Len(d \o s \o h) = Len(d) + Len(s) + Len(h)
           /\ Places(d \o s \o h, d, s, h, Len(d), Len(s), Len(h))
<1>0. d \o s \in Seq(Wired)
    OBVIOUS
<1>1. PICK u \in Seq(Wired) : u = d \o s
    BY <1>0
<1>2. Len(u) = Len(d) + Len(s) /\ \A j \in 1 .. Len(u) : u[j] = IF j <= Len(d) THEN d[j] ELSE s[j - Len(d)]
    BY <1>1
<1>3. /\ u \o h \in Seq(Wired) /\ Len(u \o h) = Len(u) + Len(h)
      /\ \A j \in 1 .. Len(u) + Len(h) : (u \o h)[j] = IF j <= Len(u) THEN u[j] ELSE h[j - Len(u)]
    OBVIOUS
<1>4. Len(d) \in Nat /\ Len(s) \in Nat /\ Len(h) \in Nat
    OBVIOUS
<1>5. \A j \in 1 .. Len(d) : (u \o h)[j] = d[j]
    BY <1>2, <1>3, <1>4
<1>6. ASSUME NEW j \in 1 .. Len(s) PROVE (u \o h)[Len(d) + j] = s[j]
    <2>1. PICK k \in Nat : k = Len(d) + j
        BY <1>4
    <2>2. k \in 1 .. Len(u) /\ ~(k <= Len(d)) /\ k - Len(d) = j
        BY <1>2, <1>4, <2>1
    <2>3. u[k] = s[j] /\ (u \o h)[k] = u[k]
        BY <1>2, <1>3, <1>4, <2>2
    <2> QED
        BY <2>1, <2>3
<1>7. ASSUME NEW j \in 1 .. Len(h) PROVE (u \o h)[Len(d) + Len(s) + j] = h[j]
    <2>1. PICK k \in Nat : k = Len(d) + Len(s) + j
        BY <1>4
    <2>2. k \in 1 .. Len(u) + Len(h) /\ ~(k <= Len(u)) /\ k - Len(u) = j
        BY <1>2, <1>4, <2>1
    <2> QED
        BY <1>3, <2>1, <2>2
<1> QED
    BY <1>1, <1>2, <1>3, <1>5, <1>6, <1>7 DEF Places

\* Where a place of the wire lies.
LEMMA WirePlace ==
    ASSUME NEW a \in Nat, NEW b \in Nat, NEW c \in Nat, NEW j \in 1 .. a + b + c
    PROVE  \/ j \in 1 .. a
           \/ \E k \in 1 .. b : j = a + k
           \/ \E k \in 1 .. c : j = a + b + k
<1>1. CASE j <= a
    BY <1>1
<1>2. CASE j > a /\ j <= a + b
    <2>1. j - a \in 1 .. b /\ j = a + (j - a)
        BY <1>2
    <2> QED
        BY <2>1
<1>3. CASE j > a + b
    <2>1. j - (a + b) \in 1 .. c /\ j = a + b + (j - (a + b))
        BY <1>3
    <2> QED
        BY <2>1
<1> QED
    BY <1>1, <1>2, <1>3

\* A sequence without its first message.
LEMMA TailIs ==
    ASSUME NEW s \in Seq(Wired), s # <<>>
    PROVE  /\ Tail(s) \in Seq(Wired) /\ Len(s) = Len(Tail(s)) + 1 /\ Len(Tail(s)) \in Nat
           /\ Head(s) = s[1] /\ Head(s) \in Wired
           /\ Shrunk(Tail(s), s, Len(Tail(s)))
BY DEF Shrunk

\* A sequence with one more message.
LEMMA AppendIs ==
    ASSUME NEW s \in Seq(Wired), NEW m \in Wired
    PROVE  /\ Append(s, m) \in Seq(Wired) /\ Len(Append(s, m)) = Len(s) + 1 /\ Len(s) \in Nat
           /\ Grown(Append(s, m), s, Len(s), m)
BY DEF Grown

\* w becomes v by a message that moves from the head of h to the end of s.
Sends(w, v, d, s, h, t, g, x, y, z) ==
    /\ x \in Nat /\ y \in Nat /\ z \in Nat
    /\ Places(w, d, s, h, x, y, z + 1) /\ Places(v, d, t, g, x, y + 1, z)
    /\ Grown(t, s, y, h[1]) /\ Shrunk(g, h, z)

\* A message moves from the head of h to the end of s: same places.
LEMMA SendPlaces ==
    ASSUME NEW w, NEW v, NEW d, NEW s, NEW h, NEW t, NEW g, NEW x, NEW y, NEW z,
           Sends(w, v, d, s, h, t, g, x, y, z), NEW j \in 1 .. x + (y + 1) + z
    PROVE  v[j] = w[j]
<1> USE DEF Sends, Places, Grown, Shrunk
<1>1. CASE j \in 1 .. x
    BY <1>1
<1>2. ASSUME NEW k \in 1 .. y, j = x + k PROVE v[j] = w[j]
    <2>1. k \in 1 .. y + 1
        OBVIOUS
    <2> QED
        BY <1>2, <2>1
<1>3. CASE j = x + (y + 1)
    <2>1. j = x + y + 1 /\ 1 \in 1 .. z + 1 /\ y + 1 \in 1 .. y + 1
        BY <1>3
    <2>2. w[j] = h[1]
        BY <2>1
    <2>3. v[j] = t[y + 1]
        BY <1>3, <2>1
    <2> QED
        BY <2>2, <2>3
<1>4. ASSUME NEW k \in 1 .. z, j = x + (y + 1) + k PROVE v[j] = w[j]
    <2>1. j = x + y + (k + 1) /\ k + 1 \in 1 .. z + 1
        BY <1>4
    <2>2. w[j] = h[k + 1]
        BY <2>1
    <2> QED
        BY <1>4, <2>2
<1>5. (\E k \in 1 .. y + 1 : j = x + k) => j = x + (y + 1) \/ \E k \in 1 .. y : j = x + k
    <2>1. ASSUME NEW k \in 1 .. y + 1, j = x + k PROVE j = x + (y + 1) \/ k \in 1 .. y
        BY <2>1
    <2> QED
        BY <2>1
<1>6. \/ j \in 1 .. x \/ (\E k \in 1 .. y + 1 : j = x + k) \/ (\E k \in 1 .. z : j = x + (y + 1) + k)
    <2>1. y + 1 \in Nat
        OBVIOUS
    <2> QED
        BY <2>1, WirePlace
<1> QED
    BY <1>1, <1>2, <1>3, <1>4, <1>5, <1>6

\* w becomes v by a message that leaves the head of s for the end of d as e.
Answers(w, v, d, s, h, t, g, e, x, y, z) ==
    /\ x \in Nat /\ y \in Nat /\ z \in Nat
    /\ Places(w, d, s, h, x, y + 1, z) /\ Places(v, t, g, h, x + 1, y, z)
    /\ Grown(t, d, x, e) /\ Shrunk(g, s, y)

\* A message leaves the head of s for the end of d as e: same places but for one.
LEMMA AnswerPlaces ==
    ASSUME NEW w, NEW v, NEW d, NEW s, NEW h, NEW t, NEW g, NEW e, NEW x, NEW y, NEW z,
           Answers(w, v, d, s, h, t, g, e, x, y, z), NEW j \in 1 .. x + 1 + y + z
    PROVE  v[j] = w[j] \/ (v[j] = e /\ w[j] = s[1])
<1> USE DEF Answers, Places, Grown, Shrunk
<1>1. CASE j \in 1 .. x
    <2>1. j \in 1 .. x + 1
        BY <1>1
    <2> QED
        BY <1>1, <2>1
<1>2. CASE j = x + 1
    <2>1. j \in 1 .. x + 1 /\ 1 \in 1 .. y + 1
        BY <1>2
    <2>2. w[j] = s[1]
        BY <1>2, <2>1
    <2>3. v[j] = e
        BY <1>2, <2>1
    <2> QED
        BY <2>2, <2>3
<1>3. ASSUME NEW k \in 1 .. y, j = x + 1 + k PROVE v[j] = w[j]
    <2>1. j = x + (k + 1) /\ k + 1 \in 1 .. y + 1
        BY <1>3
    <2>2. w[j] = s[k + 1]
        BY <2>1
    <2> QED
        BY <1>3, <2>2
<1>4. ASSUME NEW k \in 1 .. z, j = x + 1 + y + k PROVE v[j] = w[j]
    <2>1. j = x + (y + 1) + k
        BY <1>4
    <2>2. w[j] = h[k]
        BY <2>1
    <2> QED
        BY <1>4, <2>2
<1>5. j \in 1 .. x + 1 => j \in 1 .. x \/ j = x + 1
    OBVIOUS
<1>6. \/ j \in 1 .. x + 1 \/ (\E k \in 1 .. y : j = x + 1 + k) \/ (\E k \in 1 .. z : j = x + 1 + y + k)
    <2>1. x + 1 \in Nat
        OBVIOUS
    <2> QED
        BY <2>1, WirePlace
<1> QED
    BY <1>1, <1>2, <1>3, <1>4, <1>5, <1>6

\* w becomes v by the loss of the head of s.
Serves(w, v, d, s, h, g, x, y, z) ==
    /\ x \in Nat /\ y \in Nat /\ z \in Nat
    /\ Places(w, d, s, h, x, y + 1, z) /\ Places(v, d, g, h, x, y, z)
    /\ Shrunk(g, s, y)

\* The head of s leaves: what was behind it moves up.
LEMMA ServedPlaces ==
    ASSUME NEW w, NEW v, NEW d, NEW s, NEW h, NEW g, NEW x, NEW y, NEW z,
           Serves(w, v, d, s, h, g, x, y, z), NEW j \in 1 .. x + y + z
    PROVE  v[j] = IF j < x + 1 THEN w[j] ELSE w[j + 1]
<1> USE DEF Serves, Places, Grown, Shrunk
<1>1. CASE j \in 1 .. x
    BY <1>1
<1>2. ASSUME NEW k \in 1 .. y, j = x + k PROVE ~(j < x + 1) /\ v[j] = w[j + 1]
    <2>1. ~(j < x + 1) /\ j + 1 = x + (k + 1) /\ k + 1 \in 1 .. y + 1
        BY <1>2
    <2>2. w[j + 1] = s[k + 1]
        BY <2>1
    <2>3. v[j] = s[k + 1]
        BY <1>2
    <2> QED
        BY <2>1, <2>2, <2>3
<1>3. ASSUME NEW k \in 1 .. z, j = x + y + k PROVE ~(j < x + 1) /\ v[j] = w[j + 1]
    <2>1. ~(j < x + 1) /\ j + 1 = x + (y + 1) + k
        BY <1>3
    <2>2. w[j + 1] = h[k]
        BY <2>1
    <2> QED
        BY <1>3, <2>1, <2>2
<1>4. \/ j \in 1 .. x \/ (\E k \in 1 .. y : j = x + k) \/ (\E k \in 1 .. z : j = x + y + k)
    BY WirePlace
<1> QED
    BY <1>1, <1>2, <1>3, <1>4

\* w becomes v by the loss of the head of d.
HandsOut(w, v, d, s, h, g, x, y, z) ==
    /\ x \in Nat /\ y \in Nat /\ z \in Nat
    /\ Places(w, d, s, h, x + 1, y, z) /\ Places(v, g, s, h, x, y, z)
    /\ Shrunk(g, d, x)

\* The head of d leaves.
LEMMA HeadPlaces ==
    ASSUME NEW w, NEW v, NEW d, NEW s, NEW h, NEW g, NEW x, NEW y, NEW z,
           HandsOut(w, v, d, s, h, g, x, y, z), NEW j \in 1 .. x + y + z
    PROVE  v[j] = w[j + 1]
<1> USE DEF HandsOut, Places, Grown, Shrunk
<1>1. CASE j \in 1 .. x
    <2>1. j + 1 \in 1 .. x + 1
        BY <1>1
    <2> QED
        BY <1>1, <2>1
<1>2. ASSUME NEW k \in 1 .. y, j = x + k PROVE v[j] = w[j + 1]
    <2>1. j + 1 = x + 1 + k
        BY <1>2
    <2>2. w[j + 1] = s[k]
        BY <2>1
    <2> QED
        BY <1>2, <2>2
<1>3. ASSUME NEW k \in 1 .. z, j = x + y + k PROVE v[j] = w[j + 1]
    <2>1. j + 1 = x + 1 + y + k
        BY <1>3
    <2>2. w[j + 1] = h[k]
        BY <2>1
    <2> QED
        BY <1>3, <2>2
<1>4. \/ j \in 1 .. x \/ (\E k \in 1 .. y : j = x + k) \/ (\E k \in 1 .. z : j = x + y + k)
    BY WirePlace
<1> QED
    BY <1>1, <1>2, <1>3, <1>4

\* A message is pushed onto the hi queue: the wire grows by it.
LEMMA PushGrows ==
    ASSUME NEW d \in Seq(Wired), NEW s \in Seq(Wired), NEW h \in Seq(Wired), NEW m \in Wired
    PROVE  d \o s \o Append(h, m) = Append(d \o s \o h, m)
<1>1. d \o s \in Seq(Wired)
    OBVIOUS
<1>2. PICK u \in Seq(Wired) : u = d \o s
    BY <1>1
<1>3. u \o Append(h, m) = Append(u \o h, m)
    OBVIOUS
<1> QED
    BY <1>2, <1>3

\* A message is sent: it stays where it is on the wire.
LEMMA SendFollows ==
    ASSUME NEW p \in Seq(Conns), NEW d \in Seq(Wired), NEW s \in Seq(Wired), NEW h \in Seq(Wired), h # <<>>,
           Follows(p, d \o s \o h, TRUE)
    PROVE  Follows(p, d \o Append(s, Head(h)) \o Tail(h), TRUE)
<1>1. PICK t, g : t = Append(s, Head(h)) /\ g = Tail(h)
    OBVIOUS
<1>2. Head(h) \in Wired /\ t \in Seq(Wired) /\ g \in Seq(Wired)
    BY <1>1, TailIs, AppendIs, Zenon
<1>3. PICK w, v : w = d \o s \o h /\ v = d \o t \o g
    OBVIOUS
<1>4. w \in Seq(Wired) /\ v \in Seq(Wired)
    BY <1>2, <1>3, WireIs, Zenon
<1>5. PICK x, y, z : x = Len(d) /\ y = Len(s) /\ z = Len(g)
    OBVIOUS
<1>6. x \in Nat /\ y \in Nat /\ z \in Nat
    BY <1>2, <1>5
<1>7. Len(t) = y + 1 /\ Len(h) = z + 1 /\ Grown(t, s, y, h[1]) /\ Shrunk(g, h, z)
    BY <1>1, <1>2, <1>5, TailIs, AppendIs, Zenon
<1>8. /\ Places(w, d, s, h, x, y, z + 1) /\ Places(v, d, t, g, x, y + 1, z)
      /\ Len(w) = x + y + (z + 1) /\ Len(v) = x + (y + 1) + z
    <2>1. Places(w, d, s, h, Len(d), Len(s), Len(h)) /\ Len(w) = Len(d) + Len(s) + Len(h)
        BY <1>3, WireIs, Zenon
    <2>2. Places(v, d, t, g, Len(d), Len(t), Len(g)) /\ Len(v) = Len(d) + Len(t) + Len(g)
        BY <1>2, <1>3, WireIs, Zenon
    <2> QED
        BY <1>5, <1>7, <2>1, <2>2, Zenon
<1>9. Len(v) = Len(w) /\ DOMAIN v = 1 .. x + (y + 1) + z
    BY <1>4, <1>6, <1>8
<1>10. ASSUME NEW j \in DOMAIN v PROVE v[j] = w[j]
    <2>1. j \in 1 .. x + (y + 1) + z
        BY <1>9
    <2>2. Sends(w, v, d, s, h, t, g, x, y, z)
        BY <1>6, <1>7, <1>8, Zenon DEF Sends
    <2> QED
        BY <2>1, <2>2, SendPlaces
<1>11. Alike(v, w)
    BY <1>9, <1>10, Zenon DEF Alike
<1>12. Follows(p, w, TRUE) /\ TRUE \in BOOLEAN
    BY <1>3
<1> QED
    BY <1>1, <1>3, <1>4, <1>11, <1>12, SameFollows, Zenon

\* The server answers a request: the answer takes its place on the wire.
LEMMA AnswerFollows ==
    ASSUME NEW p \in Seq(Conns), NEW d \in Seq(Wired), NEW s \in Seq(Wired), NEW h \in Seq(Wired), s # <<>>,
           NEW e \in Wired, Waits(e) = Waits(Head(s)), e.conn = Head(s).conn,
           Follows(p, d \o s \o h, TRUE)
    PROVE  Follows(p, Append(d, e) \o Tail(s) \o h, TRUE)
<1>1. PICK t, g : t = Append(d, e) /\ g = Tail(s)
    OBVIOUS
<1>2. Head(s) = s[1] /\ t \in Seq(Wired) /\ g \in Seq(Wired)
    BY <1>1, TailIs, AppendIs, Zenon
<1>3. PICK w, v : w = d \o s \o h /\ v = t \o g \o h
    OBVIOUS
<1>4. w \in Seq(Wired) /\ v \in Seq(Wired)
    BY <1>2, <1>3, WireIs, Zenon
<1>5. PICK x, y, z : x = Len(d) /\ y = Len(g) /\ z = Len(h)
    OBVIOUS
<1>6. x \in Nat /\ y \in Nat /\ z \in Nat
    BY <1>2, <1>5
<1>7. Len(t) = x + 1 /\ Len(s) = y + 1 /\ Grown(t, d, x, e) /\ Shrunk(g, s, y)
    BY <1>1, <1>2, <1>5, TailIs, AppendIs, Zenon
<1>8. /\ Places(w, d, s, h, x, y + 1, z) /\ Places(v, t, g, h, x + 1, y, z)
      /\ Len(w) = x + (y + 1) + z /\ Len(v) = x + 1 + y + z
    <2>1. Places(w, d, s, h, Len(d), Len(s), Len(h)) /\ Len(w) = Len(d) + Len(s) + Len(h)
        BY <1>3, WireIs, Zenon
    <2>2. Places(v, t, g, h, Len(t), Len(g), Len(h)) /\ Len(v) = Len(t) + Len(g) + Len(h)
        BY <1>2, <1>3, WireIs, Zenon
    <2> QED
        BY <1>5, <1>7, <2>1, <2>2, Zenon
<1>9. Len(v) = Len(w) /\ DOMAIN v = 1 .. x + 1 + y + z
    BY <1>4, <1>6, <1>8
<1>10. ASSUME NEW j \in DOMAIN v PROVE v[j] = w[j] \/ (v[j] = e /\ w[j] = s[1])
    <2>1. j \in 1 .. x + 1 + y + z
        BY <1>9
    <2>2. Answers(w, v, d, s, h, t, g, e, x, y, z)
        BY <1>6, <1>7, <1>8, Zenon DEF Answers
    <2> QED
        BY <2>1, <2>2, AnswerPlaces
<1>11. Alike(v, w)
    BY <1>2, <1>9, <1>10, Zenon DEF Alike
<1>12. Follows(p, w, TRUE) /\ TRUE \in BOOLEAN
    BY <1>3
<1> QED
    BY <1>1, <1>3, <1>4, <1>11, <1>12, SameFollows, Zenon

\* The server takes a message it does not answer off the wire.
LEMMA ServedFollows ==
    ASSUME NEW p \in Seq(Conns), NEW d \in Seq(Wired), NEW s \in Seq(Wired), NEW h \in Seq(Wired), s # <<>>,
           ~Waits(Head(s)), Follows(p, d \o s \o h, TRUE)
    PROVE  Follows(p, d \o Tail(s) \o h, TRUE)
<1>1. PICK g : g = Tail(s)
    OBVIOUS
<1>2. Head(s) = s[1] /\ g \in Seq(Wired)
    BY <1>1, TailIs, Zenon
<1>3. PICK w, v : w = d \o s \o h /\ v = d \o g \o h
    OBVIOUS
<1>4. w \in Seq(Wired) /\ v \in Seq(Wired)
    BY <1>2, <1>3, WireIs, Zenon
<1>5. PICK x, y, z : x = Len(d) /\ y = Len(g) /\ z = Len(h)
    OBVIOUS
<1>6. x \in Nat /\ y \in Nat /\ z \in Nat
    BY <1>2, <1>5
<1>7. Len(s) = y + 1 /\ Shrunk(g, s, y)
    BY <1>1, <1>2, <1>5, TailIs, Zenon
<1>8. /\ Places(w, d, s, h, x, y + 1, z) /\ Places(v, d, g, h, x, y, z)
      /\ Len(w) = x + (y + 1) + z /\ Len(v) = x + y + z
    <2>1. Places(w, d, s, h, Len(d), Len(s), Len(h)) /\ Len(w) = Len(d) + Len(s) + Len(h)
        BY <1>3, WireIs, Zenon
    <2>2. Places(v, d, g, h, Len(d), Len(g), Len(h)) /\ Len(v) = Len(d) + Len(g) + Len(h)
        BY <1>2, <1>3, WireIs, Zenon
    <2> QED
        BY <1>5, <1>7, <2>1, <2>2, Zenon
<1>9. Len(w) = Len(v) + 1 /\ DOMAIN v = 1 .. x + y + z /\ x + 1 \in DOMAIN w
    BY <1>4, <1>6, <1>8
<1>10. ASSUME NEW j \in DOMAIN v PROVE v[j] = IF j < x + 1 THEN w[j] ELSE w[j + 1]
    <2>1. j \in 1 .. x + y + z
        BY <1>9
    <2>2. Serves(w, v, d, s, h, g, x, y, z)
        BY <1>6, <1>7, <1>8, Zenon DEF Serves
    <2> QED
        BY <2>1, <2>2, ServedPlaces
<1>11. w[x + 1] = s[1]
    <2>1. 1 \in 1 .. y + 1
        BY <1>6
    <2> QED
        BY <1>8, <2>1, Zenon DEF Places
<1>12. Without(v, w, x + 1)
    BY <1>9, <1>10, Zenon DEF Without
<1>13. ~Waits(w[x + 1]) /\ Follows(p, w, TRUE) /\ TRUE \in BOOLEAN
    BY <1>2, <1>3, <1>11, Zenon
<1>14. Follows(p, v, TRUE)
    BY <1>4, <1>9, <1>12, <1>13, OtherLeaves, Zenon
<1> QED
    BY <1>1, <1>3, <1>14

\* The oldest event is taken off the wire, and its slot, if it has one, off the FIFO.
LEMMA HeadFollows ==
    ASSUME NEW p \in Seq(Conns), NEW d \in Seq(Wired), NEW s \in Seq(Wired), NEW h \in Seq(Wired), d # <<>>,
           NEW whole \in BOOLEAN, Follows(p, d \o s \o h, whole)
    PROVE  /\ ~Waits(Head(d)) => Follows(p, Tail(d) \o s \o h, whole)
           /\ Waits(Head(d)) => /\ p # <<>> /\ Head(p) = Head(d).conn
                                /\ Follows(Tail(p), Tail(d) \o s \o h, whole)
<1>1. PICK g : g = Tail(d)
    OBVIOUS
<1>2. Head(d) = d[1] /\ g \in Seq(Wired)
    BY <1>1, TailIs, Zenon
<1>3. PICK w, v : w = d \o s \o h /\ v = g \o s \o h
    OBVIOUS
<1>4. w \in Seq(Wired) /\ v \in Seq(Wired)
    BY <1>2, <1>3, WireIs, Zenon
<1>5. PICK x, y, z : x = Len(g) /\ y = Len(s) /\ z = Len(h)
    OBVIOUS
<1>6. x \in Nat /\ y \in Nat /\ z \in Nat
    BY <1>2, <1>5
<1>7. Len(d) = x + 1 /\ Shrunk(g, d, x)
    BY <1>1, <1>2, <1>5, TailIs, Zenon
<1>8. /\ Places(w, d, s, h, x + 1, y, z) /\ Places(v, g, s, h, x, y, z)
      /\ Len(w) = x + 1 + y + z /\ Len(v) = x + y + z
    <2>1. Places(w, d, s, h, Len(d), Len(s), Len(h)) /\ Len(w) = Len(d) + Len(s) + Len(h)
        BY <1>3, WireIs, Zenon
    <2>2. Places(v, g, s, h, Len(g), Len(s), Len(h)) /\ Len(v) = Len(g) + Len(s) + Len(h)
        BY <1>2, <1>3, WireIs, Zenon
    <2> QED
        BY <1>5, <1>7, <2>1, <2>2, Zenon
<1>9. Len(w) = Len(v) + 1 /\ DOMAIN v = 1 .. x + y + z /\ 1 \in DOMAIN w /\ w # <<>>
    BY <1>4, <1>6, <1>8
<1>10. ASSUME NEW j \in DOMAIN v PROVE v[j] = w[j + 1]
    <2>1. j \in 1 .. x + y + z
        BY <1>9
    <2>2. HandsOut(w, v, d, s, h, g, x, y, z)
        BY <1>6, <1>7, <1>8, Zenon DEF HandsOut
    <2> QED
        BY <2>1, <2>2, HeadPlaces
<1>11. w[1] = Head(d)
    <2>1. 1 \in 1 .. x + 1
        BY <1>6
    <2> QED
        BY <1>2, <1>8, <2>1, Zenon DEF Places
<1>12. Behind(v, w)
    BY <1>9, <1>10, Zenon DEF Behind
<1>13. Without(v, w, 1)
    <2>1. \A j \in DOMAIN v : ~(j < 1)
        BY <1>6, <1>9
    <2> QED
        BY <1>9, <1>10, <2>1, Zenon DEF Without
<1>14. Follows(p, w, whole)
    BY <1>3
<1>15. ASSUME ~Waits(Head(d)) PROVE Follows(p, v, whole)
    <2>1. ~Waits(w[1])
        BY <1>11, <1>15
    <2>2. PICK k \in DOMAIN w : k = 1
        BY <1>9
    <2>3. ~Waits(w[k]) /\ Without(v, w, k)
        BY <1>13, <2>1, <2>2
    <2> QED
        BY <1>4, <1>14, <2>3, OtherLeaves, Zenon
<1>16. Waits(Head(d)) => p # <<>> /\ Head(p) = w[1].conn /\ Follows(Tail(p), v, whole)
    BY <1>4, <1>11, <1>12, <1>14, FirstLeaves, Zenon
<1> QED
    BY <1>1, <1>3, <1>11, <1>15, <1>16, Zenon

\* The link is lost: what is left is the beginning of the events.
LEMMA LossFollows ==
    ASSUME NEW p \in Seq(Conns), NEW d \in Seq(Wired), NEW s \in Seq(Wired), NEW h \in Seq(Wired),
           NEW n \in 0 .. Len(d), Follows(p, d \o s \o h, TRUE)
    PROVE  Follows(p, SubSeq(d, 1, n), FALSE) /\ Follows(p, d, FALSE)
<1>1. PICK w, v : w = d \o s \o h /\ v = SubSeq(d, 1, n)
    OBVIOUS
<1>2. w \in Seq(Wired) /\ Len(w) = Len(d) + Len(s) + Len(h) /\ \A j \in 1 .. Len(d) : w[j] = d[j]
    <2>1. w \in Seq(Wired) /\ Len(w) = Len(d) + Len(s) + Len(h) /\ Places(w, d, s, h, Len(d), Len(s), Len(h))
        BY <1>1, WireIs, Zenon
    <2> QED
        BY <2>1, Zenon DEF Places
<1>3. v \in Seq(Wired) /\ Len(v) = n /\ \A j \in 1 .. n : v[j] = d[j]
    BY <1>1
<1>4. Len(v) <= Len(w) /\ Len(d) <= Len(w) /\ DOMAIN v = 1 .. n /\ DOMAIN d = 1 .. Len(d)
    BY <1>2, <1>3
<1>5. \A j \in 1 .. n : j \in 1 .. Len(d)
    OBVIOUS
<1>6. Begins(v, w) /\ Begins(d, w)
    BY <1>2, <1>3, <1>4, <1>5, Zenon DEF Begins
<1>7. Follows(p, w, TRUE) /\ TRUE \in BOOLEAN
    BY <1>1
<1>8. Follows(p, v, FALSE) /\ Follows(p, d, FALSE)
    BY <1>2, <1>3, <1>6, <1>7, CutFollows, Zenon
<1> QED
    BY <1>1, <1>8

\* The queues of the gateway are sequences of messages of the wire.
LEMMA WireTypes ==
    ASSUME TypeOK
    PROVE  /\ pending \in Seq(Conns)
           /\ down \in Seq(Wired) /\ sent \in Seq(Wired) /\ hi \in Seq(Wired)
           /\ Wire \in Seq(Wired)
<1>1. down \in Seq(Event) /\ sent \in Seq(Msg) /\ hi \in Seq(Msg) /\ pending \in Seq(Conns)
    BY DEF TypeOK
<1>2. down \in Seq(Wired) /\ sent \in Seq(Wired) /\ hi \in Seq(Wired)
    BY <1>1 DEF Wired
<1> QED
    BY <1>1, <1>2, WireIs DEF Wire

\* Every step keeps wire and FIFO in one order.
LEMMA PairedKept == TypeOK /\ LoopInv /\ Paired /\ [Next]_vars => Paired'
<1> SUFFICES ASSUME TypeOK, LoopInv, Paired, [Next]_vars, ~shifted'
             PROVE  /\ link' = "up" => Follows(pending', Wire', TRUE)
                    /\ link' # "up" => Follows(pending', down', FALSE)
    BY DEF Paired
<1> DEFINE Goal == /\ link' = "up" => Follows(pending', Wire', TRUE)
                   /\ link' # "up" => Follows(pending', down', FALSE)
<1>0. /\ pending \in Seq(Conns)
      /\ down \in Seq(Wired) /\ sent \in Seq(Wired) /\ hi \in Seq(Wired) /\ Wire \in Seq(Wired)
    BY WireTypes
<1>1. CASE UNCHANGED vars
    <2>1. shifted' = shifted /\ pending' = pending /\ down' = down /\ link' = link /\ sent' = sent /\ hi' = hi
        BY <1>1 DEF vars
    <2> QED
        BY <2>1 DEF Paired, Wire
<1>2. CASE Connect
    <2>1. pending' = <<>> /\ link' = "up" /\ Wire' = <<>> \o <<>> \o hi
        BY <1>2 DEF Connect, LoopInv, Wire
    <2>2. <<>> \o <<>> \o hi = hi
        BY <1>0
    <2>3. \A j \in DOMAIN hi : ~Waits(hi[j])
        BY <1>2 DEF Connect, LoopInv, Waits, Tracked
    <2>4. Follows(<<>>, hi, TRUE)
        BY <1>0, <2>3, NoneFollows
    <2> QED
        BY <2>1, <2>2, <2>4
<1>3. CASE Join \/ Notify \/ SeeDisconnected
    <2>1. shifted' = shifted /\ pending' = pending /\ down' = down /\ link' = link /\ sent' = sent /\ hi' = hi
        BY <1>3 DEF Join, Notify, SeeDisconnected
    <2> QED
        BY <2>1 DEF Paired, Wire
<1>4. CASE reset_remote
    <2>1. pending' = <<>> /\ link' = "none" /\ down' = <<>>
        BY <1>4 DEF reset_remote
    <2>2. <<>> \in Seq(Wired) /\ \A j \in DOMAIN <<>> : ~Waits(<<>>[j])
        OBVIOUS
    <2>3. Follows(<<>>, <<>>, FALSE)
        BY <2>2, NoneFollows
    <2> QED
        BY <2>1, <2>3
<1>5. CASE Drain
    <2>1. shifted' = shifted /\ pending' = pending /\ down' = down /\ link' = link /\ link = "none"
        BY <1>5 DEF Drain, LoopInv
    <2> QED
        BY <2>1 DEF Paired
<1>6. CASE SendUp
    <2>1. shifted' = shifted /\ pending' = pending /\ down' = down /\ link' = link /\ hi # <<>> /\ hi' = Tail(hi)
        BY <1>6 DEF SendUp
    <2>2. CASE link = "up"
        <3>1. Wire' = down \o Append(sent, Head(hi)) \o Tail(hi)
            BY <1>6, <2>1, <2>2 DEF SendUp, Wire
        <3>2. Follows(pending, down \o sent \o hi, TRUE)
            BY <2>1, <2>2 DEF Paired, Wire
        <3>3. Follows(pending, down \o Append(sent, Head(hi)) \o Tail(hi), TRUE)
            BY <1>0, <2>1, <3>2, SendFollows
        <3> QED
            BY <2>1, <2>2, <3>1, <3>3
    <2>3. CASE link # "up"
        BY <2>1, <2>3 DEF Paired
    <2> QED
        BY <2>2, <2>3
<1>7. CASE Receive
    <2>1. PICK d \in Seq(Wired), s \in Seq(Wired), h \in Seq(Wired), p \in Seq(Conns) :
            d = down /\ s = sent /\ h = hi /\ p = pending
        BY <1>0
    <2>2. d # <<>> /\ down' = Tail(d) /\ sent' = s /\ hi' = h /\ link' = link
        BY <1>7, <2>1, ReceiveDoes
    <2>3. ~shifted /\ Head(d).kind # "error"
        BY <1>7, <2>1, ReceiveDoes
    <2>4. Head(d) \in Event
        BY <2>1, <2>2 DEF TypeOK
    <2>5. Head(d).kind \in {"answer", "broadcast"} /\ (Waits(Head(d)) <=> Head(d).kind = "answer")
        BY <2>3, <2>4, MessagesAre DEF Event
    <2>6. Head(d).kind = "broadcast" => pending' = p
        BY <1>7, <2>1, ReceiveDoes
    <2>7. Head(d).kind = "answer" /\ p # <<>> => pending' = Tail(p)
        BY <1>7, <2>1, ReceiveDoes
    <2>8. CASE link = "up"
        <3>1. Follows(p, d \o s \o h, TRUE)
            BY <2>1, <2>3, <2>8 DEF Paired, Wire
        <3>2. /\ ~Waits(Head(d)) => Follows(p, Tail(d) \o s \o h, TRUE)
              /\ Waits(Head(d)) => p # <<>> /\ Follows(Tail(p), Tail(d) \o s \o h, TRUE)
            BY <2>2, <3>1, HeadFollows
        <3>3. Wire' = Tail(d) \o s \o h
            BY <2>2 DEF Wire
        <3> QED
            BY <2>2, <2>5, <2>6, <2>7, <2>8, <3>2, <3>3
    <2>9. CASE link # "up"
        <3>1. Follows(p, d, FALSE)
            BY <2>1, <2>3, <2>9 DEF Paired
        <3>2. d \o <<>> \o <<>> = d /\ Tail(d) \o <<>> \o <<>> = Tail(d) /\ <<>> \in Seq(Wired)
            BY <2>2
        <3>3. /\ ~Waits(Head(d)) => Follows(p, Tail(d) \o <<>> \o <<>>, FALSE)
              /\ Waits(Head(d)) => p # <<>> /\ Follows(Tail(p), Tail(d) \o <<>> \o <<>>, FALSE)
            <4>1. Follows(p, d \o <<>> \o <<>>, FALSE) /\ FALSE \in BOOLEAN
                BY <3>1, <3>2
            <4> QED
                BY <2>2, <3>2, <4>1, HeadFollows, Zenon
        <3> QED
            BY <2>2, <2>5, <2>6, <2>7, <2>9, <3>2, <3>3
    <2> QED
        BY <2>8, <2>9
<1>8. CASE Lagged
    BY <1>8 DEF Lagged
<1>9. ASSUME NEW c \in Conns, ReportGone(c) PROVE Goal
    <2>1. shifted' = shifted /\ pending' = pending /\ down' = down /\ link' = link /\ sent' = sent
          /\ (hi' = hi \/ hi' = Append(hi, DownstreamGone(c)))
        BY <1>9 DEF ReportGone
    <2>2. CASE link # "up" \/ hi' = hi
        BY <2>1, <2>2 DEF Paired, Wire
    <2>3. CASE link = "up" /\ hi' = Append(hi, DownstreamGone(c))
        <3>1. DownstreamGone(c) \in Wired /\ ~Waits(DownstreamGone(c))
            BY MessagesAre DEF Wired
        <3>2. Wire' = Append(Wire, DownstreamGone(c))
            BY <1>0, <2>1, <2>3, <3>1, PushGrows DEF Wire
        <3>3. Follows(pending, Wire, TRUE)
            BY <2>1, <2>3 DEF Paired
        <3>4. Follows(pending, Append(Wire, DownstreamGone(c)), TRUE)
            BY <1>0, <3>1, <3>3, OthersGrow
        <3> QED
            BY <2>1, <2>3, <3>2, <3>4
    <2> QED
        BY <2>1, <2>2, <2>3
<1>10. ASSUME NEW c \in Conns, remove_conn(c) \/ Accept(c) \/ ConnEnds(c) PROVE Goal
    <2>1. shifted' = shifted /\ pending' = pending /\ down' = down /\ link' = link /\ sent' = sent /\ hi' = hi
        BY <1>10 DEF remove_conn, Accept, ConnEnds, SlotsKept
    <2> QED
        BY <2>1 DEF Paired, Wire
<1>11. ASSUME NEW c \in Conns, NEW k \in Kinds, upstream(c, k) PROVE Goal
    <2>1. shifted' = shifted /\ down' = down /\ link' = link /\ sent' = sent
        BY <1>11 DEF upstream
    <2>2. PICK m \in Wired : m = [kind |-> k, conn |-> c] /\ m.conn = c /\ (Waits(m) <=> k \in Tracked)
        <3>1. [kind |-> k, conn |-> c] \in Wired /\ (Waits([kind |-> k, conn |-> c]) <=> k \in Tracked)
            BY MessagesAre DEF Wired
        <3>2. [kind |-> k, conn |-> c].conn = c
            OBVIOUS
        <3> QED
            BY <3>1, <3>2, Zenon
    <2>3. CASE ~joined
        <3>1. pending' = pending /\ hi' = hi
            BY <1>11, <2>3 DEF upstream, TakesSlot
        <3> QED
            BY <2>1, <3>1 DEF Paired, Wire
    <2>4. CASE joined /\ k \in Tracked
        <3>1. pending' = Append(pending, c) /\ hi' = Append(hi, m)
            BY <1>11, <2>2, <2>4 DEF upstream, TakesSlot
        <3>2. CASE link = "up"
            <4>1. Wire' = Append(Wire, m)
                BY <1>0, <2>1, <3>1, PushGrows DEF Wire
            <4>2. Follows(pending, Wire, TRUE)
                BY <2>1, <3>2 DEF Paired
            <4>3. Follows(Append(pending, c), Append(Wire, m), TRUE)
                BY <1>0, <2>2, <2>4, <4>2, BothGrow
            <4> QED
                BY <2>1, <3>1, <3>2, <4>1, <4>3
        <3>3. CASE link # "up"
            <4>1. Follows(pending, down, FALSE)
                BY <2>1, <3>3 DEF Paired
            <4>2. Follows(Append(pending, c), down, FALSE)
                BY <1>0, <4>1, SlotGrows
            <4> QED
                BY <2>1, <3>1, <3>3, <4>2
        <3> QED
            BY <3>2, <3>3
    <2>5. CASE joined /\ k \notin Tracked
        <3>1. pending' = pending /\ hi' = Append(hi, m)
            BY <1>11, <2>2, <2>5 DEF upstream, TakesSlot
        <3>2. CASE link = "up"
            <4>1. Wire' = Append(Wire, m)
                BY <1>0, <2>1, <3>1, PushGrows DEF Wire
            <4>2. Follows(pending, Wire, TRUE)
                BY <2>1, <3>2 DEF Paired
            <4>3. Follows(pending, Append(Wire, m), TRUE)
                BY <1>0, <2>2, <2>5, <4>2, OthersGrow
            <4> QED
                BY <2>1, <3>1, <3>2, <4>1, <4>3
        <3>3. CASE link # "up"
            BY <2>1, <3>1, <3>3 DEF Paired
        <3> QED
            BY <3>2, <3>3
    <2> QED
        BY <2>3, <2>4, <2>5
<1>12. CASE handle_sfu_message
    <2>1. shifted' = shifted /\ pending' = pending /\ link' = link /\ link = "up" /\ hi' = hi
          /\ sent # <<>> /\ sent' = Tail(sent)
        BY <1>12 DEF handle_sfu_message
    <2>2. Follows(pending, down \o sent \o hi, TRUE)
        BY <2>1 DEF Paired, Wire
    <2>3. PICK m \in Msg : m = Head(sent)
        BY <2>1 DEF TypeOK
    <2>4. CASE m.kind = "gone"
        <3>1. down' = down
            BY <1>12, <2>3, <2>4 DEF handle_sfu_message
        <3>2. ~Waits(Head(sent))
            BY <2>3, <2>4, MessagesAre DEF Waits, Tracked
        <3>3. Follows(pending, down \o Tail(sent) \o hi, TRUE)
            BY <1>0, <2>1, <2>2, <3>2, ServedFollows
        <3> QED
            BY <2>1, <3>1, <3>3 DEF Wire
    <2>5. CASE m.kind # "gone"
        <3>1. PICK e \in Answer(m) : down' = Append(down, e)
            BY <1>12, <2>3, <2>5 DEF handle_sfu_message
        <3>2. e \in Wired /\ e.conn = Head(sent).conn /\ (Waits(e) = Waits(Head(sent)))
            BY <2>3, <2>5, MessagesAre DEF Wired, Waits
        <3>3. Follows(pending, Append(down, e) \o Tail(sent) \o hi, TRUE)
            BY <1>0, <2>1, <2>2, <3>2, AnswerFollows
        <3> QED
            BY <2>1, <3>1, <3>3 DEF Wire
    <2> QED
        BY <2>4, <2>5
<1>13. CASE LinkDrops
    <2>1. shifted' = shifted /\ pending' = pending /\ link = "up" /\ link' # "up"
        BY <1>13 DEF LinkDrops
    <2>2. PICK n \in 0..Len(down) : down' = SubSeq(down, 1, n)
        BY <1>13 DEF LinkDrops
    <2>3. Follows(pending, down \o sent \o hi, TRUE)
        BY <2>1 DEF Paired, Wire
    <2>4. Follows(pending, SubSeq(down, 1, n), FALSE)
        BY <1>0, <2>3, LossFollows
    <2> QED
        BY <2>1, <2>2, <2>4
<1>14. CASE WriteFails
    <2>1. shifted' = shifted /\ pending' = pending /\ link = "up" /\ link' # "up" /\ down' = down
        BY <1>14 DEF WriteFails
    <2>2. Follows(pending, down \o sent \o hi, TRUE)
        BY <2>1 DEF Paired, Wire
    <2>3. 0 \in 0..Len(down)
        BY <1>0
    <2>4. Follows(pending, down, FALSE)
        BY <1>0, <2>2, <2>3, LossFollows
    <2> QED
        BY <2>1, <2>4
<1> HIDE DEF Goal
<1> QED
    BY <1>1, <1>2, <1>3, <1>4, <1>5, <1>6, <1>7, <1>8, <1>9, <1>10, <1>11, <1>12, <1>13, <1>14, NextCases
       DEF Goal

\* An answer is handed to the child whose request it answers.
LEMMA PairingKept ==
    TypeOK /\ Paired /\ PairedUntilShifted /\ [Next]_vars => PairedUntilShifted'
<1> SUFFICES ASSUME TypeOK, Paired, PairedUntilShifted, [Next]_vars PROVE PairedUntilShifted'
    OBVIOUS
<1>1. CASE got' = got /\ (shifted' = shifted \/ shifted' = TRUE)
    BY <1>1 DEF PairedUntilShifted
<1>2. CASE reset_remote
    BY <1>2 DEF reset_remote, PairedUntilShifted
<1>3. CASE Receive
    <2>0. ASSUME shifted' PROVE PairedUntilShifted'
        BY <2>0 DEF PairedUntilShifted
    <2> SUFFICES ASSUME ~shifted' PROVE PairedUntilShifted'
        BY <2>0
    <2>1. /\ pending \in Seq(Conns)
          /\ down \in Seq(Wired) /\ sent \in Seq(Wired) /\ hi \in Seq(Wired) /\ Wire \in Seq(Wired)
        BY WireTypes
    <2>2. ~shifted /\ Head(down).kind # "error" /\ down # <<>>
        BY <1>3, ReceiveDoes
    <2>3. Head(down) \in Event
        BY <2>2 DEF TypeOK
    <2>4. CASE got' = got
        BY <2>2, <2>4 DEF PairedUntilShifted
    <2>5. CASE Head(down).kind # "broadcast" /\ got' = [got EXCEPT ![Head(pending)] = @ \cup {Head(down).conn}]
        <3>1. Waits(Head(down))
            BY <2>2, <2>3, <2>5, MessagesAre DEF Event
        <3>2. Head(pending) = Head(down).conn
            <4>1. CASE link = "up"
                <5>1. Follows(pending, down \o sent \o hi, TRUE) /\ TRUE \in BOOLEAN
                    BY <2>2, <4>1 DEF Paired, Wire
                <5> QED
                    BY <2>1, <2>2, <3>1, <5>1, HeadFollows, Zenon
            <4>2. CASE link # "up"
                <5>1. Follows(pending, down, FALSE)
                    BY <2>2, <4>2 DEF Paired
                <5>2. <<>> \in Seq(Wired) /\ FALSE \in BOOLEAN /\ down \o <<>> \o <<>> = down
                    BY <2>1
                <5>3. Follows(pending, down \o <<>> \o <<>>, FALSE)
                    BY <5>1, <5>2
                <5> QED
                    BY <2>1, <2>2, <3>1, <5>2, <5>3, HeadFollows, Zenon
            <4> QED
                BY <4>1, <4>2
        <3>3. PICK to : to = Head(pending) /\ got' = [got EXCEPT ![to] = @ \cup {to}]
            BY <2>5, <3>2
        <3>4. \A c \in Conns : got[c] \subseteq {c}
            BY <2>2 DEF PairedUntilShifted
        <3>5. \A c \in Conns : got'[c] \subseteq {c}
            BY <3>3, <3>4 DEF TypeOK
        <3> QED
            BY <3>5 DEF PairedUntilShifted
    <2> QED
        BY <1>3, <2>4, <2>5, ReceiveDoes, Zenon
<1>4. CASE ~Receive /\ ~reset_remote
    <2>1. got' = got
        BY <1>4, NextCases
           DEF vars, Connect, Join, Notify, Drain, SendUp, Lagged, SeeDisconnected, ReportGone, remove_conn,
               Accept, ConnEnds, upstream, handle_sfu_message, LinkDrops, WriteFails
    <2>2. shifted' = shifted \/ shifted' = TRUE
        BY <1>4, NextCases
           DEF vars, Connect, Join, Notify, Drain, SendUp, Lagged, SeeDisconnected, ReportGone, remove_conn,
               Accept, ConnEnds, upstream, handle_sfu_message, LinkDrops, WriteFails
    <2> QED
        BY <1>1, <2>1, <2>2
<1> QED
    BY <1>2, <1>3, <1>4

-----------------------------------------------------------------------------
(* What children wait for. *)

\* A set that can be numbered by another is no larger.
LEMMA FitsInto ==
    ASSUME NEW A, NEW B, IsFiniteSet(B), NEW f \in [A -> B], \A a, b \in A : f[a] = f[b] => a = b
    PROVE  IsFiniteSet(A) /\ Cardinality(A) <= Cardinality(B) /\ Cardinality(A) \in Nat /\ Cardinality(B) \in Nat
<1>1. f \in Injection(A, B)
    BY DEF Injection, IsInjective
<1>2. IsFiniteSet(A) /\ Cardinality(A) <= Cardinality(B)
    BY <1>1, FS_Injection
<1> QED
    BY <1>2, FS_CardinalityType

\* The places of a sequence are finitely many.
LEMMA PlacesFinite ==
    ASSUME NEW S, NEW q \in Seq(S), NEW T \in SUBSET (DOMAIN q)
    PROVE  IsFiniteSet(T) /\ Cardinality(T) \in Nat
<1>1. DOMAIN q = 1 .. Len(q) /\ Len(q) \in Int /\ 1 \in Int
    OBVIOUS
<1>2. IsFiniteSet(DOMAIN q)
    BY <1>1, FS_Interval
<1> QED
    BY <1>2, FS_Subset, FS_CardinalityType

\* A request adds one slot of its sender.
LEMMA SlotAdded ==
    ASSUME NEW p \in Seq(Conns), NEW c \in Conns, NEW e \in Conns
    PROVE  /\ Cardinality(Slots(p, e)) \in Nat /\ Cardinality(Slots(Append(p, c), e)) \in Nat
           /\ Cardinality(Slots(p, e)) <= Cardinality(Slots(Append(p, c), e))
           /\ e = c => Cardinality(Slots(Append(p, c), e)) = Cardinality(Slots(p, e)) + 1
<1>1. IsFiniteSet(Slots(p, e)) /\ Cardinality(Slots(p, e)) \in Nat
    BY PlacesFinite DEF Slots
<1>2. PICK q \in Seq(Conns) : q = Append(p, c) /\ DOMAIN q = 1 .. Len(p) + 1 /\ q[Len(p) + 1] = c
                              /\ DOMAIN p = 1 .. Len(p) /\ Len(p) \in Nat
                              /\ \A i \in DOMAIN p : q[i] = p[i] /\ i \in DOMAIN q
    <2>1. /\ Append(p, c) \in Seq(Conns) /\ DOMAIN Append(p, c) = 1 .. Len(p) + 1 /\ Append(p, c)[Len(p) + 1] = c
          /\ DOMAIN p = 1 .. Len(p) /\ Len(p) \in Nat
          /\ \A i \in DOMAIN p : Append(p, c)[i] = p[i] /\ i \in DOMAIN Append(p, c)
        OBVIOUS
    <2> QED
        BY <2>1
<1>3. IsFiniteSet(Slots(q, e)) /\ Cardinality(Slots(q, e)) \in Nat
    BY PlacesFinite DEF Slots
<1>4. Slots(p, e) \in SUBSET Slots(q, e)
    BY <1>2 DEF Slots
<1>5. Cardinality(Slots(p, e)) <= Cardinality(Slots(q, e))
    BY <1>3, <1>4, FS_Subset
<1>6. ASSUME e = c PROVE Cardinality(Slots(q, e)) = Cardinality(Slots(p, e)) + 1
    <2>1. PICK n : n = Len(p) + 1
        OBVIOUS
    <2>2. n \notin Slots(p, e)
        BY <1>2, <2>1 DEF Slots
    <2>3. Slots(q, e) = Slots(p, e) \cup {n}
        BY <1>2, <1>6, <2>1 DEF Slots
    <2> QED
        BY <1>1, <2>2, <2>3, FS_AddElement
<1> QED
    BY <1>1, <1>2, <1>3, <1>5, <1>6

\* An answer handed out takes one slot, that of the child it is handed to.
LEMMA SlotTaken ==
    ASSUME NEW p \in Seq(Conns), p # <<>>, NEW e \in Conns
    PROVE  /\ Cardinality(Slots(p, e)) \in Nat /\ Cardinality(Slots(Tail(p), e)) \in Nat
           /\ Cardinality(Slots(p, e)) <= Cardinality(Slots(Tail(p), e)) + 1
           /\ e # Head(p) => Cardinality(Slots(p, e)) <= Cardinality(Slots(Tail(p), e))
<1>1. PICK q \in Seq(Conns) : q = Tail(p) /\ DOMAIN q = 1 .. Len(p) - 1 /\ Head(p) = p[1]
                              /\ DOMAIN p = 1 .. Len(p) /\ Len(p) \in Nat
                              /\ \A i \in DOMAIN q : q[i] = p[i + 1]
    <2>1. /\ Tail(p) \in Seq(Conns) /\ DOMAIN Tail(p) = 1 .. Len(p) - 1 /\ Head(p) = p[1]
          /\ DOMAIN p = 1 .. Len(p) /\ Len(p) \in Nat
          /\ \A i \in DOMAIN Tail(p) : Tail(p)[i] = p[i + 1]
        OBVIOUS
    <2> QED
        BY <2>1
<1>2. /\ IsFiniteSet(Slots(p, e)) /\ Cardinality(Slots(p, e)) \in Nat
      /\ IsFiniteSet(Slots(q, e)) /\ Cardinality(Slots(q, e)) \in Nat
    BY PlacesFinite DEF Slots
<1>3. PICK A : A = Slots(p, e) \ {1}
    OBVIOUS
<1>4. PICK f : f = [i \in A |-> i - 1]
    OBVIOUS
<1>5. \A i \in A : f[i] = i - 1 /\ i \in Nat /\ i > 1 /\ i <= Len(p) /\ p[i] = e
    BY <1>1, <1>3, <1>4 DEF Slots
<1>6. \A i \in A : f[i] \in Slots(q, e)
    <2>1. ASSUME NEW i \in A PROVE f[i] \in Slots(q, e)
        <3>1. PICK k \in Nat : k = i - 1 /\ k \in DOMAIN q /\ k + 1 = i
            <4>1. i - 1 \in Nat /\ i - 1 \in DOMAIN q /\ (i - 1) + 1 = i
                BY <1>1, <1>5
            <4> QED
                BY <4>1
        <3>2. q[k] = e
            BY <1>1, <1>5, <3>1
        <3> QED
            BY <1>5, <3>1, <3>2 DEF Slots
    <2> QED
        BY <2>1
<1>7. f \in [A -> Slots(q, e)]
    BY <1>4, <1>6
<1>8. \A a, b \in A : f[a] = f[b] => a = b
    BY <1>5
<1>9. Cardinality(A) <= Cardinality(Slots(q, e)) /\ Cardinality(A) \in Nat
    BY <1>2, <1>7, <1>8, FitsInto
<1>10. Cardinality(A) = IF 1 \in Slots(p, e) THEN Cardinality(Slots(p, e)) - 1 ELSE Cardinality(Slots(p, e))
    BY <1>2, <1>3, FS_RemoveElement
<1>11. e # Head(p) => 1 \notin Slots(p, e)
    BY <1>1 DEF Slots
<1> QED
    BY <1>1, <1>2, <1>9, <1>10, <1>11

\* A child waits for no more than it has asked, and, once told of a new session,
\* for no more than it has slots.
LEMMA OwedKept == TypeOK /\ LoopInv /\ OwedInv /\ [Next]_vars => OwedInv'
<1> SUFFICES ASSUME TypeOK, LoopInv, OwedInv, [Next]_vars PROVE OwedInv'
    OBVIOUS
<1>0. /\ pending \in Seq(Conns) /\ nreq \in [Conns -> 0..MaxReq] /\ owed \in [Conns -> 0..MaxReq]
      /\ \A c \in Conns : nreq[c] \in Nat /\ owed[c] \in Nat
    BY GatewayAssumption DEF TypeOK
<1>1. CASE UNCHANGED <<conn, nreq, owed, again, pending>>
           /\ (phase' = phase \/ (phase = "serve" /\ phase' = "ended") \/ phase' \in {"drain", "notify"})
    BY <1>1 DEF OwedInv
<1>2. CASE UNCHANGED vars \/ SendUp \/ Lagged \/ SeeDisconnected \/ handle_sfu_message \/ LinkDrops \/ WriteFails
    <2>1. UNCHANGED <<conn, nreq, owed, again, pending>>
        BY <1>2 DEF vars, SendUp, Lagged, SeeDisconnected, handle_sfu_message, LinkDrops, WriteFails
    <2>2. phase' = phase \/ (phase = "serve" /\ phase' = "ended")
        BY <1>2 DEF vars, SendUp, Lagged, SeeDisconnected, handle_sfu_message, LinkDrops, WriteFails
    <2> QED
        BY <1>1, <2>1, <2>2
<1>3. CASE Connect
    BY <1>3 DEF Connect, OwedInv
<1>4. CASE Join
    <2>1. \A c \in Conns : Cardinality(Slots(pending, c)) \in Nat
        BY <1>0, PlacesFinite DEF Slots
    <2>2. UNCHANGED <<conn, nreq, owed, again, pending>> /\ phase = "joining" /\ phase' \in {"notify", "serve"}
          /\ (again => phase' = "notify")
        BY <1>4 DEF Join, TypeOK
    <2> QED
        BY <1>0, <2>1, <2>2 DEF OwedInv
<1>5. CASE Notify
    <2>1. \A c \in Conns : Cardinality(Slots(pending, c)) \in Nat
        BY <1>0, PlacesFinite DEF Slots
    <2>2. UNCHANGED <<conn, nreq, again, pending>> /\ phase' = "serve"
        BY <1>5 DEF Notify
    <2>3. \A c \in Conns : owed'[c] = Notified(c)
        BY <1>5 DEF Notify
    <2>4. \A c \in Conns : (owed'[c] = 0 \/ owed'[c] = owed[c]) /\ (conn[c] = "open" => owed'[c] = 0)
        BY <2>3 DEF Notified, Listed
    <2> QED
        BY <1>0, <2>1, <2>2, <2>4 DEF OwedInv
<1>6. CASE reset_remote
    BY <1>6 DEF reset_remote, OwedInv
<1>7. CASE Drain
    BY <1>7 DEF Drain, OwedInv
<1>8. CASE Receive
    <2>1. UNCHANGED <<conn, nreq, again, phase>> /\ phase = "serve"
        BY <1>8, ReceiveDoes
    <2>2. CASE pending' = pending /\ owed' = owed
        BY <1>1, <2>1, <2>2
    <2>3. CASE pending # <<>> /\ pending' = Tail(pending) /\ Listed(Head(pending))
               /\ owed' = [owed EXCEPT ![Head(pending)] = IF @ = 0 THEN 0 ELSE @ - 1]
        <3>1. PICK to \in Conns : to = Head(pending)
            BY <1>0, <2>3
        <3>2. \A c \in Conns : owed'[c] = IF c = to THEN (IF owed[c] = 0 THEN 0 ELSE owed[c] - 1) ELSE owed[c]
            BY <1>0, <2>3, <3>1
        <3>3. ASSUME NEW c \in Conns PROVE /\ owed'[c] <= nreq[c] /\ (conn[c] = "off" => owed'[c] = 0)
                                           /\ conn[c] = "open" => owed'[c] <= Cardinality(Slots(pending', c))
            <4>1. /\ Cardinality(Slots(pending, c)) \in Nat /\ Cardinality(Slots(pending', c)) \in Nat
                  /\ Cardinality(Slots(pending, c)) <= Cardinality(Slots(pending', c)) + 1
                  /\ c # to => Cardinality(Slots(pending, c)) <= Cardinality(Slots(pending', c))
                BY <1>0, <2>3, <3>1, SlotTaken
            <4>2. /\ owed[c] <= nreq[c] /\ (conn[c] = "off" => owed[c] = 0)
                  /\ conn[c] = "open" => owed[c] <= Cardinality(Slots(pending, c))
                BY <2>1 DEF OwedInv
            <4> QED
                BY <1>0, <3>2, <4>1, <4>2
        <3> QED
            BY <2>1, <3>3 DEF OwedInv
    <2>4. CASE pending # <<>> /\ pending' = Tail(pending) /\ ~Listed(Head(pending)) /\ owed' = owed
        <3>1. ASSUME NEW c \in Conns, conn[c] = "open" PROVE owed[c] <= Cardinality(Slots(pending', c))
            <4>1. c # Head(pending)
                BY <2>4, <3>1 DEF Listed
            <4>2. /\ Cardinality(Slots(pending, c)) \in Nat /\ Cardinality(Slots(pending', c)) \in Nat
                  /\ Cardinality(Slots(pending, c)) <= Cardinality(Slots(pending', c))
                BY <1>0, <2>4, <4>1, SlotTaken
            <4>3. owed[c] <= Cardinality(Slots(pending, c))
                BY <2>1, <3>1 DEF OwedInv
            <4> QED
                BY <1>0, <4>2, <4>3
        <3> QED
            BY <2>1, <2>4, <3>1 DEF OwedInv
    <2> QED
        BY <1>8, <2>2, <2>3, <2>4, ReceiveDoes, Zenon
<1>9. ASSUME NEW e \in Conns, ReportGone(e) \/ remove_conn(e) \/ Accept(e) \/ ConnEnds(e) PROVE OwedInv'
    <2>1. UNCHANGED <<nreq, owed, again, pending, phase>>
        BY <1>9 DEF ReportGone, remove_conn, Accept, ConnEnds, SlotsKept
    <2>2. conn \in [Conns -> {"off", "open", "closing", "reported", "gone"}]
        BY DEF TypeOK
    <2>3. \A c \in Conns : \/ conn'[c] = conn[c]
                           \/ conn[c] = "off" /\ conn'[c] = "open"
                           \/ conn'[c] \in {"closing", "reported", "gone"}
        BY <1>9, <2>2 DEF ReportGone, remove_conn, Accept, ConnEnds
    <2>4. \A c \in Conns : Cardinality(Slots(pending, c)) \in Nat
        BY <1>0, PlacesFinite DEF Slots
    <2>5. ASSUME NEW c \in Conns
          PROVE  /\ owed[c] <= nreq[c] /\ (conn'[c] = "off" => owed[c] = 0)
                 /\ phase \in {"serve", "ended"} /\ conn'[c] = "open" => owed[c] <= Cardinality(Slots(pending, c))
        <3>1. /\ owed[c] <= nreq[c] /\ (conn[c] = "off" => owed[c] = 0)
              /\ phase \in {"serve", "ended"} /\ conn[c] = "open" => owed[c] <= Cardinality(Slots(pending, c))
            BY DEF OwedInv
        <3>2. owed[c] \in Nat /\ Cardinality(Slots(pending, c)) \in Nat
            BY <1>0, <2>4
        <3>3. CASE conn'[c] = conn[c]
            BY <3>1, <3>3
        <3>4. CASE conn[c] = "off" /\ conn'[c] = "open"
            BY <3>1, <3>2, <3>4
        <3>5. CASE conn'[c] \in {"closing", "reported", "gone"}
            BY <3>1, <3>5
        <3> QED
            BY <2>3, <3>3, <3>4, <3>5
    <2> QED
        BY <2>1, <2>5 DEF OwedInv
<1>10. ASSUME NEW e \in Conns, NEW k \in Kinds, upstream(e, k) PROVE OwedInv'
    <2>1. UNCHANGED <<conn, again, phase>> /\ conn[e] = "open"
        BY <1>10 DEF upstream
    <2>2. \A c \in Conns : nreq'[c] = IF c = e THEN nreq[c] + 1 ELSE nreq[c]
        BY <1>0, <1>10 DEF upstream
    <2>3. CASE pending' = pending /\ owed' = owed
        <3>1. \A c \in Conns : owed[c] <= nreq'[c]
            BY <1>0, <2>2 DEF OwedInv
        <3> QED
            BY <2>1, <2>3, <3>1 DEF OwedInv
    <2>4. CASE joined /\ pending' = Append(pending, e) /\ owed' = [owed EXCEPT ![e] = @ + 1]
        <3>1. phase \notin {"connecting", "joining"}
            BY <2>4 DEF LoopInv
        <3>2. \A c \in Conns : owed'[c] = IF c = e THEN owed[c] + 1 ELSE owed[c]
            BY <1>0, <2>4
        <3>3. ASSUME NEW c \in Conns
              PROVE  /\ owed'[c] <= nreq'[c] /\ (conn[c] = "off" => owed'[c] = 0)
                     /\ phase \in {"serve", "ended"} /\ conn[c] = "open" =>
                          owed'[c] <= Cardinality(Slots(pending', c))
            <4>1. /\ Cardinality(Slots(pending, c)) \in Nat /\ Cardinality(Slots(pending', c)) \in Nat
                  /\ Cardinality(Slots(pending, c)) <= Cardinality(Slots(pending', c))
                  /\ c = e => Cardinality(Slots(pending', c)) = Cardinality(Slots(pending, c)) + 1
                BY <1>0, <2>4, SlotAdded
            <4>2. /\ owed[c] <= nreq[c] /\ (conn[c] = "off" => owed[c] = 0)
                  /\ phase \in {"serve", "ended"} /\ conn[c] = "open" =>
                       owed[c] <= Cardinality(Slots(pending, c))
                BY DEF OwedInv
            <4> QED
                BY <1>0, <2>1, <2>2, <3>2, <4>1, <4>2
        <3> QED
            BY <2>1, <3>1, <3>3 DEF OwedInv
    <2> QED
        BY <1>10, <2>3, <2>4 DEF upstream, TakesSlot
<1> HIDE DEF connVars, loopVars, linkVars, history
<1> QED
    BY <1>2, <1>3, <1>4, <1>5, <1>6, <1>7, <1>8, <1>9, <1>10, NextCases

\* The messages of c on a part of the wire, and on the wire.
Mine(s, c) == {i \in DOMAIN s : s[i].conn = c /\ s[i].kind \in Tracked \cup {"answer"}}

\* The messages of a child on the wire are those on its three parts.
LEMMA MineOnWire ==
    ASSUME NEW d \in Seq(Wired), NEW s \in Seq(Wired), NEW h \in Seq(Wired), NEW c
    PROVE  Cardinality(Mine(d \o s \o h, c)) <= Cardinality(Mine(h, c)) + Cardinality(Mine(s, c)) + Cardinality(Mine(d, c))
<1>1. PICK w : w = d \o s \o h
    OBVIOUS
<1>2. w \in Seq(Wired) /\ Len(w) = Len(d) + Len(s) + Len(h) /\ Places(w, d, s, h, Len(d), Len(s), Len(h))
    BY <1>1, WireIs, Zenon
<1>3. PICK x, y, z : x = Len(d) /\ y = Len(s) /\ z = Len(h)
    OBVIOUS
<1>4. /\ x \in Nat /\ y \in Nat /\ z \in Nat /\ DOMAIN w = 1 .. x + y + z
      /\ DOMAIN d = 1 .. x /\ DOMAIN s = 1 .. y /\ DOMAIN h = 1 .. z
    BY <1>2, <1>3
<1>5. Places(w, d, s, h, x, y, z)
    BY <1>2, <1>3
<1>6. /\ IsFiniteSet(Mine(d, c)) /\ IsFiniteSet(Mine(s, c)) /\ IsFiniteSet(Mine(h, c))
      /\ Cardinality(Mine(d, c)) \in Nat /\ Cardinality(Mine(s, c)) \in Nat /\ Cardinality(Mine(h, c)) \in Nat
    BY PlacesFinite DEF Mine
<1>7. PICK D, S, H : /\ D = {j \in Mine(w, c) : j <= x}
                     /\ S = {j \in Mine(w, c) : j > x /\ j <= x + y}
                     /\ H = {j \in Mine(w, c) : j > x + y}
    OBVIOUS
<1>8. \A j \in Mine(w, c) : j \in 1 .. x + y + z
    BY <1>4 DEF Mine
<1>9. Mine(w, c) = D \cup (S \cup H)
    BY <1>4, <1>7, <1>8
<1>10. D \in SUBSET Mine(d, c)
    BY <1>4, <1>5, <1>7, <1>8 DEF Mine, Places
<1>11. IsFiniteSet(S) /\ Cardinality(S) <= Cardinality(Mine(s, c)) /\ Cardinality(S) \in Nat
    <2>1. PICK f : f = [j \in S |-> j - x]
        OBVIOUS
    <2>2. \A j \in S : f[j] = j - x /\ j \in Nat
        BY <1>4, <1>7, <1>8, <2>1
    <2>3. ASSUME NEW j \in S PROVE f[j] \in Mine(s, c)
        <3>1. PICK k \in 1 .. y : j = x + k
            <4>1. j - x \in 1 .. y /\ j = x + (j - x)
                BY <1>4, <1>7, <1>8
            <4> QED
                BY <4>1
        <3>2. w[j] = s[k]
            BY <1>5, <3>1 DEF Places
        <3>3. k \in Mine(s, c)
            BY <1>4, <1>7, <3>2 DEF Mine
        <3>4. f[j] = k
            BY <1>4, <2>2, <3>1
        <3> QED
            BY <3>3, <3>4
    <2>4. f \in [S -> Mine(s, c)]
        BY <2>1, <2>3
    <2>5. \A a, b \in S : f[a] = f[b] => a = b
        BY <1>4, <2>2
    <2> QED
        BY <1>6, <2>4, <2>5, FitsInto
<1>12. IsFiniteSet(H) /\ Cardinality(H) <= Cardinality(Mine(h, c)) /\ Cardinality(H) \in Nat
    <2>1. PICK f : f = [j \in H |-> j - (x + y)]
        OBVIOUS
    <2>2. \A j \in H : f[j] = j - (x + y) /\ j \in Nat
        BY <1>4, <1>7, <1>8, <2>1
    <2>3. ASSUME NEW j \in H PROVE f[j] \in Mine(h, c)
        <3>1. PICK k \in 1 .. z : j = x + y + k
            <4>1. j - (x + y) \in 1 .. z /\ j = x + y + (j - (x + y))
                BY <1>4, <1>7, <1>8
            <4> QED
                BY <4>1
        <3>2. w[j] = h[k]
            BY <1>5, <3>1 DEF Places
        <3>3. k \in Mine(h, c)
            BY <1>4, <1>7, <3>2 DEF Mine
        <3>4. f[j] = k
            BY <1>4, <2>2, <3>1
        <3> QED
            BY <3>3, <3>4
    <2>4. f \in [H -> Mine(h, c)]
        BY <2>1, <2>3
    <2>5. \A a, b \in H : f[a] = f[b] => a = b
        BY <1>4, <2>2
    <2> QED
        BY <1>6, <2>4, <2>5, FitsInto
<1>13. IsFiniteSet(D) /\ Cardinality(D) <= Cardinality(Mine(d, c)) /\ Cardinality(D) \in Nat
    BY <1>6, <1>10, FS_Subset, FS_CardinalityType
<1>14. IsFiniteSet(S \cup H) /\ Cardinality(S \cup H) \in Nat /\ Cardinality(S \cup H) <= Cardinality(S) + Cardinality(H)
    <2>1. /\ IsFiniteSet(S \cup H)
          /\ Cardinality(S \cup H) = Cardinality(S) + Cardinality(H) - Cardinality(S \cap H)
        BY <1>11, <1>12, FS_Union
    <2>2. Cardinality(S \cap H) \in Nat
        BY <1>11, FS_Subset, FS_CardinalityType
    <2>3. Cardinality(S \cup H) \in Nat
        BY <2>1, FS_CardinalityType
    <2> QED
        BY <1>11, <1>12, <2>1, <2>2, <2>3
<1>15. Cardinality(D \cup (S \cup H)) <= Cardinality(D) + Cardinality(S \cup H) /\ Cardinality(D \cup (S \cup H)) \in Nat
    <2>1. /\ IsFiniteSet(D \cup (S \cup H))
          /\ Cardinality(D \cup (S \cup H)) = Cardinality(D) + Cardinality(S \cup H) - Cardinality(D \cap (S \cup H))
        BY <1>13, <1>14, FS_Union
    <2>2. Cardinality(D \cap (S \cup H)) \in Nat
        BY <1>13, FS_Subset, FS_CardinalityType
    <2>3. Cardinality(D \cup (S \cup H)) \in Nat
        BY <2>1, FS_CardinalityType
    <2> QED
        BY <1>13, <1>14, <2>1, <2>2, <2>3
<1>16. PICK a, b, e, u, m : /\ a = Cardinality(D) /\ b = Cardinality(S) /\ e = Cardinality(H)
                            /\ u = Cardinality(S \cup H) /\ m = Cardinality(D \cup (S \cup H))
    OBVIOUS
<1>17. m <= Cardinality(Mine(h, c)) + Cardinality(Mine(s, c)) + Cardinality(Mine(d, c))
    BY <1>6, <1>11, <1>12, <1>13, <1>14, <1>15, <1>16
<1> QED
    BY <1>1, <1>9, <1>16, <1>17

\* Every slot of a child stands for a message of its on the wire.
LEMMA SlotsOnWire ==
    ASSUME NEW p \in Seq(Conns), NEW w \in Seq(Wired), NEW c, Follows(p, w, TRUE)
    PROVE  Cardinality(Slots(p, c)) <= Cardinality(Mine(w, c)) /\ Cardinality(Slots(p, c)) \in Nat
           /\ Cardinality(Mine(w, c)) \in Nat
<1>1. PICK f \in [DOMAIN p -> Nat \ {0}] : Matches(f, p, w, TRUE)
    BY DEF Follows
<1>2. IsFiniteSet(Mine(w, c))
    BY PlacesFinite DEF Mine
<1>3. PICK g : g = [i \in Slots(p, c) |-> f[i]]
    OBVIOUS
<1>4. \A i \in Slots(p, c) : g[i] = f[i] /\ i \in DOMAIN p /\ p[i] = c
    BY <1>3 DEF Slots
<1>5. \A i \in Slots(p, c) : g[i] \in Mine(w, c)
    BY <1>1, <1>4 DEF Matches, Mine, Waits
<1>6. g \in [Slots(p, c) -> Mine(w, c)]
    BY <1>3, <1>5
<1>7. ASSUME NEW a \in Slots(p, c), NEW b \in Slots(p, c), g[a] = g[b] PROVE a = b
    <2>1. a \in DOMAIN p /\ b \in DOMAIN p /\ a \in Nat /\ b \in Nat /\ f[a] = f[b] /\ f[a] \in Nat
        BY <1>4, <1>7
    <2>2. ~(a < b) /\ ~(b < a)
        BY <1>1, <2>1 DEF Matches
    <2> QED
        BY <2>1, <2>2
<1> QED
    BY <1>2, <1>6, <1>7, FitsInto

\* The invariant is inductive and gives what the runs check.
LEMMA NoOrphanFromInv == GatewayInv => NoOrphanRequest
<1> SUFFICES ASSUME GatewayInv, phase = "serve", link = "up", ~shifted, NEW c \in Conns, conn[c] = "open"
             PROVE  owed[c] <= Underway(c)
    BY DEF NoOrphanRequest
<1>1. /\ pending \in Seq(Conns) /\ Wire \in Seq(Wired)
      /\ down \in Seq(Wired) /\ sent \in Seq(Wired) /\ hi \in Seq(Wired)
    BY WireTypes DEF GatewayInv
<1>2. owed[c] <= Cardinality(Slots(pending, c)) /\ owed[c] \in Nat
    BY GatewayAssumption DEF GatewayInv, OwedInv, TypeOK
<1>3. Follows(pending, Wire, TRUE)
    BY DEF GatewayInv, Paired
<1>4. /\ Cardinality(Slots(pending, c)) <= Cardinality(Mine(Wire, c))
      /\ Cardinality(Slots(pending, c)) \in Nat /\ Cardinality(Mine(Wire, c)) \in Nat
    BY <1>1, <1>3, SlotsOnWire
<1>5. Cardinality(Mine(Wire, c)) <= Cardinality(Mine(hi, c)) + Cardinality(Mine(sent, c)) + Cardinality(Mine(down, c))
    BY <1>1, MineOnWire DEF Wire
<1>6. Underway(c) = Cardinality(Mine(hi, c)) + Cardinality(Mine(sent, c)) + Cardinality(Mine(down, c))
    BY DEF Underway, Mine
<1>7. Cardinality(Mine(hi, c)) \in Nat /\ Cardinality(Mine(sent, c)) \in Nat /\ Cardinality(Mine(down, c)) \in Nat
    BY <1>1, PlacesFinite DEF Mine
<1> QED
    BY <1>2, <1>4, <1>5, <1>6, <1>7

\* The first state satisfies the invariant.
LEMMA InvInit == Init => GatewayInv
<1> SUFFICES ASSUME Init PROVE GatewayInv
    OBVIOUS
<1>1. <<>> \in Seq(Conns) /\ <<>> \in Seq(Msg) /\ <<>> \in Seq(Event) /\ <<>> \in Seq(Wired)
    OBVIOUS
<1>2. TypeOK
    <2>1. /\ conn \in [Conns -> {"off", "open", "closing", "reported", "gone"}]
          /\ produced \subseteq Conns /\ prod \subseteq Conns /\ got \in [Conns -> SUBSET Conns]
        BY DEF Init
    <2>2. nreq \in [Conns -> 0..MaxReq] /\ owed \in [Conns -> 0..MaxReq] /\ sess \in 0..MaxSess
        BY GatewayAssumption DEF Init
    <2>3. pending \in Seq(Conns) /\ hi \in Seq(Msg) /\ sent \in Seq(Msg) /\ down \in Seq(Event)
        BY <1>1 DEF Init
    <2>4. joined \in BOOLEAN /\ again \in BOOLEAN /\ shifted \in BOOLEAN
        BY DEF Init
    <2>5. /\ phase \in {"connecting", "joining", "notify", "serve", "ended", "drain"}
          /\ link \in {"none", "up", "dropped", "silent"}
        BY DEF Init
    <2> QED
        BY <2>1, <2>2, <2>3, <2>4, <2>5 DEF TypeOK
<1>3. LoopInv
    BY DEF Init, LoopInv
<1>4. \A j \in DOMAIN <<>> : ~Waits(<<>>[j])
    OBVIOUS
<1>5. Paired
    BY <1>1, <1>4, NoneFollows DEF Init, Paired
<1>6. PairedUntilShifted
    BY DEF Init, PairedUntilShifted
<1>7. OwedInv
    BY GatewayAssumption DEF Init, OwedInv
<1> QED
    BY <1>2, <1>3, <1>5, <1>6, <1>7 DEF GatewayInv

\* The inductive invariant of the gateway.
THEOREM GatewayInvariant == Spec => []GatewayInv
<1>1. GatewayInv /\ [Next]_vars => GatewayInv'
    BY TypeStep, LoopKept, PairedKept, PairingKept, OwedKept DEF GatewayInv
<1> QED
    BY InvInit, <1>1, PTL DEF Spec

\* The variables of the gateway keep their types: no counter leaves its bound.
THEOREM TypeCorrect == Spec => []TypeOK
<1>1. GatewayInv => TypeOK
    BY DEF GatewayInv
<1> QED
    BY <1>1, GatewayInvariant, PTL

\* Until its session is shifted, a child is only given answers to its own requests
\* by downstream(), for any number of children, requests and sessions.
THEOREM PairedHolds == Spec => []PairedUntilShifted
<1>1. GatewayInv => PairedUntilShifted
    BY DEF GatewayInv
<1> QED
    BY <1>1, GatewayInvariant, PTL

\* While a session works and is not shifted, what a connected child waits for is
\* under way: every request it waits for has a slot in State.pending, and every
\* slot a message on the wire.
THEOREM NoOrphanHolds == Spec => []NoOrphanRequest
BY NoOrphanFromInv, GatewayInvariant, PTL
=============================================================================
