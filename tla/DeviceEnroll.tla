---------------------------- MODULE DeviceEnroll ----------------------------
(***************************************************************************)
(* The server's connection handshake, up to the join funnel that           *)
(* SignalingSession models: the token or the psk, the RoomJoin with one of *)
(* the credential forms, and for a device key the challenge, the answer    *)
(* and the enrolment policy.  Connections run beside the admin handlers of *)
(* ServerRegistry on the same registries, and between any two of their     *)
(* steps the registry may have changed.                                    *)
(***************************************************************************)
EXTENDS ServerRegistry

CONSTANTS MaxDeferred,  \* MAX_DEFERRED_AUTH_MSGS
          MaxTokens     \* bound: tokens in circulation

ASSUME EnrollAssumption ==
  MaxDeferred \in Nat /\ MaxTokens \in Nat

VARIABLES auto,     \* allow_dev_enroll: enrol unknown devices at once
          conn,     \* connection -> its handshake
          tokens,   \* tokens in circulation: <<subject, role>>
          reported  \* history: device -> the key of its last verified report

vars == <<mem, path, tmp, data, req, gen, pending, up, fails, crashes, raced,
          crossed, unsaved, overtaken, auto, conn, tokens, reported>>
enrollVars == <<auto, conn, tokens, reported>>

Free == [pc |-> "free"]
\* A handshake: the psk is kept until its frame, the token's subject until
\* the RoomJoin.
Fresh(psk) == [pc |-> "psk", psk |-> psk, who |-> "legacy", dev |-> None,
               offered |-> None, deferred |-> 0]
\* Into the join funnel, as the token's subject, a device or nobody.
Joined(who) == [pc |-> "in", who |-> who]

EInit == /\ Init
         /\ auto \in BOOLEAN
         /\ conn = [c \in Conns |-> Free]
         /\ tokens = {}
         /\ reported = [d \in Devices |-> None]

In(c, pc) == conn[c].pc = pc
Stay == UNCHANGED <<regVars, auto, tokens, reported>>
Close(c) == conn' = [conn EXCEPT ![c] = Free]

(***************************************************************************)
(* Credentials                                                             *)
(***************************************************************************)

\* login and exchange: a token carries the role the registry has now; it
\* is not taken back when the entry changes, only by its expiry.
Login(n) ==
  /\ up /\ n \in Users \cup ApiKeys
  /\ mem[n] # None
  /\ Cardinality(tokens) < MaxTokens
  /\ tokens' = tokens \cup {<<n, mem[n][1]>>}
  /\ UNCHANGED <<regVars, auto, conn, reported>>

Expire(t) ==
  /\ tokens' = tokens \ {t}
  /\ UNCHANGED <<regVars, auto, conn, reported>>

\* Accept: the psk in effect is read once, before anything is received.
AcceptWithoutToken(c) ==
  /\ up /\ In(c, "free")
  /\ conn' = [conn EXCEPT ![c] =
       IF mem["psk"] = None THEN [Fresh(None) EXCEPT !.pc = "join"]
                            ELSE Fresh(mem["psk"])]
  /\ Stay

\* A valid account token needs no psk (an invalid or expired one, or one
\* with an unknown role, is refused and never falls back to the psk).
AcceptWithToken(c, t) ==
  /\ up /\ In(c, "free")
  /\ conn' = [conn EXCEPT ![c] =
       [Fresh(None) EXCEPT !.pc = "join", !.who = t]]
  /\ Stay

\* The first frame must be the psk read at the accept.
PskFrame(c, v) ==
  /\ In(c, "psk")
  /\ conn' = [conn EXCEPT ![c] = IF v = conn[c].psk
                                 THEN [Fresh(None) EXCEPT !.pc = "join"]
                                 ELSE Free]
  /\ Stay

\* Timeouts of the psk wait and of the join wait, and the peer leaving.
GiveUp(c) ==
  /\ conn[c].pc \in {"psk", "join"}
  /\ Close(c) /\ Stay

(***************************************************************************)
(* RoomJoin                                                                *)
(***************************************************************************)

\* No device credential: the identity of the token, or legacy.
JoinPlain(c) ==
  /\ In(c, "join")
  /\ conn' = [conn EXCEPT ![c] = Joined(conn[c].who)]
  /\ Stay

\* authenticate: the secret of a secret-form entry; all else is refused,
\* half a credential and an unknown device alike.
JoinSecret(c, d, v) ==
  /\ In(c, "join")
  /\ conn' = [conn EXCEPT ![c] =
       IF mem[d] = <<"secret", v>> THEN Joined(d) ELSE Free]
  /\ Stay

\* A key: a secret-form device is refused, any other gets a challenge; the
\* offered key only counts while the device is not registered.
JoinPubkey(c, d, vk) ==
  /\ In(c, "join")
  /\ conn' = [conn EXCEPT ![c] =
       IF mem[d] # None /\ mem[d][1] = "secret" THEN Free
       ELSE [Fresh(None) EXCEPT !.pc = "challenge", !.dev = d,
               !.offered = IF mem[d] # None THEN None ELSE vk]]
  /\ Stay

\* Anything but an answer while the challenge is out is put aside; past
\* the cap the connection is closed.
Defer(c) ==
  /\ In(c, "challenge")
  /\ IF conn[c].deferred >= MaxDeferred
     THEN Close(c)
     ELSE conn' = [conn EXCEPT ![c].deferred = @ + 1]
  /\ Stay

\* DEVICE_AUTH_TIMEOUT, or the peer leaving.
AuthTimeout(c) ==
  /\ In(c, "challenge")
  /\ Close(c) /\ Stay

\* The key an answer is checked against: the registered one wins.
CheckVk(c) ==
  LET e == mem[conn[c].dev]
  IN  IF e # None /\ e[1] = "pubkey" THEN e[2] ELSE conn[c].offered

\* The answer, signed with key k.  A device that was unknown at the
\* challenge goes through the policy gate, a registered one is in.
Answer(c, k) ==
  /\ In(c, "challenge")
  /\ conn' = [conn EXCEPT ![c] =
       IF CheckVk(c) # k THEN Free
       ELSE IF conn[c].offered = None THEN Joined(conn[c].dev)
       ELSE [conn[c] EXCEPT !.pc = IF auto THEN "enroll" ELSE "pend"]]
  /\ Stay

\* Mutant: a report that already waits is kept.
PendFirst(c) ==
  /\ In(c, "pend")
  /\ pending' = [pending EXCEPT ![conn[c].dev] =
                   IF @ = None THEN conn[c].offered ELSE @]
  /\ reported' = [reported EXCEPT ![conn[c].dev] = conn[c].offered]
  /\ Close(c)
  /\ UNCHANGED <<mem, req, gen, hist, auto, tokens, files, proc>>

\* Manual mode: the report waits for an admin and the connection ends.
Pend(c) ==
  /\ In(c, "pend")
  /\ pending' = [pending EXCEPT ![conn[c].dev] = conn[c].offered]
  /\ reported' = [reported EXCEPT ![conn[c].dev] = conn[c].offered]
  /\ overtaken' = IF \E s \in Slots : req[s] # Idle /\ req[s].op = "approve"
                                        /\ req[s].name = conn[c].dev
                  THEN overtaken \cup {conn[c].dev}
                  ELSE overtaken \ {conn[c].dev}
  /\ Close(c)
  /\ UNCHANGED <<mem, req, gen, raced, crossed, unsaved, auto, tokens, files,
                  proc>>

\* enroll_auto: a device registered meanwhile passes with the same key only.
Enroll(c) ==
  /\ In(c, "enroll")
  /\ LET d == conn[c].dev
         e == <<"pubkey", conn[c].offered>>
     IN  \/ /\ enroll_auto(d, conn[c].offered)
            /\ req' = [req EXCEPT ![c] = Request("enroll", d, e, None)]
            /\ crossed' = Crossing("devices")
            /\ conn' = [conn EXCEPT ![c].pc = "saving"]
         \/ /\ mem[d] # None
            /\ conn' = [conn EXCEPT ![c] = IF mem[d] = e THEN Joined(d)
                                           ELSE Free]
            /\ UNCHANGED <<mem, req, crossed>>
  /\ UNCHANGED <<gen, pending, raced, unsaved, overtaken, auto, tokens, reported,
                  files, proc>>

\* The save is over, whether it worked or not: a stale report is cleared.
Enrolled(c) ==
  /\ In(c, "saving") /\ At(c, "saved")
  /\ pending' = [pending EXCEPT ![conn[c].dev] = None]
  /\ req' = [req EXCEPT ![c] = Idle]
  /\ conn' = [conn EXCEPT ![c] = Joined(conn[c].dev)]
  /\ UNCHANGED <<mem, gen, auto, tokens, reported, files, proc, hist>>

Leave(c) == In(c, "in") /\ Close(c) /\ Stay

(***************************************************************************)
(* The whole                                                               *)
(***************************************************************************)
RestartAll == /\ Restart
              /\ auto' \in BOOLEAN
              /\ conn' = [c \in Conns |-> Free]
              /\ UNCHANGED <<tokens, reported>>

Secrets == 1..MaxGen

Handshake(c) ==
  \/ AcceptWithoutToken(c) \/ (\E t \in tokens : AcceptWithToken(c, t))
  \/ (\E v \in 0..MaxGen : PskFrame(c, <<"psk", v>>)) \/ GiveUp(c)
  \/ JoinPlain(c) \/ Defer(c) \/ AuthTimeout(c)
  \/ (\E d \in Devices : \/ \E v \in Secrets : JoinSecret(c, d, v)
                         \/ \E vk \in Vks : JoinPubkey(c, d, vk))
  \/ (\E k \in Vks : Answer(c, k))
  \/ Pend(c) \/ Enroll(c) \/ Enrolled(c) \/ Leave(c)

Next ==
  \/ \E s \in Slots : AdminRequest(s) /\ UNCHANGED enrollVars
  \/ \E s \in Savers : SaveStep(s) /\ UNCHANGED enrollVars
  \/ \E c \in Conns : Handshake(c)
  \/ \E n \in Users \cup ApiKeys : Login(n)
  \/ \E t \in tokens : Expire(t)
  \/ RestartAll

Spec == EInit /\ [][Next]_vars

(***************************************************************************)
(* Properties                                                              *)
(***************************************************************************)

TypeOK ==
  /\ \A n \in Names : mem[n] \in Entry \cup Keyed \cup {None}
  /\ \A f \in Files : /\ path[f] \in Inodes /\ tmp[f] \in Inodes \cup {None}
                      /\ \A i \in Inodes :
                           data[f][i] \in Text(f) \cup {Torn, Empty}
  /\ \A s \in Savers : req[s] = Idle \/ req[s].pc \in Steps
  /\ \A c \in Conns : conn[c].pc \in {"free", "in"}
       \/ /\ conn[c].pc \in {"psk", "join", "challenge", "pend", "enroll",
                             "saving"}
          /\ conn[c].deferred \in 0..MaxDeferred
  /\ pending \in [Devices -> Vks \cup {None}]
  /\ tokens \subseteq (Users \cup ApiKeys) \X Roles

(* When no request works on a registry, the file and memory agree, unless  *)
(* two requests on it overlapped (nothing covers a change and its save) or *)
(* the last save failed after a change that the handlers do not take back  *)
(* (revoke, reset, update, delete, auto-enrolment).                        *)
SettledFileIsMemory ==
  up => \A f \in Files \ (crossed \cup unsaved) :
          Quiet(f) => \A n \in NamesOf(f) : mem[n] = Disk(f)[n]

(* A registered device key is never replaced: another credential takes its *)
(* place only after it was removed (re-enrolment needs a revocation), also *)
(* across roll-backs and the races of approval and enrolment.              *)
KeyChangeNeedsRemoval ==
  [][\A d \in Devices :
       (mem[d] # None /\ mem[d][1] = "pubkey" /\ crashes' = crashes)
         => mem'[d] \in {mem[d], None}]_vars

(* The key that waits for approval is the one the device last proved to    *)
(* hold: no answer of another connection, approval or failed approval      *)
(* brings an older key back, except an approval that a new report overtook *)
(* and that puts its own report back when it fails.                        *)
PendingIsLastReport ==
  \A d \in Devices \ overtaken :
    pending[d] # None => pending[d] = reported[d]

(***************************************************************************)
(* The files implement the atomic store until saves overlap.               *)
(***************************************************************************)
Held(s) == IF req[s] # Idle /\ req[s].pc \in {"create", "write", "rename",
                                              "effect"}
           THEN <<FileOf(req[s].name), req[s].snap>> ELSE None

Store == INSTANCE AtomicStore WITH
           Writers <- Savers, Texts <- UNION {Text(f) : f \in Files},
           Nothing <- None, file <- [f \in Files |-> Disk(f)],
           held <- [s \in Savers |-> Held(s)]

(* The registries implement AtomicStore: a save is one atomic replacement  *)
(* of the file by the text its writer serialized, or nothing, until two    *)
(* saves of the file overlap.                                              *)
FilesAreAtomic == Store!Spec
=============================================================================
