-------------------------- MODULE BlockTransferProofs --------------------------
(***************************************************************************)
(* A transfer keeps its promises (BlockTransfer), for any nodes, contents, *)
(* identifiers, retransmissions, faults and agents, on a network that is   *)
(* used in an orderly way; and it implements Delivery.                     *)
(*                                                                         *)
(* None of the properties is inductive. The server judges a block by its   *)
(* number alone, and that it belongs to what is in the resource follows    *)
(* from what the sender did before: a sender that is past its first block  *)
(* has been answered by a receiver, which it has locked (Ahead, Mine).     *)
(***************************************************************************)
EXTENDS BlockTransfer, TLAPS

(* base + k in 16 bits.                                                    *)
MidAt(m, base, k) == m = base + k \/ m = base + k - MidCount

(* What a client in a request has sent, and what it has of the answer.     *)
Waits(s) ==
  /\ sending[s] \in Transfers /\ From[sending[s]] = s
  /\ block[s] <= Last[sending[s]]
  /\ result[sending[s]] = "going"
  /\ Ask(sending[s], block[s], mid[s]) \in requests
  /\ \E first \in FirstMids[s] : MidAt(mid[s], first, block[s] + 1)
  /\ phase[s] = "waiting" => retrans[s] < MaxRetransmit
  /\ phase[s] = "accepted" =>
       \E a \in answers : a.t = sending[s] /\ a.num = block[s] /\ a.code = "ok"

Sending == \A s \in Nodes : phase[s] # "idle" => Waits(s)

(* The datagrams from one client are of one transfer, the one it makes if  *)
(* it makes one, and their identifiers tell its blocks apart.              *)
Current(d) ==
  LET s == From[d.t] IN
  phase[s] # "idle" =>
    d.t = sending[s] /\ d.num <= block[s] /\ MidAt(mid[s], d.mid, block[s] - d.num)

Travelling ==
  /\ \A d, e \in requests : From[d.t] = From[e.t] => d.t = e.t
  /\ \A d \in requests : d.num <= Last[d.t] /\ result[d.t] # "new" /\ Current(d)
  /\ \A a \in answers :
       /\ \E d \in requests : d.t = a.t
       /\ a.code = "drop" => a.mid = DropMid /\ To[a.t] \cap WideInt # {}
       /\ a.code # "drop" => Ask(a.t, a.num, a.mid) \in requests

(* A receiver has taken the first block of t.                              *)
Ahead(t) ==
  /\ Last[t] > 0
  /\ \/ \E d \in requests : d.t = t /\ d.num > 0
     \/ \E a \in answers : a.t = t /\ a.code = "ok"

(* What r has locked are the first blocks of t, or the agents have deleted *)
(* it. When its empty last block has come they need not be all, but then   *)
(* none is taken any more.                                                 *)
Mine(r, t) ==
  /\ exists[r] => data[r][0] = t
  /\ \/ /\ count[r] < Last[t]
        /\ exists[r] => \A n \in 0 .. count[r] : data[r][n] = t
     \/ count[r] = Last[t] /\ t \in EmptyEnd

HeldAt(r) ==
  locked[r] =>
    /\ count[r] >= 0
    /\ exists[r] \/ r \in Deleters
    /\ \E t \in Transfers : r \in To[t] /\ Last[t] > 0 /\ Mine(r, t)
    /\ \A t \in Transfers : r \in To[t] /\ Ahead(t) => Mine(r, t)

Held == \A r \in Nodes : HeldAt(r)

VersionAt(r) ==
  exists[r] /\ ~locked[r] => \E t \in Transfers : r \in To[t] /\ Complete(r, t)

(* The answer to a last block says that the content was stored.            *)
Answered ==
  \A a \in answers :
    a.code = "ok" /\ a.num = Last[a.t] => \E r \in To[a.t] : <<a.t, r>> \in stored

IInv ==
  /\ TypeOK /\ Sending /\ Travelling
  /\ Held /\ OneVersion /\ Answered /\ SentIsStored

-----------------------------------------------------------------------------
(* Facts about the constants and the definitions.                          *)

LEMMA BlocksOf ==
  /\ Blocks \subseteq Nat
  /\ \A t \in Transfers : 0 .. Last[t] \subseteq Blocks
BY TransferAssumption DEF Blocks

LEMMA NextMidIs ==
  ASSUME NEW m \in Mids
  PROVE  NextMid(m) \in Mids /\ NextMid(m) = IF m = DropMid THEN 0 ELSE m + 1
<1>1. CASE m = DropMid
  BY <1>1, TransferAssumption DEF NextMid, Mids, DropMid
<1>2. CASE m # DropMid
  BY <1>2, TransferAssumption DEF NextMid, Mids, DropMid
<1> QED
  BY <1>1, <1>2

(* What an answer of server r says.                                        *)
AnswerOf(r, a) ==
  \E d \in requests :
    /\ r \in To[d.t] /\ a.t = d.t /\ a.num = d.num
    /\ \/ a.code = "drop" /\ a.mid = DropMid /\ r \in WideInt
       \/ a.code \in {"ok", "bad"} /\ a.mid = d.mid

(* What a server may do to the network and to clients.                     *)
Serves(r) ==
  /\ UNCHANGED <<requests, clientVars>>
  /\ answers \subseteq answers'
  /\ \A a \in answers' \ answers : AnswerOf(r, a)
  /\ answers' \subseteq [t : Transfers, num : Blocks, mid : Mids, code : {"ok", "bad", "drop"}]
  /\ phase' \in [Nodes -> {"idle", "waiting", "accepted", "refused", "timeout", "forgotten"}]
  /\ \A s \in Nodes : phase'[s] = phase[s] \/ (phase[s] = "waiting" /\ phase'[s] = "forgotten")

LEMMA ServerSends ==
  ASSUME TypeOK, NEW r \in Nodes, Server(r)
  PROVE  Serves(r)
<1>1. ASSUME NEW d \in requests, r \in To[d.t], Dropped(r, d) \/ LostPacket(r, d) \/ Refused(r, d)
      PROVE  Serves(r)
  <2>1. UNCHANGED <<requests, clientVars>> /\ Suppress(r, d)
    BY <1>1 DEF Dropped, LostPacket, Refused, clientVars
  <2>2. DropMid \in Mids
    BY TransferAssumption DEF DropMid, Mids
  <2>3. /\ phase' \in [Nodes -> {"idle", "waiting", "accepted", "refused", "timeout", "forgotten"}]
        /\ \A s \in Nodes : phase'[s] = phase[s] \/ (phase[s] = "waiting" /\ phase'[s] = "forgotten")
    BY <2>1 DEF Suppress, TypeOK
  <2>4. /\ answers \subseteq answers'
        /\ answers' \subseteq [t : Transfers, num : Blocks, mid : Mids, code : {"ok", "bad", "drop"}]
    BY <2>1, <2>2 DEF Suppress, TypeOK
  <2>5. \A a \in answers' \ answers : AnswerOf(r, a)
    BY <1>1, <2>1 DEF Suppress, AnswerOf
  <2> QED
    BY <2>1, <2>3, <2>4, <2>5 DEF Serves
<1>2. ASSUME NEW d \in requests, r \in To[d.t],
             Ignored(r, d) \/ Stored(r, d) \/ WriteFailed(r, d) \/ NoPayload(r, d)
      PROVE  Serves(r)
  <2>1. UNCHANGED <<requests, clientVars, phase>> /\ (Answer(d, "ok") \/ Answer(d, "bad"))
    BY <1>2 DEF Ignored, Stored, WriteFailed, NoPayload, FailureCode, clientVars
  <2>2. /\ answers \subseteq answers'
        /\ answers' \subseteq [t : Transfers, num : Blocks, mid : Mids, code : {"ok", "bad", "drop"}]
    BY <2>1 DEF Answer, TypeOK
  <2>3. \A a \in answers' \ answers : AnswerOf(r, a)
    BY <1>2, <2>1 DEF Answer, AnswerOf
  <2> QED
    BY <2>1, <2>2, <2>3 DEF Serves, TypeOK
<1>3. CASE OtherRequest(r) \/ Watchdog(r) \/ OwnLock(r) \/ OwnRelease(r) \/ OwnDelete(r)
  BY <1>3 DEF OtherRequest, Watchdog, OwnLock, OwnRelease, OwnDelete, clientVars, netVars,
              Serves, TypeOK
<1> QED
  BY <1>1, <1>2, <1>3 DEF Server, Handle

-----------------------------------------------------------------------------
(* Types.                                                                  *)

LEMMA TypeInit == Init => TypeOK
BY TransferAssumption, BlocksOf DEF Init, TypeOK, Mids

LEMMA GoneTyped ==
  ASSUME TypeOK, NEW r \in Nodes, Gone(r)
  PROVE  /\ exists' \in [Nodes -> BOOLEAN] /\ mutex' \in [Nodes -> BOOLEAN]
         /\ locked' \in [Nodes -> BOOLEAN]
         /\ data' \in [Nodes -> [Blocks -> Transfers \cup {NoTransfer}]]
         /\ stored' = stored
BY DEF Gone, TypeOK

LEMMA TypeStep ==
  ASSUME TypeOK, Sending, Next
  PROVE  TypeOK'
<1>1. ASSUME NEW t \in Transfers, Begin(t)
      PROVE  TypeOK'
  <2>1. From[t] \in Nodes /\ FirstMids[From[t]] \subseteq Mids /\ 0 \in Blocks
    BY TransferAssumption, BlocksOf DEF TypeOK
  <2>2. PICK first \in FirstMids[From[t]] :
          /\ mid' = [mid EXCEPT ![From[t]] = NextMid(first)]
          /\ requests' = Staying(requests, From[t]) \cup {Ask(t, 0, NextMid(first))}
    BY <1>1 DEF Begin
  <2>3. NextMid(first) \in Mids
    BY <2>1, <2>2, NextMidIs
  <2>4. requests' \subseteq [t : Transfers, num : Blocks, mid : Mids]
    BY <2>1, <2>2, <2>3 DEF TypeOK, Staying, Ask
  <2>5. answers' \subseteq [t : Transfers, num : Blocks, mid : Mids, code : {"ok", "bad", "drop"}]
    BY <1>1 DEF Begin, TypeOK, Staying
  <2>6. mid' \in [Nodes -> Mids]
    BY <2>2, <2>3 DEF TypeOK
  <2>7. /\ phase' \in [Nodes -> {"idle", "waiting", "accepted", "refused", "timeout", "forgotten"}]
        /\ sending' \in [Nodes -> Transfers \cup {NoTransfer}]
        /\ block' \in [Nodes -> Nat] /\ retrans' \in [Nodes -> 0 .. MaxRetransmit]
        /\ result' \in [Transfers -> {"new", "going", "sent", "failed"}]
        /\ \A s \in Nodes : phase'[s] # "idle" => block'[s] <= Last[sending'[s]]
    <3>1. /\ phase' \in [Nodes -> {"idle", "waiting", "accepted", "refused", "timeout", "forgotten"}]
          /\ sending' \in [Nodes -> Transfers \cup {NoTransfer}]
          /\ block' \in [Nodes -> Nat]
          /\ result' \in [Transfers -> {"new", "going", "sent", "failed"}]
      BY <1>1, <2>1 DEF Begin, TypeOK
    <3>2. retrans' \in [Nodes -> 0 .. MaxRetransmit]
      <4>1. 0 \in 0 .. MaxRetransmit
        BY TransferAssumption
      <4> QED
        BY <1>1, <4>1 DEF Begin, TypeOK
    <3>3. ASSUME NEW s \in Nodes, phase'[s] # "idle"
          PROVE  block'[s] <= Last[sending'[s]]
      <4>1. CASE s = From[t]
        <5>1. Last[t] \in Nat
          BY TransferAssumption
        <5>2. block'[s] = 0 /\ sending'[s] = t
          BY <1>1, <4>1 DEF Begin, TypeOK
        <5> QED
          BY <5>1, <5>2
      <4>2. CASE s # From[t]
        BY <1>1, <3>3, <4>2 DEF Begin, TypeOK
      <4> QED
        BY <4>1, <4>2
    <3> QED
      BY <3>1, <3>2, <3>3
  <2> QED
    BY <1>1, <2>4, <2>5, <2>6, <2>7 DEF Begin, TypeOK, serverVars
<1>2. ASSUME NEW s \in Nodes, Retransmit(s)
      PROVE  TypeOK'
  <2>1. Waits(s) /\ phase[s] = "waiting"
    BY <1>2 DEF Retransmit, Sending
  <2>2. requests' \subseteq [t : Transfers, num : Blocks, mid : Mids]
    BY <1>2, <2>1 DEF Retransmit, TypeOK, Waits
  <2>3. retrans' \in [Nodes -> 0 .. MaxRetransmit]
    BY <1>2, <2>1, TransferAssumption DEF Retransmit, TypeOK, Waits
  <2> QED
    BY <1>2, <2>2, <2>3 DEF Retransmit, TypeOK, serverVars
<1>3. ASSUME NEW s \in Nodes, NextBlock(s)
      PROVE  TypeOK'
  <2>1. sending[s] \in Transfers /\ block[s] + 1 <= Last[sending[s]] /\ NextMid(mid[s]) \in Mids
    BY <1>3, NextMidIs, TransferAssumption DEF NextBlock, Sending, Waits, TypeOK
  <2>2. block[s] + 1 \in Blocks
    <3>1. block[s] \in Nat /\ Last[sending[s]] \in Nat
      BY <2>1, TransferAssumption DEF TypeOK
    <3>2. block[s] + 1 \in 0 .. Last[sending[s]]
      BY <2>1, <3>1
    <3> QED
      BY <2>1, <3>2, BlocksOf
  <2>3. requests' \subseteq [t : Transfers, num : Blocks, mid : Mids]
    BY <1>3, <2>1, <2>2 DEF NextBlock, TypeOK, Ask
  <2>4. block' \in [Nodes -> Nat] /\ \A u \in Nodes : phase'[u] # "idle" => block'[u] <= Last[sending'[u]]
    BY <1>3, <2>1 DEF NextBlock, TypeOK
  <2> QED
    BY <1>3, <2>1, <2>3, <2>4, TransferAssumption DEF NextBlock, TypeOK, serverVars
<1>4. ASSUME NEW s \in Nodes, Succeed(s) \/ Fail(s) \/ \E a \in answers : GetAnswer(s, a)
      PROVE  TypeOK'
  <2>1. CASE \E a \in answers : GetAnswer(s, a)
    BY <2>1 DEF GetAnswer, Closes, TypeOK, netVars, clientVars, serverVars
  <2>2. ASSUME NEW outcome \in {"sent", "failed"}, phase[s] # "idle", End(s, outcome)
        PROVE  TypeOK'
    BY <2>2, TransferAssumption DEF End, Sending, Waits, TypeOK, netVars, serverVars
  <2> QED
    BY <1>4, <2>1, <2>2 DEF Succeed, Fail
<1>5. ASSUME NEW r \in Nodes, Server(r)
      PROVE  TypeOK'
  <2>1. Serves(r)
    BY <1>5, ServerSends
  <2>2. /\ exists' \in [Nodes -> BOOLEAN] /\ mutex' \in [Nodes -> BOOLEAN]
        /\ locked' \in [Nodes -> BOOLEAN] /\ count' \in [Nodes -> Nat \cup {-1}]
        /\ data' \in [Nodes -> [Blocks -> Transfers \cup {NoTransfer}]]
        /\ stored' \subseteq Transfers \X Nodes
    <3>1. ASSUME NEW d \in requests, r \in To[d.t], Handle(r, d)
          PROVE  <2>2
      <4>1. d.t \in Transfers /\ d.num \in Nat /\ d.num \in Blocks
        BY BlocksOf DEF TypeOK
      <4>2. CASE Dropped(r, d) \/ Ignored(r, d) \/ Refused(r, d) \/ NoPayload(r, d)
        BY <4>1, <4>2 DEF Dropped, Ignored, Refused, NoPayload, TypeOK, serverVars
      <4>3. CASE LostPacket(r, d) \/ WriteFailed(r, d)
        BY <4>1, <4>3, GoneTyped DEF LostPacket, WriteFailed, TypeOK
      <4>4. CASE Stored(r, d)
        <5>1. data' \in [Nodes -> [Blocks -> Transfers \cup {NoTransfer}]]
          BY <4>1, <4>4 DEF Stored, TypeOK
        <5>2. count' \in [Nodes -> Nat \cup {-1}]
          BY <4>1, <4>4 DEF Stored, CountAfter, TypeOK
        <5>3. /\ exists' \in [Nodes -> BOOLEAN] /\ mutex' \in [Nodes -> BOOLEAN]
              /\ locked' \in [Nodes -> BOOLEAN]
          <6>1. More(d) \in BOOLEAN
            BY DEF More
          <6> QED
            BY <4>4, <6>1 DEF Stored, TypeOK
        <5>4. stored' \subseteq Transfers \X Nodes
          BY <4>1, <4>4 DEF Stored, TypeOK
        <5> QED
          BY <5>1, <5>2, <5>3, <5>4
      <4> QED
        BY <3>1, <4>2, <4>3, <4>4 DEF Handle
    <3>2. CASE OtherRequest(r) \/ Watchdog(r) \/ OwnLock(r) \/ OwnRelease(r) \/ OwnDelete(r)
      <4>1. CASE Watchdog(r)
        BY <4>1, GoneTyped DEF Watchdog, TypeOK
      <4>2. CASE OwnDelete(r)
        BY <4>2 DEF OwnDelete, TypeOK
      <4>3. CASE OtherRequest(r)
        <5>1. PICK n \in OtherBlocks : count' = [count EXCEPT ![r] = n]
          BY <4>3 DEF OtherRequest
        <5>2. n \in Nat
          BY TransferAssumption
        <5> QED
          BY <4>3, <5>1, <5>2 DEF OtherRequest, TypeOK
      <4>4. CASE OwnLock(r) \/ OwnRelease(r)
        BY <4>4 DEF OwnLock, OwnRelease, TypeOK
      <4> QED
        BY <3>2, <4>1, <4>2, <4>3, <4>4
    <3> QED
      BY <1>5, <3>1, <3>2 DEF Server
  <2> QED
    BY <2>1, <2>2 DEF Serves, TypeOK, clientVars
<1> QED
  BY <1>1, <1>2, <1>3, <1>4, <1>5 DEF Next, Client

-----------------------------------------------------------------------------
(* Identifiers: a client takes no answer for the wrong block.              *)

LEMMA OwnAnswers ==
  ASSUME Orderly, TypeOK, Sending, Travelling
  PROVE  OwnAnswersOnly
<1> SUFFICES ASSUME NEW s \in Nodes, NEW a \in answers, Closes(s, a)
             PROVE  a.t = sending[s] /\ a.num = block[s] /\ a.code # "drop"
  BY DEF OwnAnswersOnly
<1>1. Waits(s) /\ From[a.t] = s /\ a.mid = mid[s] /\ phase[s] = "waiting"
  BY DEF Sending, Closes
<1>2. PICK d \in requests : d.t = a.t
  BY DEF Travelling
<1>3. d.t = sending[s] /\ a.t \in Transfers /\ block[s] \in Nat /\ mid[s] \in Mids
  BY <1>1, <1>2 DEF Travelling, Current, TypeOK
<1>4. Last[a.t] \in Nat /\ Last[a.t] < MidCount /\ MidCount \in Nat
  BY <1>3, TransferAssumption
<1>5. CASE a.code = "drop"
  <2>1. mid[s] = DropMid /\ To[a.t] \cap WideInt # {}
    BY <1>1, <1>5 DEF Travelling
  <2>2. PICK first \in FirstMids[s] : MidAt(mid[s], first, block[s] + 1)
    BY <1>1 DEF Waits
  <2>3. first \in Nat
    BY <2>2, TransferAssumption DEF Mids
  <2>4. block[s] \in 0 .. Last[a.t]
    BY <1>1, <1>2, <1>3, <1>4 DEF Waits
  <2>5. first + 1 + block[s] \notin {DropMid, DropMid + MidCount}
    BY <1>1, <1>3, <2>1, <2>2, <2>4 DEF Orderly
  <2> QED
    BY <1>3, <1>4, <2>1, <2>2, <2>3, <2>5 DEF MidAt, DropMid
<1>6. CASE a.code # "drop"
  <2>1. Ask(a.t, a.num, a.mid) \in requests
    BY <1>6 DEF Travelling
  <2>2. a.num \in Nat /\ a.num <= block[s] /\ MidAt(mid[s], a.mid, block[s] - a.num)
    <3>1. Current(Ask(a.t, a.num, a.mid))
      BY <2>1 DEF Travelling
    <3>2. a.num \in Nat
      BY BlocksOf DEF TypeOK
    <3> QED
      BY <1>1, <3>1, <3>2 DEF Current, Ask
  <2> QED
    BY <1>1, <1>2, <1>3, <1>4, <1>6, <2>2 DEF MidAt, Waits, Mids
<1> QED
  BY <1>5, <1>6

-----------------------------------------------------------------------------
(* The clients and the network.                                            *)

LEMMA NetInit == Init => Sending /\ Travelling
BY DEF Init, Sending, Travelling

(* What arrives at a client, and what a server does, leaves the others'    *)
(* transactions alone.                                                     *)
LEMMA NetServer ==
  ASSUME TypeOK, Sending, Travelling, NEW r \in Nodes, Server(r)
  PROVE  Sending' /\ Travelling'
<1>1. Serves(r)
  BY ServerSends
<1>2. UNCHANGED <<requests, sending, block, mid, retrans, result>> /\ answers \subseteq answers'
  BY <1>1 DEF Serves, clientVars
<1>3. ASSUME NEW s \in Nodes, phase'[s] # "idle"
      PROVE  Waits(s)'
  <2>1. Waits(s) /\ (phase'[s] = phase[s] \/ phase'[s] = "forgotten")
    BY <1>1, <1>3 DEF Serves, Sending
  <2> QED
    BY <1>2, <2>1 DEF Waits
<1>4. ASSUME NEW d \in requests, Current(d)
      PROVE  Current(d)'
  <2>1. From[d.t] \in Nodes
    BY TransferAssumption DEF TypeOK
  <2>2. phase'[From[d.t]] # "idle" => phase[From[d.t]] # "idle"
    BY <1>1, <2>1 DEF Serves
  <2> QED
    BY <1>2, <1>4, <2>2 DEF Current
<1>5. ASSUME NEW a \in answers'
      PROVE  /\ \E d \in requests : d.t = a.t
             /\ a.code = "drop" => a.mid = DropMid /\ To[a.t] \cap WideInt # {}
             /\ a.code # "drop" => Ask(a.t, a.num, a.mid) \in requests
  <2>1. CASE a \in answers
    BY <2>1 DEF Travelling
  <2>2. CASE a \notin answers
    <3>1. PICK d \in requests :
            /\ r \in To[d.t] /\ a.t = d.t /\ a.num = d.num
            /\ \/ a.code = "drop" /\ a.mid = DropMid /\ r \in WideInt
               \/ a.code \in {"ok", "bad"} /\ a.mid = d.mid
      BY <1>1, <2>2 DEF Serves, AnswerOf
    <3>2. d = Ask(d.t, d.num, d.mid)
      BY DEF TypeOK, Ask
    <3> QED
      BY <3>1, <3>2
  <2> QED
    BY <2>1, <2>2
<1> QED
  BY <1>2, <1>3, <1>4, <1>5 DEF Sending, Travelling

LEMMA NetBegin ==
  ASSUME Orderly, TypeOK, Sending, Travelling, NEW t \in Transfers, Begin(t)
  PROVE  Sending' /\ Travelling'
<1> DEFINE s0 == From[t]
<1>1. s0 \in Nodes /\ 0 \in Nat /\ Last[t] \in Nat
  BY TransferAssumption
<1>2. PICK first \in FirstMids[s0] :
        /\ mid' = [mid EXCEPT ![s0] = NextMid(first)]
        /\ requests' = Staying(requests, s0) \cup {Ask(t, 0, NextMid(first))}
  BY DEF Begin
<1>3. first \in Mids /\ NextMid(first) \in Mids /\ MidAt(NextMid(first), first, 1)
  <2>1. first \in Mids
    BY <1>1, <1>2, TransferAssumption
  <2> QED
    BY <2>1, NextMidIs, TransferAssumption DEF MidAt, Mids, DropMid
<1>4. \A d \in requests' : d = Ask(t, 0, NextMid(first)) \/ (d \in requests /\ From[d.t] # s0)
  BY <1>2 DEF Orderly, Staying
<1>5. \A a \in answers' : a \in answers /\ From[a.t] # s0
  BY DEF Begin, Orderly, Staying
<1>6. \A d \in requests : From[d.t] # s0 => d \in requests'
  BY <1>2 DEF Staying
<1>7. \A s \in Nodes \ {s0} :
        UNCHANGED <<phase[s], sending[s], block[s], mid[s], retrans[s]>>
  BY <1>2 DEF Begin, TypeOK
<1>8. /\ phase'[s0] = "waiting" /\ sending'[s0] = t /\ block'[s0] = 0 /\ retrans'[s0] = 0
      /\ mid'[s0] = NextMid(first) /\ result'[t] = "going"
      /\ \A u \in Transfers : u # t => result'[u] = result[u]
  BY <1>1, <1>2 DEF Begin, TypeOK
<1>9. ASSUME NEW s \in Nodes, phase'[s] # "idle"
      PROVE  Waits(s)'
  <2>1. CASE s = s0
    <3>1. MaxRetransmit > 0
      BY TransferAssumption
    <3>2. Ask(t, 0, NextMid(first)) \in requests'
      BY <1>2
    <3> QED
      BY <1>1, <1>2, <1>3, <1>8, <2>1, <3>1, <3>2 DEF Waits
  <2>2. CASE s # s0
    <3>1. Waits(s)
      BY <1>7, <1>9, <2>2 DEF Sending
    <3>2. sending[s] # t /\ result'[sending[s]] = "going"
      BY <1>8, <2>2, <3>1 DEF Waits
    <3>3. Ask(sending[s], block[s], mid[s]) \in requests'
      BY <1>6, <2>2, <3>1 DEF Waits, Ask
    <3>4. \A a \in answers : a.t = sending[s] => a \in answers'
      BY <2>2, <3>1 DEF Begin, Staying, Waits
    <3> QED
      BY <1>7, <2>2, <3>1, <3>2, <3>3, <3>4 DEF Waits
  <2> QED
    BY <2>1, <2>2
<1>10. ASSUME NEW d \in requests'
       PROVE  d.num <= Last[d.t] /\ result'[d.t] # "new" /\ Current(d)'
  <2>1. CASE d = Ask(t, 0, NextMid(first))
    <3>1. d.t = t /\ d.num = 0 /\ d.mid = NextMid(first)
      BY <2>1 DEF Ask
    <3>2. MidAt(NextMid(first), NextMid(first), 0)
      BY <1>3 DEF MidAt, Mids
    <3> QED
      BY <1>1, <1>8, <3>1, <3>2 DEF Current
  <2>2. CASE d \in requests /\ From[d.t] # s0
    <3>1. d.t \in Transfers /\ From[d.t] \in Nodes \ {s0} /\ d.t # t
      BY <2>2, TransferAssumption DEF TypeOK
    <3>2. Current(d)'
      BY <1>7, <2>2, <3>1 DEF Travelling, Current
    <3> QED
      BY <1>8, <2>2, <3>1, <3>2 DEF Travelling
  <2> QED
    BY <1>4, <2>1, <2>2
<1>11. \A d, e \in requests' : From[d.t] = From[e.t] => d.t = e.t
  BY <1>4 DEF Travelling, Ask
<1>12. ASSUME NEW a \in answers'
       PROVE  /\ \E d \in requests' : d.t = a.t
              /\ a.code = "drop" => a.mid = DropMid /\ To[a.t] \cap WideInt # {}
              /\ a.code # "drop" => Ask(a.t, a.num, a.mid) \in requests'
  BY <1>5, <1>6 DEF Travelling, Ask
<1> QED
  BY <1>9, <1>10, <1>11, <1>12 DEF Sending, Travelling

LEMMA NetNextBlock ==
  ASSUME TypeOK, Sending, Travelling, NEW s \in Nodes, NextBlock(s)
  PROVE  Sending' /\ Travelling'
<1> DEFINE t == sending[s]
           n == block[s] + 1
           m == NextMid(mid[s])
<1>1. /\ Waits(s) /\ t \in Transfers /\ From[t] = s
      /\ n \in Nat /\ n <= Last[t] /\ Last[t] \in Nat /\ Last[t] < MidCount
      /\ mid[s] \in Mids /\ m \in Mids /\ m = IF mid[s] = DropMid THEN 0 ELSE mid[s] + 1
  BY NextMidIs, TransferAssumption DEF NextBlock, Sending, Waits, TypeOK
<1>2. /\ requests' = requests \cup {Ask(t, n, m)} /\ answers' = answers
      /\ result' = result /\ sending' = sending
      /\ \A u \in Nodes \ {s} : UNCHANGED <<phase[u], block[u], mid[u], retrans[u]>>
      /\ phase'[s] = "waiting" /\ block'[s] = n /\ mid'[s] = m /\ retrans'[s] = 0
  BY <1>1 DEF NextBlock, TypeOK
<1>3. \A k \in 0 .. n - 1, b \in Mids : MidAt(mid[s], b, k) => MidAt(m, b, k + 1)
  BY <1>1, TransferAssumption DEF MidAt, Mids, DropMid
<1>4. ASSUME NEW u \in Nodes, phase'[u] # "idle"
      PROVE  Waits(u)'
  <2>1. CASE u = s
    <3>1. PICK first \in FirstMids[s] : MidAt(mid[s], first, n)
      BY <1>1 DEF Waits
    <3>2. MidAt(m, first, n + 1)
      <4>1. first \in Mids
        BY <3>1, TransferAssumption
      <4> QED
        BY <1>1, <3>1, <4>1, TransferAssumption DEF MidAt, Mids, DropMid
    <3>3. MaxRetransmit > 0
      BY TransferAssumption
    <3> QED
      BY <1>1, <1>2, <2>1, <3>2, <3>3 DEF Waits
  <2>2. CASE u # s
    BY <1>2, <1>4, <2>2 DEF Sending, Waits
  <2> QED
    BY <2>1, <2>2
<1>5. ASSUME NEW d \in requests'
      PROVE  d.num <= Last[d.t] /\ result'[d.t] # "new" /\ Current(d)'
  <2>1. CASE d \in requests /\ From[d.t] = s
    <3>1. d.t = t /\ d.num \in Nat /\ d.num <= block[s] /\ d.mid \in Mids
          /\ MidAt(mid[s], d.mid, block[s] - d.num)
      BY <2>1, BlocksOf DEF NextBlock, Travelling, Current, TypeOK
    <3>2. block[s] \in Nat
      BY DEF TypeOK
    <3>3. block[s] - d.num \in 0 .. n - 1 /\ n - d.num = (block[s] - d.num) + 1
      BY <3>1, <3>2
    <3>4. MidAt(m, d.mid, n - d.num)
      BY <1>3, <3>1, <3>3
    <3> QED
      BY <1>1, <1>2, <2>1, <3>1, <3>2, <3>4 DEF Travelling, Current
  <2>2. CASE d \in requests /\ From[d.t] # s
    <3>1. From[d.t] \in Nodes \ {s}
      BY <2>2, TransferAssumption DEF TypeOK
    <3> QED
      BY <1>2, <2>2, <3>1 DEF Travelling, Current
  <2>3. CASE d = Ask(t, n, m)
    <3>1. MidAt(m, m, n - n)
      BY <1>1 DEF MidAt, Mids
    <3> QED
      BY <1>1, <1>2, <2>3, <3>1 DEF Ask, Current, Waits
  <2> QED
    BY <1>2, <2>1, <2>2, <2>3
<1>6. \A d, e \in requests' : From[d.t] = From[e.t] => d.t = e.t
  <2>1. \A d \in requests : From[d.t] = s => d.t = t
    BY DEF NextBlock, Travelling, Current
  <2> QED
    BY <1>1, <1>2, <2>1 DEF Travelling, Ask
<1> QED
  BY <1>2, <1>4, <1>5, <1>6 DEF Sending, Travelling

LEMMA NetClient ==
  ASSUME Orderly, TypeOK, Sending, Travelling, NEW s \in Nodes, Client(s)
  PROVE  Sending' /\ Travelling'
<1>1. CASE Retransmit(s)
  <2>1. Waits(s) /\ phase[s] = "waiting"
    BY <1>1 DEF Retransmit, Sending
  <2>2. requests' = requests /\ UNCHANGED <<answers, sending, block, mid, result>>
    BY <1>1, <2>1 DEF Retransmit, Waits
  <2>3. /\ \A u \in Nodes \ {s} : UNCHANGED <<phase[u], retrans[u]>>
        /\ phase'[s] \in {"waiting", "timeout"}
        /\ phase'[s] = "waiting" => retrans'[s] < MaxRetransmit
    BY <1>1, <2>1, TransferAssumption DEF Retransmit, TypeOK
  <2>4. ASSUME NEW u \in Nodes, phase'[u] # "idle"
        PROVE  Waits(u)'
    BY <2>1, <2>2, <2>3, <2>4 DEF Sending, Waits
  <2>5. \A d \in requests : Current(d)'
    <3>1. \A u \in Nodes : phase'[u] # "idle" => phase[u] # "idle"
      BY <2>1, <2>3
    <3> QED
      BY <2>2, <3>1, TransferAssumption DEF Travelling, Current, TypeOK
  <2> QED
    BY <2>2, <2>4, <2>5 DEF Sending, Travelling
<1>2. CASE NextBlock(s)
  BY <1>2, NetNextBlock
<1>3. ASSUME NEW outcome \in {"sent", "failed"}, phase[s] # "idle", End(s, outcome)
      PROVE  Sending' /\ Travelling'
  <2>1. Waits(s)
    BY <1>3 DEF Sending
  <2>2. /\ UNCHANGED <<requests, answers, mid>>
        /\ \A u \in Nodes \ {s} : UNCHANGED <<phase[u], sending[u], block[u], retrans[u]>>
        /\ phase'[s] = "idle" /\ result'[sending[s]] = outcome
        /\ \A t \in Transfers : t # sending[s] => result'[t] = result[t]
    BY <1>3, <2>1 DEF End, TypeOK, netVars, Waits
  <2>3. ASSUME NEW u \in Nodes, phase'[u] # "idle"
        PROVE  Waits(u)'
    <3>1. u # s /\ Waits(u) /\ sending[u] # sending[s]
      BY <2>1, <2>2, <2>3 DEF Sending, Waits
    <3> QED
      BY <2>2, <3>1 DEF Waits
  <2>4. \A d \in requests : result'[d.t] # "new" /\ Current(d)'
    BY <2>2, TransferAssumption, SMTT(20) DEF Travelling, Current, TypeOK
  <2> QED
    BY <2>2, <2>3, <2>4 DEF Sending, Travelling
<1>4. ASSUME NEW a \in answers, GetAnswer(s, a)
      PROVE  Sending' /\ Travelling'
  <2>1. /\ UNCHANGED <<requests, answers, sending, block, mid, retrans, result>>
        /\ \A u \in Nodes \ {s} : phase'[u] = phase[u]
        /\ phase[s] = "waiting" /\ Closes(s, a)
        /\ phase'[s] = IF a.code = "bad" THEN "refused" ELSE "accepted"
    BY <1>4 DEF GetAnswer, Closes, TypeOK, netVars, clientVars
  <2>2. a.t = sending[s] /\ a.num = block[s] /\ (a.code = "ok" \/ a.code = "bad")
    BY <2>1, OwnAnswers DEF OwnAnswersOnly, TypeOK
  <2>3. ASSUME NEW u \in Nodes, phase'[u] # "idle"
        PROVE  Waits(u)'
    BY <2>1, <2>2, <2>3 DEF Sending, Waits
  <2>4. \A d \in requests : Current(d)'
    BY <2>1, TransferAssumption DEF Travelling, Current, TypeOK
  <2> QED
    BY <2>1, <2>3, <2>4 DEF Sending, Travelling
<1> QED
  BY <1>1, <1>2, <1>3, <1>4 DEF Client, Succeed, Fail

-----------------------------------------------------------------------------
(* The resource of a receiver.                                             *)

LEMMA HeldInit == Init => Held /\ OneVersion /\ Answered /\ SentIsStored
BY DEF Init, Held, HeldAt, OneVersion, Answered, SentIsStored

LEMMA HeldClient ==
  ASSUME IInv, Orderly, (\E t \in Transfers : Begin(t)) \/ (\E s \in Nodes : Client(s))
  PROVE  Held' /\ OneVersion' /\ Answered' /\ SentIsStored'
<1>1. UNCHANGED serverVars /\ answers' \subseteq answers
  BY DEF Begin, Staying, Client, Retransmit, GetAnswer, NextBlock, Succeed, Fail, End, netVars
<1>2. ASSUME NEW d \in requests', d.num > 0, Last[d.t] > 0
      PROVE  Ahead(d.t)
  <2>1. CASE d \in requests
    BY <1>2, <2>1 DEF Ahead
  <2>2. ASSUME NEW t \in Transfers, Begin(t)
        PROVE  d \in requests
    BY <1>2, <2>2 DEF Begin, Staying, Ask
  <2>3. ASSUME NEW s \in Nodes, Retransmit(s)
        PROVE  d \in requests
    BY <2>3 DEF Retransmit, IInv, Sending, Waits
  <2>4. ASSUME NEW s \in Nodes, NextBlock(s), d \notin requests
        PROVE  Ahead(d.t)
    <3>1. d.t = sending[s]
      BY <2>4 DEF NextBlock, Ask
    <3>2. \E a \in answers : a.t = sending[s] /\ a.code = "ok"
      BY <2>4 DEF NextBlock, IInv, Sending, Waits
    <3> QED
      BY <1>2, <3>1, <3>2 DEF Ahead
  <2>5. ASSUME NEW s \in Nodes, Succeed(s) \/ Fail(s) \/ \E a \in answers : GetAnswer(s, a)
        PROVE  d \in requests
    BY <2>5 DEF Succeed, Fail, End, GetAnswer, netVars
  <2> QED
    BY <2>1, <2>2, <2>3, <2>4, <2>5 DEF Client
<1>3. \A t \in Transfers : Ahead(t)' => Ahead(t)
  BY <1>1, <1>2 DEF Ahead
<1>4. Held' /\ OneVersion' /\ Answered'
  BY <1>1, <1>3 DEF IInv, Held, HeldAt, Mine, OneVersion, Complete, Answered, serverVars
<1>5. ASSUME NEW t \in Transfers, result'[t] = "sent"
      PROVE  \E r \in To[t] : <<t, r>> \in stored'
  <2>1. CASE result[t] = "sent"
    BY <1>1, <2>1 DEF IInv, SentIsStored, serverVars
  <2>2. CASE result[t] # "sent"
    <3>1. PICK s \in Nodes : Succeed(s) /\ t = sending[s]
      <4>1. ASSUME NEW u \in Transfers, Begin(u)
            PROVE  FALSE
        BY <1>5, <2>2, <4>1 DEF Begin, IInv, TypeOK
      <4>2. ASSUME NEW s \in Nodes, Client(s)
            PROVE  Succeed(s) /\ t = sending[s]
        BY <1>5, <2>2, <4>2 DEF Client, Retransmit, GetAnswer, NextBlock, Fail, Succeed, End,
                                clientVars, IInv, TypeOK
      <4> QED
        BY <4>1, <4>2
    <3>2. PICK a \in answers : a.t = t /\ a.num = Last[t] /\ a.code = "ok"
      BY <3>1 DEF Succeed, IInv, Sending, Waits
    <3> QED
      BY <1>1, <3>2 DEF IInv, Answered, serverVars
  <2> QED
    BY <2>1, <2>2
<1> QED
  BY <1>4, <1>5 DEF SentIsStored

(* Contents for one receiver do not mix on their way.                      *)
LEMMA Foreign ==
  ASSUME IInv, Orderly, NEW d \in requests, NEW r \in To[d.t],
         NEW t \in Transfers, r \in To[t], Ahead(t)
  PROVE  t = d.t
<1>1. PICK e \in requests : e.t = t
  BY DEF Ahead, IInv, Travelling
<1>2. d.t \in Transfers
  BY DEF IInv, TypeOK
<1> QED
  BY <1>1, <1>2 DEF Orderly, IInv, Travelling

(* A later block finds its own transfer under way.                         *)
LEMMA LaterIsMine ==
  ASSUME IInv, NEW d \in requests, NEW r \in To[d.t], d.num # 0, locked[r]
  PROVE  /\ Ahead(d.t) /\ Mine(r, d.t) /\ count[r] >= 0 /\ d.t \in Transfers
         /\ d.num \in Nat /\ d.num <= Last[d.t] /\ Last[d.t] \in Nat /\ count[r] \in Int
         /\ exists[r] \/ r \in Deleters
<1>1. d.t \in Transfers /\ d.num \in Nat /\ d.num <= Last[d.t] /\ Last[d.t] \in Nat /\ r \in Nodes
  BY BlocksOf, TransferAssumption DEF IInv, TypeOK, Travelling
<1>2. Ahead(d.t)
  BY <1>1 DEF Ahead
<1> QED
  BY <1>1, <1>2 DEF IInv, Held, HeldAt, TypeOK

(* Only the first block of a transfer, when it is stored, brings it ahead. *)
LEMMA AheadAfter ==
  ASSUME IInv, NEW r \in Nodes, Server(r), NEW t \in Transfers, Ahead(t)', ~Ahead(t)
  PROVE  \E d \in requests : d.t = t /\ r \in To[t] /\ d.num = 0 /\ Stored(r, d)
<1>1. Serves(r)
  BY ServerSends DEF IInv
<1>2. PICK a \in answers' \ answers : a.t = t /\ a.code = "ok"
  BY <1>1 DEF Ahead, Serves
<1>3. PICK d \in requests : r \in To[d.t] /\ Handle(r, d) /\ d.t = t
  <2>1. answers' # answers
    BY <1>2
  <2>2. PICK d \in requests : r \in To[d.t] /\ Handle(r, d)
    BY <2>1 DEF Server, OtherRequest, Watchdog, OwnLock, OwnRelease, OwnDelete, netVars
  <2>3. Suppress(r, d) \/ \E c \in {"ok", "bad"} : Answer(d, c)
    BY <2>2 DEF Handle, Dropped, LostPacket, Refused, Ignored, Stored, WriteFailed,
                NoPayload, FailureCode
  <2>4. CASE Suppress(r, d)
    BY <1>2, <2>4 DEF Suppress
  <2>5. CASE \E c \in {"ok", "bad"} : Answer(d, c)
    BY <1>2, <2>2, <2>5 DEF Answer
  <2> QED
    BY <2>2, <2>3, <2>4, <2>5
<1>4. d.num = 0
  <2>1. d.num \in Nat /\ Last[t] > 0 /\ ~(d.num > 0)
    BY <1>3, BlocksOf DEF Ahead, IInv, TypeOK
  <2> QED
    BY <2>1
<1>5. ~Dropped(r, d) /\ ~LostPacket(r, d) /\ ~Refused(r, d) /\ ~NoPayload(r, d)
  BY <1>2, <1>3 DEF Dropped, LostPacket, Refused, NoPayload, Suppress, Answer
<1>6. ~WriteFailed(r, d)
  <2>1. Last[t] \in Nat /\ Last[t] > 0
    BY TransferAssumption DEF Ahead
  <2>2. More(d)
    BY <1>3, <1>4, <2>1 DEF More
  <2> QED
    BY <1>2, <1>3, <2>2 DEF WriteFailed, FailureCode, Answer
<1>7. ~Ignored(r, d)
  BY <1>4 DEF Ignored, AlreadyProceeded
<1> QED
  BY <1>3, <1>4, <1>5, <1>6, <1>7 DEF Handle

(* The other receivers of a multicast have nobody else's blocks.           *)
LEMMA OthersHold ==
  ASSUME IInv, Orderly, NEW r \in Nodes, Server(r), NEW o \in Nodes, o # r
  PROVE  HeldAt(o)' /\ VersionAt(o)'
<1>1. UNCHANGED <<exists[o], locked[o], count[o], data[o]>>
  BY ZenonT(40) DEF IInv, TypeOK, Server, Handle, Dropped, LostPacket, Refused, Ignored, Stored,
         WriteFailed, NoPayload, OtherRequest, Watchdog, OwnLock, OwnRelease, OwnDelete, Gone,
         serverVars
<1>2. VersionAt(o)'
  BY <1>1, ZenonT(40) DEF IInv, OneVersion, VersionAt, Complete
<1>3. \A t \in Transfers : Mine(o, t) => Mine(o, t)'
  BY <1>1 DEF Mine
<1>4. ASSUME NEW t \in Transfers, o \in To[t], locked[o], Ahead(t)'
      PROVE  Mine(o, t)
  <2>1. CASE Ahead(t)
    BY <1>4, <2>1 DEF IInv, Held, HeldAt
  <2>2. CASE ~Ahead(t)
    <3>1. r \in To[t] /\ Last[t] > 0
      BY <1>4, <2>2, AheadAfter DEF Ahead
    <3>2. PICK u \in Transfers : o \in To[u] /\ Last[u] > 0 /\ Mine(o, u)
      BY <1>4 DEF IInv, Held, HeldAt
    <3>3. u = t
      BY <1>4, <3>1, <3>2 DEF Orderly
    <3> QED
      BY <3>2, <3>3
  <2> QED
    BY <2>1, <2>2
<1>5. HeldAt(o)'
  BY <1>1, <1>3, <1>4 DEF IInv, Held, HeldAt
<1> QED
  BY <1>2, <1>5

(* The transfer that r has taken the first block of.                       *)
LEMMA StoredHolds ==
  ASSUME IInv, Orderly, NEW r \in Nodes, NEW d \in requests, r \in To[d.t], Server(r), Stored(r, d)
  PROVE  /\ HeldAt(r)' /\ VersionAt(r)'
         /\ ~More(d) => Complete(r, d.t)' /\ <<d.t, r>> \in stored'
<1> DEFINE t == d.t
           n == d.num
<1>1. /\ t \in Transfers /\ n \in Nat /\ n \in Blocks /\ n <= Last[t] /\ Last[t] \in Nat
      /\ 0 \in Blocks /\ 0 .. Last[t] \subseteq Blocks
  <2>1. t \in Transfers /\ n \in Blocks /\ n <= Last[t]
    BY DEF IInv, TypeOK, Travelling
  <2>2. Last[t] \in Nat /\ 0 .. Last[t] \subseteq Blocks /\ n \in Nat
    BY <2>1, BlocksOf, TransferAssumption
  <2> QED
    BY <2>1, <2>2
<1>2. More(d) \in BOOLEAN
  BY DEF More
<1>3. /\ exists'[r] /\ locked'[r] = More(d) /\ count'[r] = n
      /\ data'[r] = [data[r] EXCEPT ![n] = t]
  <2>1. exists'[r] /\ count'[r] = n
    BY <1>1 DEF Stored, CountAfter, IInv, TypeOK
  <2>2. locked'[r] = More(d)
    BY <1>1, <1>2 DEF Stored, IInv, TypeOK
  <2>3. data'[r] = [data[r] EXCEPT ![n] = t]
    BY <1>1 DEF Stored, IInv, TypeOK
  <2> QED
    BY <2>1, <2>2, <2>3
<1>4. \A k \in Blocks : data'[r][k] = IF k = n THEN t ELSE data[r][k]
  BY <1>1, <1>3 DEF IInv, TypeOK
<1>5. \A k \in 0 .. n : data'[r][k] = t
  <2>1. CASE n = 0
    BY <1>1, <1>4, <2>1
  <2>2. CASE n # 0
    <3>1. locked[r] /\ exists[r] /\ ~Cancels(r, d) /\ n # count[r] /\ Payload(d)
      BY <2>2 DEF Stored, Writes, Taken
    <3>2. Mine(r, t) /\ count[r] \in Int /\ count[r] >= 0
      BY <2>2, <3>1, LaterIsMine
    <3>3. n = count[r] + 1
      BY <1>1, <2>2, <3>1, <3>2 DEF Cancels
    <3>4. \A k \in 0 .. count[r] : data[r][k] = t
      BY <1>1, <3>1, <3>2, <3>3 DEF Mine
    <3> QED
      BY <1>1, <1>4, <3>2, <3>3, <3>4
  <2> QED
    BY <2>1, <2>2
<1>6. CASE More(d)
  <2>1. n < Last[t]
    BY <1>6 DEF More
  <2>2. Mine(r, t)'
    BY <1>1, <1>3, <1>5, <2>1 DEF Mine
  <2>3. ASSUME NEW u \in Transfers, r \in To[u], Ahead(u)'
        PROVE  u = t
    <3>1. CASE Ahead(u)
      BY <2>3, <3>1, Foreign
    <3>2. CASE ~Ahead(u)
      <4>1. /\ answers' = answers \cup {[t |-> d.t, num |-> d.num, mid |-> d.mid, code |-> "ok"]}
            /\ requests' = requests
        BY DEF Stored, Answer
      <4>2. PICK a \in answers' \ answers : a.t = u
        BY <2>3, <3>2, <4>1 DEF Ahead
      <4> QED
        BY <4>1, <4>2
    <3> QED
      BY <3>1, <3>2
  <2>4. Last[t] > 0
    BY <1>1, <2>1
  <2> QED
    BY <1>1, <1>3, <1>6, <2>2, <2>3, <2>4 DEF HeldAt, VersionAt
<1>7. CASE ~More(d)
  <2>1. n = Last[t]
    BY <1>1, <1>7 DEF More
  <2>2. Complete(r, t)'
    BY <1>5, <2>1 DEF Complete
  <2>3. <<t, r>> \in stored'
    BY <1>7, <2>2 DEF Stored
  <2> QED
    BY <1>1, <1>3, <1>7, <2>2, <2>3 DEF HeldAt, VersionAt
<1> QED
  BY <1>6, <1>7

(* CREATED never hides that the last block of a POST was not written.      *)
LEMMA FailureIsBad ==
  ASSUME IInv, Orderly, NEW r \in Nodes, NEW d \in requests, r \in To[d.t], WriteFailed(r, d)
  PROVE  FailureCode(d) = "bad"
<1> SUFFICES ASSUME ~More(d), Method[d.t] = "POST"
             PROVE  FALSE
  BY DEF FailureCode
<1>1. /\ d.t \in Transfers /\ d.num \in Nat /\ d.num <= Last[d.t] /\ Last[d.t] \in Nat
  BY BlocksOf, TransferAssumption DEF IInv, TypeOK, Travelling
<1>2. d.num = Last[d.t] /\ Payload(d) /\ d.t \notin EmptyEnd
  BY <1>1 DEF More, WriteFailed, Writes, Taken, Payload
<1>3. d.t \notin Faulty /\ (Last[d.t] = 0 \/ To[d.t] \cap Deleters = {})
  BY <1>1, <1>2 DEF Orderly
<1>4. d.num # 0 /\ ~exists[r] /\ locked[r]
  BY <1>3 DEF WriteFailed, Writes
<1> QED
  BY <1>2, <1>3, <1>4, LaterIsMine

(* A handler that does not store answers no last block, and nothing that   *)
(* was not answered before, with success.                                  *)
LEMMA OnlyStoredAnswers ==
  ASSUME IInv, Orderly, NEW r \in Nodes, NEW d \in requests, r \in To[d.t],
         Handle(r, d), ~Stored(r, d)
  PROVE  \A a \in answers' \ answers : a.code = "ok" => a.num # Last[a.t] /\ Ahead(a.t)
<1>1. CASE Dropped(r, d) \/ LostPacket(r, d) \/ Refused(r, d)
  BY <1>1 DEF Dropped, LostPacket, Refused, Suppress
<1>2. CASE WriteFailed(r, d) \/ NoPayload(r, d)
  BY <1>2, FailureIsBad DEF WriteFailed, NoPayload, Answer
<1>3. CASE Ignored(r, d)
  <2>1. d.num # 0 /\ locked[r] /\ d.num = count[r] /\ Payload(d)
    BY <1>3 DEF Ignored, AlreadyProceeded, Writes, Taken
  <2>2. Ahead(d.t) /\ Mine(r, d.t) /\ Last[d.t] \in Nat
    BY <2>1, LaterIsMine
  <2>3. d.num # Last[d.t]
    BY <2>1, <2>2 DEF Mine, Payload
  <2> QED
    BY <1>3, <2>2, <2>3 DEF Ignored, Answer
<1> QED
  BY <1>1, <1>2, <1>3 DEF Handle

(* Where no transfer becomes ahead, it is enough to look at the resource.  *)
LEMMA HoldsByResource ==
  ASSUME IInv, NEW r \in Nodes, \A t \in Transfers : Ahead(t)' => Ahead(t),
         \/ ~locked'[r] /\ ~exists'[r]
         \/ UNCHANGED <<exists[r], locked[r], count[r], data[r]>>
         \/ UNCHANGED <<exists[r], locked[r], data[r]>> /\ ~locked[r]
         \/ UNCHANGED <<exists[r], locked[r], data[r]>> /\ count'[r] = 0
         \/ UNCHANGED <<locked[r], count[r]>> /\ ~exists'[r] /\ r \in Deleters
  PROVE  HeldAt(r)' /\ VersionAt(r)'
<1>1. HeldAt(r) /\ VersionAt(r)
  BY DEF IInv, Held, OneVersion, VersionAt
<1>2. \A t \in Transfers : Last[t] \in Nat
  BY TransferAssumption
<1>3. CASE UNCHANGED <<exists[r], locked[r], data[r]>> /\ count'[r] = 0
  <2>1. \A t \in Transfers : Last[t] > 0 /\ Mine(r, t) => Mine(r, t)'
    BY <1>2, <1>3 DEF Mine
  <2>2. VersionAt(r)'
    BY <1>1, <1>3 DEF VersionAt, Complete
  <2>3. HeldAt(r)'
    BY <1>1, <1>2, <1>3, <2>1 DEF HeldAt, Ahead
  <2> QED
    BY <2>2, <2>3
<1>4. CASE ~locked'[r] /\ ~exists'[r]
  BY <1>4 DEF HeldAt, VersionAt
<1>5. CASE UNCHANGED <<exists[r], locked[r], data[r]>> /\ (~locked[r] \/ count'[r] = count[r])
  BY <1>1, <1>5 DEF HeldAt, VersionAt, Mine, Complete
<1>6. CASE UNCHANGED <<locked[r], count[r]>> /\ ~exists'[r] /\ r \in Deleters
  BY <1>1, <1>6 DEF HeldAt, VersionAt, Mine
<1> QED
  BY <1>3, <1>4, <1>5, <1>6

LEMMA HandlerHolds ==
  ASSUME IInv, Orderly, NEW r \in Nodes, Server(r),
         NEW d \in requests, r \in To[d.t], Handle(r, d), ~Stored(r, d)
  PROVE  HeldAt(r)' /\ VersionAt(r)'
<1>1. requests' = requests
  BY ServerSends DEF Serves, IInv
<1>2. \A t \in Transfers : Ahead(t)' => Ahead(t)
  BY <1>1, OnlyStoredAnswers DEF Ahead
<1>3. CASE Dropped(r, d) \/ Ignored(r, d)
  BY <1>2, <1>3, HoldsByResource DEF Dropped, Ignored, serverVars
<1>4. CASE LostPacket(r, d) \/ WriteFailed(r, d)
  <2>1. ~locked'[r] /\ ~exists'[r]
    BY <1>4 DEF LostPacket, WriteFailed, Gone, IInv, TypeOK
  <2> QED
    BY <1>2, <2>1, HoldsByResource
<1>5. CASE Refused(r, d)
  BY <1>2, <1>5, HoldsByResource DEF Refused
<1>6. CASE NoPayload(r, d)
  <2>1. /\ UNCHANGED <<exists, locked, data>> /\ count'[r] = d.num
        /\ d.num = Last[d.t] /\ d.t \in EmptyEnd
    BY <1>6 DEF NoPayload, Payload, IInv, TypeOK
  <2>2. CASE ~locked[r] \/ d.num = 0
    BY <1>2, <2>1, <2>2, HoldsByResource
  <2>3. CASE locked[r] /\ d.num # 0
    <3>1. /\ Ahead(d.t) /\ Mine(r, d.t) /\ d.t \in Transfers
          /\ Last[d.t] \in Nat /\ (exists[r] \/ r \in Deleters)
      BY <2>3, LaterIsMine
    <3>2. Mine(r, d.t)'
      BY <2>1, <3>1 DEF Mine
    <3>3. Last[d.t] > 0
      BY <3>1 DEF Ahead
    <3>4. \A t \in Transfers : r \in To[t] /\ Ahead(t)' => t = d.t
      BY <1>2, Foreign
    <3> QED
      BY <2>1, <2>3, <3>1, <3>2, <3>3, <3>4 DEF HeldAt, VersionAt
  <2> QED
    BY <2>2, <2>3
<1> QED
  BY <1>3, <1>4, <1>5, <1>6 DEF Handle

LEMMA HeldServer ==
  ASSUME IInv, Orderly, NEW r \in Nodes, Server(r)
  PROVE  Held' /\ OneVersion' /\ Answered' /\ SentIsStored'
<1>1. Serves(r)
  BY ServerSends DEF IInv
<1>2. requests' = requests /\ result' = result
  BY <1>1 DEF Serves, clientVars
<1>3. stored \subseteq stored'
  BY DEF Server, Handle, Dropped, LostPacket, Refused, Ignored, Stored, WriteFailed, NoPayload,
         OtherRequest, Watchdog, OwnLock, OwnRelease, OwnDelete, Gone, serverVars
<1>4. SentIsStored'
  BY <1>2, <1>3 DEF IInv, SentIsStored
<1>5. /\ HeldAt(r)' /\ VersionAt(r)'
      /\ \A a \in answers' \ answers :
           a.code = "ok" /\ a.num = Last[a.t] => <<a.t, r>> \in stored' /\ r \in To[a.t]
  <2>1. ASSUME NEW d \in requests, r \in To[d.t], Stored(r, d)
        PROVE  <1>5
    <3>1. HeldAt(r)' /\ VersionAt(r)' /\ (~More(d) => <<d.t, r>> \in stored')
      BY <2>1, StoredHolds
    <3>2. \A a \in answers' \ answers : a.t = d.t /\ a.num = d.num
      BY <2>1 DEF Stored, Answer
    <3>3. d.num = Last[d.t] => ~More(d)
      <4>1. d.t \in Transfers
        BY DEF IInv, TypeOK
      <4>2. Last[d.t] \in Nat
        BY <4>1, TransferAssumption
      <4> QED
        BY <4>2 DEF More
    <3> QED
      BY <2>1, <3>1, <3>2, <3>3
  <2>2. ASSUME NEW d \in requests, r \in To[d.t], Handle(r, d), ~Stored(r, d)
        PROVE  <1>5
    BY <2>2, HandlerHolds, OnlyStoredAnswers
  <2>3. ASSUME OtherRequest(r) \/ Watchdog(r) \/ OwnLock(r) \/ OwnRelease(r) \/ OwnDelete(r)
        PROVE  <1>5
    <3>1. answers' = answers
      BY <2>3 DEF OtherRequest, Watchdog, OwnLock, OwnRelease, OwnDelete, netVars
    <3>2. \A t \in Transfers : Ahead(t)' => Ahead(t)
      BY <1>2, <3>1 DEF Ahead
    <3>3. CASE Watchdog(r)
      <4>1. ~locked'[r] /\ ~exists'[r]
        BY <3>3 DEF Watchdog, Gone, IInv, TypeOK
      <4> QED
        BY <3>1, <3>2, <4>1, HoldsByResource
    <3>4. CASE OwnDelete(r)
      <4>1. UNCHANGED <<locked[r], count[r]>> /\ ~exists'[r] /\ r \in Deleters
        BY <3>4 DEF OwnDelete, IInv, TypeOK
      <4> QED
        BY <3>1, <3>2, <4>1, HoldsByResource
    <3>5. CASE OtherRequest(r)
      <4>1. UNCHANGED <<exists[r], locked[r], data[r]>> /\ count'[r] = 0
        BY <3>5 DEF OtherRequest, Orderly, IInv, TypeOK
      <4> QED
        BY <3>1, <3>2, <4>1, HoldsByResource
    <3>6. CASE OwnLock(r) \/ OwnRelease(r)
      <4>1. UNCHANGED <<exists[r], locked[r], count[r], data[r]>>
        BY <3>6 DEF OwnLock, OwnRelease
      <4> QED
        BY <3>1, <3>2, <4>1, HoldsByResource
    <3> QED
      BY <2>3, <3>3, <3>4, <3>5, <3>6
  <2> QED
    BY <2>1, <2>2, <2>3 DEF Server
<1>6. Held'
  BY <1>5, OthersHold DEF Held
<1>7. OneVersion'
  BY <1>5, OthersHold DEF OneVersion, VersionAt
<1>8. Answered'
  BY <1>3, <1>5 DEF IInv, Answered
<1> QED
  BY <1>4, <1>6, <1>7, <1>8

-----------------------------------------------------------------------------
(* The invariant.                                                          *)

LEMMA Invariant ==
  ASSUME Orderly
  PROVE  Spec => []IInv
<1>1. Init => IInv
  BY TypeInit, NetInit, HeldInit DEF IInv
<1>2. ASSUME IInv, Next
      PROVE  IInv'
  <2>1. TypeOK'
    BY <1>2, TypeStep DEF IInv
  <2>2. ASSUME NEW t \in Transfers, Begin(t)
        PROVE  IInv'
    BY <1>2, <2>1, <2>2, NetBegin, HeldClient DEF IInv
  <2>3. ASSUME NEW s \in Nodes, Client(s)
        PROVE  IInv'
    BY <1>2, <2>1, <2>3, NetClient, HeldClient DEF IInv
  <2>4. ASSUME NEW r \in Nodes, Server(r)
        PROVE  IInv'
    BY <1>2, <2>1, <2>4, NetServer, HeldServer DEF IInv
  <2> QED
    BY <1>2, <2>2, <2>3, <2>4 DEF Next
<1>3. IInv /\ UNCHANGED vars => IInv'
  <2> SUFFICES ASSUME IInv, UNCHANGED vars
               PROVE  IInv'
    OBVIOUS
  <2>1. /\ UNCHANGED <<requests, answers, phase, sending, block, mid, retrans, result>>
        /\ UNCHANGED <<exists, mutex, locked, count, data, stored>>
    BY DEF vars, netVars, clientVars, serverVars
  <2>2. TypeOK'
    BY <2>1 DEF IInv, TypeOK
  <2>3. Sending' /\ Travelling'
    BY <2>1 DEF IInv, Sending, Waits, Travelling, Current
  <2>4. Held'
    BY <2>1 DEF IInv, Held, HeldAt, Mine, Ahead
  <2>5. OneVersion' /\ Answered' /\ SentIsStored'
    BY <2>1 DEF IInv, OneVersion, Complete, Answered, SentIsStored
  <2> QED
    BY <2>2, <2>3, <2>4, <2>5 DEF IInv
<1> QED
  BY <1>1, <1>2, <1>3, PTL DEF Spec

(* The state keeps its type: in particular no block beyond the last is     *)
(* asked for and no request is repeated more than COAP_MAX_RETRANSMIT      *)
(* times.                                                                  *)
THEOREM TransferTyped ==
  ASSUME Orderly
  PROVE  Spec => []TypeOK
<1>1. IInv => TypeOK
  BY DEF IInv
<1> QED
  BY <1>1, Invariant, PTL

(* What the sender takes for sent, a receiver has stored whole.            *)
THEOREM SentStored ==
  ASSUME Orderly
  PROVE  Spec => []SentIsStored
<1>1. IInv => SentIsStored
  BY DEF IInv
<1> QED
  BY <1>1, Invariant, PTL

(* A resource outside of a transfer has all its blocks from one transfer.  *)
THEOREM Unmixed ==
  ASSUME Orderly
  PROVE  Spec => []OneVersion
<1>1. IInv => OneVersion
  BY DEF IInv
<1> QED
  BY <1>1, Invariant, PTL

(* A block is only ignored when the resource has it.                       *)
THEOREM IgnoredStored ==
  ASSUME Orderly
  PROVE  Spec => []IgnoredIsStored
<1>1. IInv => IgnoredIsStored
  <2> SUFFICES ASSUME IInv, NEW r \in Nodes, NEW d \in requests,
                      r \in To[d.t], exists[r], AlreadyProceeded(r, d)
               PROVE  data[r][d.num] = d.t
    BY DEF IgnoredIsStored
  <2>1. d.num # 0 /\ locked[r] /\ d.num = count[r] /\ Payload(d)
    BY DEF AlreadyProceeded, Writes, Taken
  <2>2. Mine(r, d.t) /\ d.num \in Nat /\ d.num <= Last[d.t] /\ Last[d.t] \in Nat
    BY <2>1, LaterIsMine
  <2> QED
    BY <2>1, <2>2 DEF Mine, Payload
<1> QED
  BY <1>1, Invariant, PTL

(* What closes a transaction is the answer to the block waited for.        *)
THEOREM AnswersOwn ==
  ASSUME Orderly
  PROVE  Spec => []OwnAnswersOnly
<1>1. IInv => OwnAnswersOnly
  BY OwnAnswers DEF IInv
<1> QED
  BY <1>1, Invariant, PTL

-----------------------------------------------------------------------------
(* The refinement. A step of the detailed system is one of Delivery, or    *)
(* one that Delivery does not see.                                         *)

LEMMA ContentAt ==
  ASSUME NEW r \in Nodes
  PROVE  /\ ~exists[r] => Content[r] = Absent
         /\ exists[r] /\ locked[r] => Content[r] = Changing
BY DEF Content

(* What becomes complete is one content, since it has one first block.     *)
LEMMA ContentBecomes ==
  ASSUME TypeOK', NEW r \in Nodes, NEW t \in Transfers, exists'[r], ~locked'[r], Complete(r, t)'
  PROVE  Content'[r] = t
<1>1. \A u \in Transfers : 0 \in 0 .. Last[u]
  BY TransferAssumption
<1>2. \A u \in Transfers : Complete(r, u)' => u = t
  BY <1>1 DEF Complete
<1>3. (CHOOSE u \in Transfers : Complete(r, u)') = t
  BY <1>2
<1> QED
  BY <1>3 DEF Content

LEMMA ContentKept ==
  ASSUME NEW r \in Nodes, UNCHANGED <<exists[r], locked[r], data[r]>>
  PROVE  Content'[r] = Content[r]
<1>1. \A t \in Transfers : Complete(r, t)' <=> Complete(r, t)
  BY DEF Complete
<1> QED
  BY <1>1 DEF Content

LEMMA ImplementsInit == Init => Abstract!Init
BY DEF Init, Abstract!Init, Content

LEMMA ImplementsClient ==
  ASSUME IInv, Orderly, (\E t \in Transfers : Begin(t)) \/ (\E s \in Nodes : Client(s))
  PROVE  Abstract!Next \/ UNCHANGED Abstract!vars
<1>1. UNCHANGED serverVars
  BY DEF Begin, Client, Retransmit, GetAnswer, NextBlock, Succeed, Fail, End
<1>2. Content' = Content /\ stored' = stored
  BY <1>1 DEF serverVars, Content, Complete
<1>3. ASSUME NEW t \in Transfers, Begin(t)
      PROVE  Abstract!Begin(t)
  BY <1>2, <1>3 DEF Begin, Abstract!Begin
<1>4. ASSUME NEW s \in Nodes, Succeed(s)
      PROVE  sending[s] \in Transfers /\ Abstract!Succeed(sending[s])
  <2> DEFINE t == sending[s]
  <2>1. Waits(s) /\ phase[s] = "accepted" /\ block[s] = Last[t]
    BY <1>4 DEF Succeed, IInv, Sending
  <2>2. \E a \in answers : a.t = t /\ a.num = Last[t] /\ a.code = "ok"
    BY <2>1 DEF Waits
  <2>3. t \in Transfers /\ result[t] = "going"
    BY <2>1 DEF Waits
  <2>4. \E r \in To[t] : <<t, r>> \in stored
    BY <2>2 DEF IInv, Answered
  <2>5. result' = [result EXCEPT ![t] = "sent"]
    BY <1>4 DEF Succeed, End
  <2> QED
    BY <1>2, <2>3, <2>4, <2>5 DEF Abstract!Succeed
<1>5. ASSUME NEW s \in Nodes, Fail(s)
      PROVE  sending[s] \in Transfers /\ Abstract!Fail(sending[s])
  BY <1>2, <1>5 DEF Fail, End, IInv, Sending, Waits, Abstract!Fail
<1>6. ASSUME NEW s \in Nodes, Retransmit(s) \/ NextBlock(s) \/ \E a \in answers : GetAnswer(s, a)
      PROVE  UNCHANGED Abstract!vars
  BY <1>2, <1>6 DEF Retransmit, NextBlock, GetAnswer, clientVars, Abstract!vars
<1> QED
  BY <1>3, <1>4, <1>5, <1>6 DEF Client, Abstract!Next

LEMMA ImplementsServer ==
  ASSUME IInv, Orderly, NEW r \in Nodes, Server(r)
  PROVE  Abstract!Next \/ UNCHANGED Abstract!vars
<1>1. result' = result /\ TypeOK'
  BY ServerSends, TypeStep DEF Serves, clientVars, IInv, Next
<1>2. \A o \in Nodes \ {r} : Content'[o] = Content[o]
  <2> SUFFICES ASSUME NEW o \in Nodes \ {r}
               PROVE  Content'[o] = Content[o]
    OBVIOUS
  <2>1. UNCHANGED <<exists[o], locked[o], data[o]>>
    BY ZenonT(40) DEF IInv, TypeOK, Server, Handle, Dropped, LostPacket, Refused, Ignored, Stored,
           WriteFailed, NoPayload, OtherRequest, Watchdog, OwnLock, OwnRelease, OwnDelete, Gone,
           serverVars
  <2> QED
    BY <2>1, ContentKept
<1>3. \A c : Content'[r] = c => Content' = [Content EXCEPT ![r] = c]
  BY <1>2 DEF Content
<1>4. ASSUME ~exists'[r], stored' = stored
      PROVE  Abstract!Next
  <2>1. Content'[r] = Absent
    BY <1>4 DEF Content
  <2> QED
    BY <1>1, <1>3, <1>4, <2>1 DEF Abstract!Vanish, Abstract!Next
<1>5. ASSUME UNCHANGED <<exists[r], locked[r], data[r], stored>>
      PROVE  UNCHANGED Abstract!vars
  <2>1. Content'[r] = Content[r]
    BY <1>5, ContentKept
  <2>2. Content' = Content
    BY <1>2, <2>1 DEF Content
  <2> QED
    BY <1>1, <1>5, <2>2 DEF Abstract!vars
<1>6. ASSUME NEW d \in requests, r \in To[d.t], Stored(r, d)
      PROVE  Abstract!Next
  <2>1. d.t \in Transfers /\ result[d.t] # "new"
    BY DEF IInv, TypeOK, Travelling
  <2>2. exists'[r] /\ (locked'[r] <=> More(d))
    BY <1>6 DEF Stored, More, IInv, TypeOK
  <2>3. CASE More(d)
    <3>1. Content'[r] = Changing /\ stored' = stored
      BY <1>6, <2>2, <2>3 DEF Content, Stored
    <3> QED
      BY <1>1, <1>3, <3>1 DEF Abstract!Change, Abstract!Next
  <2>4. CASE ~More(d)
    <3>1. <<d.t, r>> \in stored'
      BY <1>6, <2>4, StoredHolds
    <3>2. stored' = stored \cup {<<d.t, r>>}
      BY <1>6, <2>4, <3>1 DEF Stored
    <3>3. Complete(r, d.t)'
      BY <1>6, <2>4, StoredHolds
    <3>4. Content'[r] = d.t
      BY <1>1, <2>1, <2>2, <2>4, <3>3, ContentBecomes
    <3> QED
      BY <1>1, <1>3, <1>6, <2>1, <3>2, <3>4 DEF Abstract!Complete, Abstract!Next
  <2> QED
    BY <2>3, <2>4
<1>7. ASSUME NEW d \in requests, r \in To[d.t], Handle(r, d), ~Stored(r, d)
      PROVE  Abstract!Next \/ UNCHANGED Abstract!vars
  <2>1. CASE LostPacket(r, d) \/ WriteFailed(r, d)
    BY <1>4, <2>1 DEF LostPacket, WriteFailed, Gone, IInv, TypeOK
  <2>2. CASE Dropped(r, d) \/ Refused(r, d) \/ Ignored(r, d) \/ NoPayload(r, d)
    BY <1>5, <2>2 DEF Dropped, Refused, Ignored, NoPayload, serverVars
  <2> QED
    BY <1>7, <2>1, <2>2 DEF Handle
<1>8. CASE Watchdog(r) \/ OwnDelete(r)
  BY <1>4, <1>8 DEF Watchdog, OwnDelete, Gone, IInv, TypeOK
<1>9. CASE OtherRequest(r) \/ OwnLock(r) \/ OwnRelease(r)
  BY <1>5, <1>9 DEF OtherRequest, OwnLock, OwnRelease
<1> QED
  BY <1>6, <1>7, <1>8, <1>9 DEF Server

(* The transfer over CoAP is what Delivery promises: a resource that can   *)
(* be read is one content, whole, and what is taken for sent took effect.  *)
THEOREM TransferDelivers ==
  ASSUME Orderly
  PROVE  Spec => ImplementsDelivery
<1>1. Init => Abstract!Init
  BY ImplementsInit
<1>2. ASSUME IInv, [Next]_vars
      PROVE  [Abstract!Next]_Abstract!vars
  <2>1. CASE Next
    BY <1>2, <2>1, ImplementsClient, ImplementsServer DEF Next
  <2>2. CASE UNCHANGED vars
    BY <2>2 DEF vars, netVars, clientVars, serverVars, Abstract!vars, Content, Complete
  <2> QED
    BY <1>2, <2>1, <2>2
<1> QED
  BY <1>1, <1>2, Invariant, PTL DEF Spec, ImplementsDelivery, Abstract!Spec
=============================================================================
