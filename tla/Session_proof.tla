---------------------------- MODULE Session_proof ----------------------------
(***************************************************************************)
(* Theorems about the debug session, for any number of frontends,          *)
(* transports, threads and messages.                                       *)
(***************************************************************************)
EXTENDS Session, TLAPS

(* An open connection is the last one its transport has served. *)
Latest ==
  \A i \in open : \A k \in DOMAIN accepted : k > i => accepted[k] # accepted[i]

(* The transport of the newest connection the handler was told of. *)
HandledTransport == IF Handled = 0 THEN NoTransport ELSE accepted[Handled]

(* A thread in send has a message, and has read the transport of "since". *)
OwnTarget ==
  \A s \in Senders : sender[s].busy =>
    /\ sender[s].no # 0
    /\ sender[s].since <= Len(accepted)
    /\ sender[s].target = IF sender[s].since = 0
                            THEN NoTransport
                            ELSE accepted[sender[s].since]

Inv ==
  /\ SessionTypeOK
  /\ Latest
  /\ vfd = HandledTransport
  /\ OwnTarget
  /\ NotToOlder

LEMMA InitInv == Init => Inv
  BY SessionAssumption
  DEF Init, Inv, SessionTypeOK, Latest, HandledTransport, Handled, OwnTarget, NotToOlder,
      Sessions, Events

(* A new connection is the last of its transport, and ends no other's turn. *)
LEMMA ConnectsInv ==
  ASSUME Inv, NEW t \in Transports, Connects(t)
  PROVE  Inv'
<1>1. SessionTypeOK /\ Len(accepted) \in Nat
  BY DEF Inv, SessionTypeOK
<1>2. /\ accepted' = Append(accepted, t)
      /\ open' = open \cup {Len(accepted) + 1}
      /\ event = "none" /\ event' = "connected"
      /\ Len(accepted) < MaxSessions
      /\ \A i \in open : accepted[i] # t
      /\ UNCHANGED <<vfd, sent, got, sender>>
  BY DEF Connects
<1>3. /\ accepted' \in Seq(Transports)
      /\ Len(accepted') = Len(accepted) + 1
      /\ accepted'[Len(accepted) + 1] = t
      /\ \A i \in DOMAIN accepted : accepted'[i] = accepted[i]
      /\ DOMAIN accepted = 1 .. Len(accepted)
      /\ DOMAIN accepted' = 1 .. Len(accepted) + 1
  BY <1>1, <1>2 DEF SessionTypeOK
<1>4. SessionTypeOK'
  <2>1. open' \subseteq DOMAIN accepted' /\ Len(accepted') <= MaxSessions /\ accepted' # <<>>
    BY <1>1, <1>2, <1>3, SessionAssumption DEF SessionTypeOK
  <2> QED
    BY <1>1, <1>2, <1>3, <2>1 DEF SessionTypeOK, Events
<1>5. Latest'
  <2> SUFFICES ASSUME NEW i \in open', NEW k \in DOMAIN accepted', k > i
               PROVE  accepted'[k] # accepted'[i]
    BY DEF Latest
  <2>1. i \in open /\ i \in DOMAIN accepted
    BY <1>1, <1>2, <1>3 DEF SessionTypeOK
  <2>2. k \in DOMAIN accepted \/ k = Len(accepted) + 1
    BY <1>1, <1>3
  <2>3. CASE k \in DOMAIN accepted
    BY <1>3, <2>1, <2>3 DEF Inv, Latest
  <2>4. CASE k = Len(accepted) + 1
    BY <1>2, <1>3, <2>1, <2>4
  <2> QED
    BY <2>2, <2>3, <2>4
<1>6. vfd' = HandledTransport'
  <2>1. Handled' = Handled /\ Handled = Len(accepted)
    BY <1>1, <1>2, <1>3 DEF Handled
  <2> QED
    <3>1. accepted'[Len(accepted)] = accepted[Len(accepted)] \/ Len(accepted) = 0
      BY <1>1, <1>3
    <3>2. vfd = IF Len(accepted) = 0 THEN NoTransport ELSE accepted[Len(accepted)]
      BY <2>1 DEF Inv, HandledTransport
    <3> QED
      BY <1>2, <2>1, <3>1, <3>2 DEF HandledTransport
<1>7. OwnTarget'
  <2> SUFFICES ASSUME NEW s \in Senders, sender[s].busy
               PROVE  /\ sender[s].no # 0
                      /\ sender[s].since <= Len(accepted')
                      /\ sender[s].target = IF sender[s].since = 0
                                              THEN NoTransport
                                              ELSE accepted'[sender[s].since]
    BY <1>2 DEF OwnTarget
  <2>1. sender[s].since \in Nat
    BY <1>1, SessionAssumption DEF SessionTypeOK
  <2> QED
    BY <1>1, <1>3, <2>1 DEF Inv, OwnTarget
<1>8. NotToOlder'
  BY <1>2 DEF Inv, NotToOlder
<1> QED
  BY <1>4, <1>5, <1>6, <1>7, <1>8 DEF Inv

(* What happens to connections, and the branches that leave vfd_ alone. *)
LEMMA ServiceInv ==
  ASSUME Inv,
         \/ Refuses
         \/ \E i \in open : Loses(i)
         \/ Receives
         \/ \E i \in open : Delivers(i)
         \/ OnConnectionLost
         \/ OnPacket
  PROVE  Inv'
<1>1. /\ UNCHANGED <<vfd, accepted, sent, sender>>
      /\ open' \subseteq open
      /\ event # "connected" /\ event' # "connected"
      /\ event' \in Events
  BY DEF Refuses, Loses, Receives, Delivers, OnConnectionLost, OnPacket, Inv,
         SessionTypeOK, Events
<1>2. got' \in [Sessions -> Nat]
  BY DEF Refuses, Loses, Receives, Delivers, OnConnectionLost, OnPacket, Inv, SessionTypeOK
<1>3. SessionTypeOK'
  BY <1>1, <1>2 DEF Inv, SessionTypeOK
<1>4. Latest' /\ OwnTarget' /\ NotToOlder'
  BY <1>1 DEF Inv, Latest, OwnTarget, NotToOlder
<1>5. vfd' = HandledTransport'
  BY <1>1 DEF Inv, HandledTransport, Handled
<1> QED
  BY <1>3, <1>4, <1>5 DEF Inv

(* The handler makes vfd_ the transport of the connection it is told of. *)
LEMMA ConnectResponseInv ==
  ASSUME Inv, OnConnectResponse
  PROVE  Inv'
<1>1. SessionTypeOK /\ Len(accepted) \in Nat
  BY DEF Inv, SessionTypeOK
<1>2. /\ UNCHANGED <<accepted, open, sent, got, sender>>
      /\ event' = "none"
      /\ event = "connected" => vfd' = accepted[Len(accepted)]
      /\ event # "connected" => vfd' = vfd
  BY DEF OnConnectResponse
<1>3. event = "connected" => Len(accepted) # 0 /\ accepted[Len(accepted)] \in Transports
  BY <1>1 DEF SessionTypeOK
<1>4. SessionTypeOK'
  BY <1>1, <1>2, <1>3 DEF SessionTypeOK, Events
<1>5. vfd' = HandledTransport'
  BY <1>1, <1>2, <1>3 DEF Inv, HandledTransport, Handled
<1>6. Latest' /\ OwnTarget' /\ NotToOlder'
  BY <1>2 DEF Inv, Latest, OwnTarget, NotToOlder
<1> QED
  BY <1>4, <1>5, <1>6 DEF Inv

(* print reads vfd_ while it is the transport of the newest one handled. *)
LEMMA PrintInv ==
  ASSUME Inv, NEW s \in Senders, PrintMsg(s)
  PROVE  Inv'
<1> DEFINE now == [busy |-> TRUE, no |-> sender[s].no + 1, since |-> Handled, target |-> vfd]
<1>1. SessionTypeOK /\ Len(accepted) \in Nat
  BY DEF Inv, SessionTypeOK
<1>2. /\ UNCHANGED <<vfd, accepted, open, event, sent, got>>
      /\ sender' = [sender EXCEPT ![s] = now]
      /\ sender[s].no < MaxMessages
  BY DEF PrintMsg
<1>3. Handled \in 0 .. MaxSessions /\ Handled <= Len(accepted)
  <2>1. event = "connected" => Len(accepted) # 0
    BY <1>1 DEF SessionTypeOK
  <2> QED
    BY <1>1, <2>1, SessionAssumption DEF SessionTypeOK, Handled
<1>4. SessionTypeOK'
  <2>1. sender[s].no \in 0 .. MaxMessages
    BY <1>1 DEF SessionTypeOK
  <2>2. sender[s].no + 1 \in 0 .. MaxMessages
    BY <1>2, <2>1, SessionAssumption
  <2> QED
    BY <1>1, <1>2, <1>3, <2>2 DEF SessionTypeOK
<1>5. OwnTarget'
  BY <1>1, <1>2, <1>3 DEF Inv, SessionTypeOK, OwnTarget, HandledTransport
<1>6. vfd' = HandledTransport'
  BY <1>2 DEF Inv, HandledTransport, Handled
<1>7. Latest' /\ NotToOlder'
  BY <1>2 DEF Inv, Latest, NotToOlder
<1> QED
  BY <1>4, <1>5, <1>6, <1>7 DEF Inv

(* write finds the connection its transport serves now: "since", or newer. *)
LEMMA WriteInv ==
  ASSUME Inv, NEW s \in Senders, Write(s)
  PROVE  Inv'
<1> DEFINE message == [from |-> s, no |-> sender[s].no, since |-> sender[s].since]
<1>1. SessionTypeOK /\ Len(accepted) \in Nat
  BY DEF Inv, SessionTypeOK
<1>2. /\ UNCHANGED <<vfd, accepted, open, event, got>>
      /\ sender' = [sender EXCEPT ![s].busy = FALSE]
      /\ sender[s].busy
  BY DEF Write, Finish
<1>3. Latest' /\ vfd' = HandledTransport'
  BY <1>2 DEF Inv, Latest, HandledTransport, Handled
<1>4. /\ OwnTarget'
      /\ sender' \in [Senders -> [busy   : BOOLEAN,
                                  no     : 0 .. MaxMessages,
                                  since  : 0 .. MaxSessions,
                                  target : Transports \cup {NoTransport}]]
  BY <1>1, <1>2 DEF Inv, SessionTypeOK, OwnTarget
<1>5. CASE UNCHANGED sent
  BY <1>1, <1>2, <1>3, <1>4, <1>5 DEF Inv, SessionTypeOK, NotToOlder
<1>6. CASE \E i \in open : accepted[i] = sender[s].target /\ Written(s, i)
  <2> PICK i \in open : accepted[i] = sender[s].target /\ Written(s, i)
    BY <1>6
  <2>1. /\ i \in DOMAIN accepted /\ i \in Sessions /\ i \in Nat
        /\ accepted[i] \in Transports
    BY <1>1, SessionAssumption DEF SessionTypeOK, Sessions
  <2>2. sender[s].since \in Nat /\ sender[s].since <= Len(accepted)
    BY <1>1, <1>2, SessionAssumption DEF Inv, OwnTarget, SessionTypeOK
  <2>3. sender[s].since # 0 /\ accepted[sender[s].since] = accepted[i]
    BY <1>2, <2>1, SessionAssumption DEF Inv, OwnTarget
  <2>4. sender[s].since \in DOMAIN accepted
    BY <1>1, <2>2, <2>3 DEF SessionTypeOK
  <2>5. sender[s].since <= i
    BY <2>1, <2>2, <2>3, <2>4 DEF Inv, Latest
  <2>6. sent' = [sent EXCEPT ![i] = Append(@, message)]
    BY DEF Written
  <2>7. message \in Message
    <3>1. sender[s].no \in 1 .. MaxMessages
      BY <1>1, <1>2, SessionAssumption DEF Inv, OwnTarget, SessionTypeOK
    <3> QED
      BY <1>1, <3>1 DEF SessionTypeOK, Message
  <2>8. sent' \in [Sessions -> Seq(Message)]
    BY <1>1, <2>1, <2>6, <2>7 DEF SessionTypeOK
  <2>9. NotToOlder'
    <3> SUFFICES ASSUME NEW j \in Sessions, NEW k \in DOMAIN sent'[j]
                 PROVE  sent'[j][k].since <= j
      BY DEF NotToOlder
    <3>1. CASE j # i
      BY <1>1, <2>6, <3>1 DEF Inv, NotToOlder, SessionTypeOK
    <3>2. CASE j = i
      <4>1. sent[i] \in Seq(Message) /\ sent'[i] = Append(sent[i], message)
        BY <1>1, <2>1, <2>6 DEF SessionTypeOK
      <4>2. \/ k \in DOMAIN sent[i] /\ sent'[i][k] = sent[i][k]
            \/ sent'[i][k] = message
        BY <2>7, <3>2, <4>1
      <4> QED
        BY <2>1, <2>5, <3>2, <4>2 DEF Inv, NotToOlder
    <3> QED
      BY <3>1, <3>2
  <2> QED
    BY <1>1, <1>2, <1>3, <1>4, <2>8, <2>9 DEF Inv, SessionTypeOK
<1> QED
  BY <1>5, <1>6 DEF Write

LEMMA NextInv == Inv /\ [Next]_vars => Inv'
<1> SUFFICES ASSUME Inv, [Next]_vars PROVE Inv'
  OBVIOUS
<1>1. CASE UNCHANGED vars
  BY <1>1 DEF vars, Inv, SessionTypeOK, Latest, HandledTransport, Handled, OwnTarget,
              NotToOlder
<1>2. CASE Next
  BY <1>2, ConnectsInv, ServiceInv, ConnectResponseInv, PrintInv, WriteInv
  DEF Next, Handler
<1> QED
  BY <1>1, <1>2

LEMMA InvAlways == Spec => []Inv
  BY InitInv, NextInv, PTL DEF Spec

(* The session's state keeps its type over any number of connections. *)
THEOREM SessionTypeCorrect == Spec => []SessionTypeOK
<1>1. Inv => SessionTypeOK
  BY DEF Inv
<1> QED
  BY <1>1, InvAlways, PTL

(* odbk_core.cpp:33: between two events vfd_ belongs to the newest frontend. *)
THEOREM NewestCorrect == Spec => []NewestIsCurrent
<1>1. Inv => NewestIsCurrent
  BY DEF Inv, SessionTypeOK, HandledTransport, Handled, NewestIsCurrent
<1> QED
  BY <1>1, InvAlways, PTL

(* odbk_core.cpp:51: no message is written to an older frontend. *)
THEOREM NotToOlderCorrect == Spec => []NotToOlder
<1>1. Inv => NotToOlder
  BY DEF Inv
<1> QED
  BY <1>1, InvAlways, PTL

-----------------------------------------------------------------------------
(***************************************************************************)
(* What a frontend reads: each message once, and those of one thread in    *)
(* the order it printed them.  It needs that a thread in send has not      *)
(* written its message yet (Unwritten).                                    *)
(***************************************************************************)
InOrder ==
  \A i \in Sessions : \A k, l \in DOMAIN sent[i] :
    k < l /\ sent[i][k].from = sent[i][l].from => sent[i][k].no < sent[i][l].no

OneSession ==
  \A i, j \in Sessions : \A k \in DOMAIN sent[i], l \in DOMAIN sent[j] :
    sent[i][k].from = sent[j][l].from /\ sent[i][k].no = sent[j][l].no => i = j

NoneInvented == \A i \in Sessions : got[i] <= Len(sent[i])

Unwritten ==
  \A i \in Sessions : \A k \in DOMAIN sent[i] :
    LET m == sent[i][k] IN
      /\ m.no <= sender[m.from].no
      /\ sender[m.from].busy => m.no < sender[m.from].no

OrderInv == Inv /\ Unwritten /\ InOrder /\ OneSession /\ NoneInvented

LEMMA OrderUnchanged ==
  ASSUME OrderInv, Inv', UNCHANGED <<sent, sender>>, got' = got
  PROVE  OrderInv'
BY DEF OrderInv, Unwritten, InOrder, OneSession, NoneInvented

LEMMA DeliversOrder ==
  ASSUME OrderInv, Inv', NEW i \in open, Delivers(i)
  PROVE  OrderInv'
<1>1. /\ UNCHANGED <<sent, sender>>
      /\ got' = [got EXCEPT ![i] = @ + 1] /\ got[i] < Len(sent[i])
  BY DEF Delivers
<1>2. \A j \in Sessions : got[j] \in Nat /\ Len(sent[j]) \in Nat /\ got[j] <= Len(sent[j])
  BY DEF OrderInv, Inv, SessionTypeOK, NoneInvented
<1>3. \A j \in Sessions : got'[j] = IF j = i THEN got[j] + 1 ELSE got[j]
  BY <1>1 DEF OrderInv, Inv, SessionTypeOK
<1>4. NoneInvented'
  BY <1>1, <1>2, <1>3 DEF NoneInvented
<1> QED
  BY <1>1, <1>4 DEF OrderInv, Unwritten, InOrder, OneSession

(* A new message of a thread that is not in send: the others keep theirs. *)
LEMMA PrintOrder ==
  ASSUME OrderInv, Inv', NEW s \in Senders, PrintMsg(s)
  PROVE  OrderInv'
<1>1. /\ UNCHANGED <<sent, got>> /\ ~sender[s].busy
      /\ sender' = [sender EXCEPT ![s] =
            [busy |-> TRUE, no |-> @.no + 1, since |-> Handled, target |-> vfd]]
  BY DEF PrintMsg
<1>2. SessionTypeOK
  BY DEF OrderInv, Inv
<1>3. /\ sender'[s].no = sender[s].no + 1 /\ sender[s].no \in Nat
      /\ \A u \in Senders : u # s => sender'[u] = sender[u]
  BY <1>1, <1>2, SessionAssumption DEF SessionTypeOK
<1>4. Unwritten'
  <2> SUFFICES ASSUME NEW i \in Sessions, NEW k \in DOMAIN sent[i]
               PROVE  /\ sent[i][k].no <= sender'[sent[i][k].from].no
                      /\ sender'[sent[i][k].from].busy =>
                           sent[i][k].no < sender'[sent[i][k].from].no
    BY <1>1 DEF Unwritten
  <2>1. sent[i][k].from \in Senders /\ sent[i][k].no \in Nat
    <3>1. sent[i][k] \in Message
      BY <1>2 DEF SessionTypeOK
    <3> QED
      BY <3>1, SessionAssumption DEF Message
  <2>2. /\ sent[i][k].no <= sender[sent[i][k].from].no
        /\ sender[sent[i][k].from].busy => sent[i][k].no < sender[sent[i][k].from].no
    BY DEF OrderInv, Unwritten
  <2> QED
    BY <1>3, <2>1, <2>2
<1> QED
  BY <1>1, <1>4 DEF OrderInv, InOrder, OneSession, NoneInvented

(* What is written comes after all that its thread has written before. *)
LEMMA WriteOrder ==
  ASSUME OrderInv, Inv', NEW s \in Senders, Write(s)
  PROVE  OrderInv'
<1> DEFINE message == [from |-> s, no |-> sender[s].no, since |-> sender[s].since]
<1>0. SessionTypeOK
  BY DEF OrderInv, Inv
<1>1. /\ got' = got /\ sender[s].busy
      /\ sender' = [sender EXCEPT ![s].busy = FALSE]
  BY DEF Write, Finish
<1>2. \A u \in Senders : /\ sender'[u].no = sender[u].no /\ sender[u].no \in Nat
                         /\ u # s => sender'[u] = sender[u]
                         /\ u = s => ~sender'[u].busy
  BY <1>0, <1>1, SessionAssumption DEF SessionTypeOK
<1>3. \A i \in Sessions : \A k \in DOMAIN sent[i] :
        /\ sent[i][k].from \in Senders /\ sent[i][k].no \in Nat
        /\ sent[i][k].no <= sender[sent[i][k].from].no
        /\ sender[sent[i][k].from].busy => sent[i][k].no < sender[sent[i][k].from].no
  <2> SUFFICES ASSUME NEW i \in Sessions, NEW k \in DOMAIN sent[i]
               PROVE  sent[i][k].from \in Senders /\ sent[i][k].no \in Nat
    BY DEF OrderInv, Unwritten
  <2>1. sent[i][k] \in Message
    BY <1>0 DEF SessionTypeOK
  <2> QED
    BY <2>1, SessionAssumption DEF Message
<1>4. CASE UNCHANGED sent
  <2>1. Unwritten'
    BY <1>2, <1>3, <1>4 DEF Unwritten
  <2> QED
    BY <1>1, <1>4, <2>1 DEF OrderInv, InOrder, OneSession, NoneInvented
<1>5. CASE \E i \in open : Written(s, i)
  <2> PICK i \in open : Written(s, i)
    BY <1>5
  <2>1. i \in Sessions
    BY <1>0, SessionAssumption DEF SessionTypeOK, Sessions
  <2>2. sent' = [sent EXCEPT ![i] = Append(@, message)]
    BY DEF Written
  <2> DEFINE n == Len(sent[i]) + 1
  <2>3. /\ \A j \in Sessions : j # i => sent'[j] = sent[j]
        /\ sent'[i] = Append(sent[i], message)
    BY <1>0, <2>1, <2>2 DEF SessionTypeOK
  <2>4. /\ n \in Nat /\ DOMAIN sent[i] = 1 .. n - 1 /\ DOMAIN sent'[i] = 1 .. n
        /\ \A k \in DOMAIN sent[i] : sent'[i][k] = sent[i][k]
        /\ sent'[i][n] = message /\ Len(sent'[i]) = n
    <3>1. sent[i] \in Seq(Message)
      BY <1>0, <2>1 DEF SessionTypeOK
    <3> HIDE DEF message
    <3> QED
      BY <2>3, <3>1
  <2>5. message.from = s /\ message.no = sender[s].no
    OBVIOUS
  <2> HIDE DEF message, n
  <2>6. \A k \in DOMAIN sent'[i] : k \in DOMAIN sent[i] \/ k = n
    BY <2>4
  <2>7. \A j \in Sessions : \A k \in DOMAIN sent[j] :
          sent[j][k].from = s => sent[j][k].no < sender[s].no
    BY <1>1, <1>3
  <2>8. \A j \in Sessions : \A k \in DOMAIN sent'[j] :
          \/ k \in DOMAIN sent[j] /\ sent'[j][k] = sent[j][k]
          \/ j = i /\ k = n /\ sent'[j][k] = message
    BY <2>3, <2>4, <2>6
  <2>9. Unwritten'
    <3> SUFFICES ASSUME NEW j \in Sessions, NEW k \in DOMAIN sent'[j]
                 PROVE  LET m == sent'[j][k] IN
                          /\ m.no <= sender'[m.from].no
                          /\ sender'[m.from].busy => m.no < sender'[m.from].no
      BY DEF Unwritten
    <3>1. CASE k \in DOMAIN sent[j] /\ sent'[j][k] = sent[j][k]
      BY <1>2, <1>3, <3>1
    <3>2. CASE sent'[j][k] = message
      BY <1>2, <2>5, <3>2
    <3> QED
      BY <2>8, <3>1, <3>2
  <2>10. InOrder'
    <3> SUFFICES ASSUME NEW j \in Sessions, NEW k \in DOMAIN sent'[j], NEW l \in DOMAIN sent'[j],
                        k < l, sent'[j][k].from = sent'[j][l].from
                 PROVE  sent'[j][k].no < sent'[j][l].no
      BY DEF InOrder
    <3>1. CASE l \in DOMAIN sent[j] /\ sent'[j][l] = sent[j][l]
      <4>1. k \in DOMAIN sent[j] /\ sent'[j][k] = sent[j][k]
        BY <2>3, <2>4, <2>8, <3>1
      <4> QED
        BY <3>1, <4>1 DEF OrderInv, InOrder
    <3>2. CASE j = i /\ l = n /\ sent'[j][l] = message
      <4>1. k \in DOMAIN sent[j] /\ sent'[j][k] = sent[j][k]
        BY <2>4, <2>8, <3>2
      <4> QED
        BY <2>5, <2>7, <3>2, <4>1
    <3> QED
      BY <2>8, <3>1, <3>2
  <2>11. OneSession'
    <3> SUFFICES ASSUME NEW j \in Sessions, NEW h \in Sessions,
                        NEW k \in DOMAIN sent'[j], NEW l \in DOMAIN sent'[h],
                        sent'[j][k].from = sent'[h][l].from, sent'[j][k].no = sent'[h][l].no
                 PROVE  j = h
      BY DEF OneSession
    <3>1. CASE /\ k \in DOMAIN sent[j] /\ sent'[j][k] = sent[j][k]
               /\ l \in DOMAIN sent[h] /\ sent'[h][l] = sent[h][l]
      BY <3>1 DEF OrderInv, OneSession
    <3>2. CASE /\ k \in DOMAIN sent[j] /\ sent'[j][k] = sent[j][k]
               /\ sent'[h][l] = message
      BY <1>2, <1>3, <2>5, <2>7, <3>2
    <3>3. CASE /\ l \in DOMAIN sent[h] /\ sent'[h][l] = sent[h][l]
               /\ sent'[j][k] = message
      BY <1>2, <1>3, <2>5, <2>7, <3>3
    <3> QED
      BY <2>8, <3>1, <3>2, <3>3
  <2>12. NoneInvented'
    <3>1. \A j \in Sessions : got[j] \in Nat /\ got[j] <= Len(sent[j]) /\ Len(sent[j]) \in Nat
      BY <1>0 DEF SessionTypeOK, OrderInv, NoneInvented
    <3>2. Len(sent'[i]) = Len(sent[i]) + 1
      BY <2>4 DEF n
    <3>3. \A j \in Sessions : Len(sent'[j]) >= Len(sent[j]) /\ Len(sent'[j]) \in Nat
      BY <2>3, <3>1, <3>2
    <3> QED
      BY <1>1, <3>1, <3>3 DEF NoneInvented
  <2> QED
    BY <2>9, <2>10, <2>11, <2>12 DEF OrderInv
<1> QED
  BY <1>4, <1>5 DEF Write

LEMMA OrderNext == OrderInv /\ [Next]_vars => OrderInv'
<1> SUFFICES ASSUME OrderInv, [Next]_vars PROVE OrderInv'
  OBVIOUS
<1>1. Inv'
  BY NextInv DEF OrderInv
<1>2. ASSUME \/ \E t \in Transports : Connects(t)
             \/ Refuses \/ Receives \/ Handler \/ UNCHANGED vars
             \/ \E i \in open : Loses(i)
      PROVE  OrderInv'
  <2>1. UNCHANGED <<sent, sender>> /\ got' = got
    BY <1>2 DEF Connects, Refuses, Receives, Handler, OnConnectResponse, OnConnectionLost,
       OnPacket, Loses, vars
  <2> QED
    BY <1>1, <2>1, OrderUnchanged
<1> QED
  BY <1>1, <1>2, DeliversOrder, PrintOrder, WriteOrder DEF Next

(* What a frontend reads was printed, no message is read twice or by two   *)
(* frontends, and the messages of a thread come in the order it printed    *)
(* them, for any number of threads, frontends and connections lost between *)
(* the read of vfd_ and the write (odbk_core::send).                       *)
THEOREM OrderCorrect == Spec => [](InOrder /\ OnlyOnce /\ NoneInvented)
<1>1. Init => OrderInv
  <2>1. Init => Unwritten /\ InOrder /\ OneSession /\ NoneInvented
    BY DEF Init, Unwritten, InOrder, OneSession, NoneInvented
  <2> QED
    BY <2>1, InitInv DEF OrderInv
<1>2. OrderInv => InOrder /\ OnlyOnce /\ NoneInvented
  <2> SUFFICES ASSUME OrderInv,
                      NEW i \in Sessions, NEW k \in DOMAIN sent[i], NEW l \in DOMAIN sent[i],
                      sent[i][k].from = sent[i][l].from, sent[i][k].no = sent[i][l].no
               PROVE  k = l
    BY DEF OrderInv, OneSession, OnlyOnce
  <2>1. sent[i] \in Seq(Message)
    BY DEF OrderInv, Inv, SessionTypeOK
  <2>2. k \in Nat /\ l \in Nat /\ sent[i][k].no \in Nat
    <3>1. DOMAIN sent[i] \subseteq Nat /\ sent[i][k] \in Message
      <4> HIDE DEF Message
      <4> QED
        BY <2>1
    <3> QED
      BY <3>1, SessionAssumption DEF Message
  <2>3. ~(k < l) /\ ~(l < k)
    BY <2>2 DEF OrderInv, InOrder
  <2> QED
    BY <2>2, <2>3
<1> QED
  BY <1>1, <1>2, OrderNext, PTL DEF Spec
=============================================================================
