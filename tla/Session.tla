------------------------------- MODULE Session -------------------------------
(***************************************************************************)
(* The debug session (odbk_core.cpp): the service thread, which accepts    *)
(* frontends and keeps the transport of one of them in vfd_, and the       *)
(* threads of the host, whose print and send write to vfd_.                *)
(*                                                                         *)
(* yasio is external.  Its service thread calls the handler for one event  *)
(* at a time (YOPT_DEFER_EVENT is 0).  Transports outlive a connection, as *)
(* vfd_ does, and may serve a later one.  write queues for a transport     *)
(* that is open, and does nothing for one that is null or closed.          *)
(***************************************************************************)
EXTENDS Integers, Sequences

CONSTANTS
  Transports,    \* yasio's io_transport objects
  NoTransport,   \* nullptr
  Senders,       \* the threads of the host that log
  MaxSessions,   \* bound: connections of frontends
  MaxMessages    \* bound: messages of a sender

ASSUME SessionAssumption ==
  /\ NoTransport \notin Transports
  /\ MaxSessions \in Nat
  /\ MaxMessages \in Nat

VARIABLES
  vfd,       \* odbk_core::vfd_
  accepted,  \* the transports of all connections, in order
  open,      \* the connections that are open
  event,     \* the event the service thread handles
  sent,      \* sent[i]: the messages written to connection i
  got,       \* got[i]: how many of them have arrived
  sender     \* sender[s]: where thread s is in print and send

vars == <<vfd, accepted, open, event, sent, got, sender>>

Sessions == 1 .. MaxSessions
Events == {"none", "connected", "refused", "lost", "packet"}

(* since: the newest connection the handler knew of when print was called. *)
Message == [from : Senders, no : 1 .. MaxMessages, since : 0 .. MaxSessions]

(* odbk_core::init, up to open. *)
Init ==
  /\ vfd = NoTransport
  /\ accepted = <<>>
  /\ open = {}
  /\ event = "none"
  /\ sent = [i \in Sessions |-> <<>>]
  /\ got = [i \in Sessions |-> 0]
  /\ sender = [s \in Senders |->
                 [busy |-> FALSE, no |-> 0, since |-> 0, target |-> NoTransport]]

(* The connections the handler has been told of. *)
Handled == IF event = "connected" THEN Len(accepted) - 1 ELSE Len(accepted)

-----------------------------------------------------------------------------
(* The service thread.  External: what happens to connections.             *)

Connects(t) ==
  /\ event = "none"
  /\ Len(accepted) < MaxSessions
  /\ \A i \in open : accepted[i] # t
  /\ accepted' = Append(accepted, t)
  /\ open' = open \cup {Len(accepted) + 1}
  /\ event' = "connected"
  /\ UNCHANGED <<vfd, sent, got, sender>>

Refuses ==
  /\ event = "none"
  /\ event' = "refused"
  /\ UNCHANGED <<vfd, accepted, open, sent, got, sender>>

Loses(i) ==
  /\ event = "none"
  /\ i \in open
  /\ open' = open \ {i}
  /\ event' = "lost"
  /\ UNCHANGED <<vfd, accepted, sent, got, sender>>

Receives ==
  /\ event = "none"
  /\ open # {}
  /\ event' = "packet"
  /\ UNCHANGED <<vfd, accepted, open, sent, got, sender>>

Delivers(i) ==
  /\ event = "none"
  /\ i \in open
  /\ got[i] < Len(sent[i])
  /\ got' = [got EXCEPT ![i] = @ + 1]
  /\ UNCHANGED <<vfd, accepted, open, event, sent, sender>>

(* Mutant: the status is not looked at; a refused connection has no transport. *)
OnConnectResponseAny ==
  /\ event \in {"connected", "refused"}
  /\ vfd' = IF event = "connected" THEN accepted[Len(accepted)] ELSE NoTransport
  /\ event' = "none"
  /\ UNCHANGED <<accepted, open, sent, got, sender>>

(* YEK_CONNECT_RESPONSE: the newest frontend is the one to talk to. *)
OnConnectResponse ==
  /\ event \in {"connected", "refused"}
  /\ vfd' = IF event = "connected" THEN accepted[Len(accepted)] ELSE vfd
  /\ event' = "none"
  /\ UNCHANGED <<accepted, open, sent, got, sender>>

(* Mutant: another frontend takes the place of the one that is lost. *)
OnConnectionLostFallsBack ==
  /\ event = "lost"
  /\ vfd' = IF open = {} THEN vfd ELSE accepted[CHOOSE i \in open : TRUE]
  /\ event' = "none"
  /\ UNCHANGED <<accepted, open, sent, got, sender>>

(* YEK_CONNECTION_LOST: vfd_ stays. *)
OnConnectionLost ==
  /\ event = "lost"
  /\ event' = "none"
  /\ UNCHANGED <<vfd, accepted, open, sent, got, sender>>

(* YEK_PACKET: a command is read and nothing done. *)
OnPacket ==
  /\ event = "packet"
  /\ event' = "none"
  /\ UNCHANGED <<vfd, accepted, open, sent, got, sender>>

Handler == OnConnectResponse \/ OnConnectionLost \/ OnPacket

-----------------------------------------------------------------------------
(* The threads of the host.                                                *)

(* print, and send up to its read of vfd_. *)
PrintMsg(s) ==
  /\ ~sender[s].busy
  /\ sender[s].no < MaxMessages
  /\ sender' = [sender EXCEPT ![s] =
       [busy |-> TRUE, no |-> @.no + 1, since |-> Handled, target |-> vfd]]
  /\ UNCHANGED <<vfd, accepted, open, event, sent, got>>

Finish(s) == sender' = [sender EXCEPT ![s].busy = FALSE]

Written(s, i) ==
  sent' = [sent EXCEPT ![i] =
    Append(@, [from |-> s, no |-> sender[s].no, since |-> sender[s].since])]

(* Mutant: what was not meant for the current frontend is left out. *)
WriteToCurrent(s) ==
  /\ sender[s].busy
  /\ \/ \E i \in open : /\ accepted[i] = sender[s].target
                        /\ sender[s].target = vfd
                        /\ Written(s, i)
     \/ /\ \A i \in open : accepted[i] # sender[s].target \/ sender[s].target # vfd
        /\ UNCHANGED sent
  /\ Finish(s)
  /\ UNCHANGED <<vfd, accepted, open, event, got>>

(* Mutant: what was written before a frontend connected is written again. *)
WriteAgain(s) ==
  /\ sender[s].busy
  /\ LET to == {i \in open : accepted[i] \in {sender[s].target, vfd}} IN
       sent' = [i \in Sessions |-> IF i \in to
                  THEN Append(sent[i], [from |-> s, no |-> sender[s].no,
                                        since |-> sender[s].since])
                  ELSE sent[i]]
  /\ Finish(s)
  /\ UNCHANGED <<vfd, accepted, open, event, got>>

(* service_.write with the transport that was read. *)
Write(s) ==
  /\ sender[s].busy
  /\ \/ \E i \in open : accepted[i] = sender[s].target /\ Written(s, i)
     \/ (\A i \in open : accepted[i] # sender[s].target) /\ UNCHANGED sent
  /\ Finish(s)
  /\ UNCHANGED <<vfd, accepted, open, event, got>>

Next ==
  \/ \E t \in Transports : Connects(t)
  \/ Refuses
  \/ \E i \in open : Loses(i)
  \/ Receives
  \/ \E i \in open : Delivers(i)
  \/ Handler
  \/ \E s \in Senders : PrintMsg(s) \/ Write(s)

Spec == Init /\ [][Next]_vars

(***************************************************************************)
(* A thread inside send goes on, and so does the handler: neither waits.   *)
(* The service thread gets to the queue of an open connection however many *)
(* events come between.  Nothing is assumed of the frontends.              *)
(***************************************************************************)
FairSpec ==
  /\ Spec
  /\ WF_vars(Handler)
  /\ \A s \in Senders : WF_vars(Write(s))
  /\ \A i \in Sessions : SF_vars(Delivers(i))

-----------------------------------------------------------------------------
(* Type correctness of the session's state and of the connections. *)
SessionTypeOK ==
  /\ vfd \in Transports \cup {NoTransport}
  /\ accepted \in Seq(Transports)
  /\ Len(accepted) <= MaxSessions
  /\ open \subseteq DOMAIN accepted
  /\ event \in Events
  /\ event = "connected" => accepted # <<>>
  /\ sent \in [Sessions -> Seq(Message)]
  /\ got \in [Sessions -> Nat]
  /\ sender \in [Senders -> [busy   : BOOLEAN,
                             no     : 0 .. MaxMessages,
                             since  : 0 .. MaxSessions,
                             target : Transports \cup {NoTransport}]]

(***************************************************************************)
(* Between two calls of the handler vfd_ is the transport of the newest    *)
(* frontend, whatever was refused, lost or received since it connected.    *)
(***************************************************************************)
NewestIsCurrent ==
  event # "connected" /\ accepted # <<>> => vfd = accepted[Len(accepted)]

(***************************************************************************)
(* A message goes to the frontend that was the newest when it was printed, *)
(* or to a newer one that has got its transport, or nowhere: never to an   *)
(* older one, however long its thread stays between the read of vfd_ and   *)
(* the write (odbk_core::send has no lock).                                *)
(***************************************************************************)
NotToOlder ==
  \A i \in Sessions : \A k \in DOMAIN sent[i] : sent[i][k].since <= i

(***************************************************************************)
(* No message is read twice, by two frontends or by one: a frontend that   *)
(* connects, or takes over a transport, while a thread is between the read *)
(* of vfd_ and the write, does not double what is written (odbk_core::send *)
(* reads vfd_ once and has no retry).                                      *)
(***************************************************************************)
OnlyOnce ==
  \A i, j \in Sessions : \A k \in DOMAIN sent[i], l \in DOMAIN sent[j] :
    sent[i][k].from = sent[j][l].from /\ sent[i][k].no = sent[j][l].no => i = j /\ k = l

(***************************************************************************)
(* A message on its way to a connection arrives, unless the connection is  *)
(* lost: also when another frontend connects in between.                   *)
(***************************************************************************)
Arrives ==
  \A s \in Senders, n \in 1 .. MaxMessages, i \in Sessions :
    /\ sender[s].busy
    /\ sender[s].no = n
    /\ i \in open
    /\ accepted[i] = sender[s].target
    ~> \/ i \notin open
       \/ \E k \in 1 .. got[i] : sent[i][k].from = s /\ sent[i][k].no = n
=============================================================================
