-------------------------- MODULE RemoteControlProofs --------------------------
(***************************************************************************)
(* The commands and the answers of remote recording, for any number of     *)
(* clients and datagrams, any depth of the topics and any pids.  What      *)
(* every step does to the children is BagRecorderProofs's.                 *)
(***************************************************************************)
EXTENDS RemoteControl, BagRecorderProofs

(* The topic always holds the last datagrams read, without a gap: newer    *)
(* ones push older ones out, and a restart empties it.  So what was taken  *)
(* or dropped is older than all it holds.                                  *)
Taken == Len(heard) - Len(cmds)

QueueInv ==
  /\ Taken \in Nat /\ Len(heard) <= MaxHeard
  /\ \A j \in DOMAIN cmds : cmds[j] = Taken + j
  /\ \A i \in DOMAIN executed : executed[i] <= Taken
  /\ \A id \in overrun : id <= Taken
  /\ \A i, j \in DOMAIN executed : i < j => executed[i] < executed[j]
  /\ \A id \in overrun : id \notin Range(executed) /\ Len(heard) >= id + Depth

(* The client whose address is kept sent the last command, or an empty     *)
(* datagram since.                                                         *)
HeardLast(c) == heard[Len(heard)].from = c \/ <<c, Len(heard)>> \in empty

(* The address is that of the last datagram, and nothing answers a command *)
(* that was not heard.                                                     *)
AddressInv ==
  /\ client_addr = Nobody <=> heard = <<>>
  /\ heard # <<>> => HeardLast(client_addr[1])
  /\ \A j \in DOMAIN replies : replies[j] <= Len(heard)
  /\ \A id \in Range(stopping) : id <= Len(heard)

IInv == TypeOK /\ ChildrenTracked /\ QueueInv /\ AddressInv /\ AnswerGoesToAsker

-------------------------------------------------------------------------------
(* Topics.                                                                 *)

\* What a topic holds after a message more: the message last, before it what
\* it held, without the oldest if it was full.
LEMMA Published ==
  ASSUME NEW S, NEW topic \in Seq(S), Len(topic) <= Depth, NEW message \in S,
         NEW new, new = Publish(topic, message)
  PROVE  /\ new \in Seq(S)
         /\ Len(new) = IF Full(topic) THEN Len(topic) ELSE Len(topic) + 1
         /\ Len(new) <= Depth
         /\ \A j \in DOMAIN new :
              new[j] = IF j = Len(new) THEN message
                       ELSE IF Full(topic) THEN topic[j + 1] ELSE topic[j]
<1>1. CASE Full(topic)
  <2>1. topic # <<>>
    BY <1>1, DepthAssumption DEF Full
  <2>2. /\ Tail(topic) \in Seq(S) /\ Len(Tail(topic)) = Len(topic) - 1
        /\ \A j \in 1 .. Len(topic) - 1 : Tail(topic)[j] = topic[j + 1]
    BY <2>1
  <2>3. new = Append(Tail(topic), message)
    BY <1>1 DEF Publish
  <2> QED BY <1>1, <2>1, <2>2, <2>3, DepthAssumption DEF Full
<1>2. CASE ~Full(topic)
  <2>1. new = Append(topic, message)
    BY <1>2 DEF Publish
  <2> QED BY <1>2, <2>1, DepthAssumption DEF Full
<1> QED BY <1>1, <1>2

\* A reply the agent sends is about a command that was heard.
LEMMA ReplySent ==
  ASSUME IInv, NEW id \in Ids \cup {MissionComplete}, id <= Len(heard), SendReply(id)
  PROVE  /\ replies' \in Seq(Ids \cup {MissionComplete}) /\ Len(replies') <= Depth
         /\ unanswered' \subseteq Ids \cup {MissionComplete}
         /\ \A j \in DOMAIN replies' : replies'[j] <= Len(heard)
<1> DEFINE S == Ids \cup {MissionComplete}
<1>1. replies \in Seq(S) /\ Len(replies) <= Depth
  BY DEF IInv, TypeOK
<1>2. replies' = Publish(replies, id)
  BY DEF SendReply
<1>3. /\ replies' \in Seq(S) /\ Len(replies') <= Depth
      /\ \A j \in DOMAIN replies' :
           replies'[j] = IF j = Len(replies') THEN id
                         ELSE IF Full(replies) THEN replies[j + 1] ELSE replies[j]
      /\ Len(replies') = IF Full(replies) THEN Len(replies) ELSE Len(replies) + 1
  <2> HIDE DEF S
  <2>1. id \in S
    BY DEF S
  <2> QED BY <1>1, <1>2, <2>1, Published DEF Publish, Full
<1>4. \A j \in DOMAIN replies' : replies'[j] <= Len(heard)
  BY <1>1, <1>3 DEF IInv, AddressInv
<1>5. Full(replies) => Head(replies) \in S
  BY <1>1, DepthAssumption DEF Full
<1>6. unanswered' \subseteq S
  BY <1>5 DEF SendReply, IInv, TypeOK
<1> QED BY <1>3, <1>4, <1>6

-------------------------------------------------------------------------------
(* The server.                                                             *)

\* What the agent has taken is older than all that is queued.
LEMMA ExecutedTaken ==
  ASSUME IInv
  PROVE  \A i \in DOMAIN executed : executed[i] \in Nat /\ executed[i] <= Taken
<1>1. executed \in Seq(Ids)
  BY DEF IInv, TypeOK
<1>2. \A i \in DOMAIN executed : executed[i] \in Ids
  BY <1>1
<1>3. Ids \subseteq Nat
  BY DepthAssumption DEF Ids
<1> QED BY <1>2, <1>3 DEF IInv, QueueInv

\* A datagram is read and published.
LEMMA ReadPreserves ==
  ASSUME IInv, NEW d \in Datagrams, ReadDatagram(d)
  PROVE  IInv'
<1> DEFINE n == Len(heard) + 1
<1>1. /\ heard \in Seq(Datagrams) /\ n <= MaxHeard /\ n \in Ids
      /\ cmds \in Seq(Ids) /\ Len(cmds) <= Depth /\ d.from \in Clients
  BY DepthAssumption DEF ReadDatagram, IInv, TypeOK, Ids, Datagrams
<1>2. /\ heard' = Append(heard, d) /\ heard' \in Seq(Datagrams) /\ Len(heard') = n
      /\ heard'[n] = d /\ \A i \in 1 .. Len(heard) : heard'[i] = heard[i]
  BY <1>1 DEF ReadDatagram
<1>13. cmds' = Publish(cmds, n)
  BY <1>1, <1>2 DEF ReadDatagram
<1>3. /\ cmds' \in Seq(Ids) /\ Len(cmds') <= Depth
      /\ Len(cmds') = IF Full(cmds) THEN Len(cmds) ELSE Len(cmds) + 1
      /\ \A j \in DOMAIN cmds' : cmds'[j] = IF j = Len(cmds') THEN n
                                            ELSE IF Full(cmds) THEN cmds[j + 1] ELSE cmds[j]
  BY <1>1, <1>13, Published DEF Publish, Full
<1>4. Full(cmds) => Head(cmds) = Taken + 1 /\ Head(cmds) \in Ids /\ Len(cmds) = Depth
  BY <1>1, DepthAssumption DEF Full, IInv, QueueInv
<1>5. overrun' = IF Full(cmds) THEN overrun \cup {Head(cmds)} ELSE overrun
  BY DEF ReadDatagram
<1>6. /\ UNCHANGED <<replies, executed, stopping, cut_off, unanswered, answers>>
      /\ UNCHANGED <<bagVars, empty>> /\ draining' = TRUE /\ client_addr' = <<d.from>>
  BY DEF ReadDatagram, RememberClient, agentVars
<1>7. BagInv'
  BY <1>6, BagUnchanged DEF IInv, TypeOK, BagInv
<1>8. TypeOK'
  <2>1. overrun' \cup cut_off' \subseteq Ids
    BY <1>4, <1>5, <1>6 DEF IInv, TypeOK
  <2> QED BY <1>1, <1>2, <1>3, <1>6, <1>7, <2>1 DEF IInv, TypeOK, BagInv, Ids
<1>9. QueueInv'
  <2>2. Taken \in Nat /\ Taken = Len(heard) - Len(cmds)
    BY DEF IInv, QueueInv, Taken
  <2>0. Taken' = Len(heard') - Len(cmds')
    BY DEF Taken
  <2>1. Taken' = IF Full(cmds) THEN Taken + 1 ELSE Taken
    BY <1>1, <1>2, <1>3, <2>0, <2>2
  <2>8. \A j \in DOMAIN cmds : cmds[j] = Taken + j
    BY DEF IInv, QueueInv
  <2>9. \A i \in DOMAIN executed : executed[i] \in Nat /\ executed[i] <= Taken
    BY ExecutedTaken
  <2>3. \A j \in DOMAIN cmds' : cmds'[j] = Taken' + j
    <3>1. Len(cmds') \in Nat /\ DOMAIN cmds' = 1 .. Len(cmds')
          /\ Len(cmds) \in Nat /\ DOMAIN cmds = 1 .. Len(cmds)
          /\ Len(heard) \in Nat
      BY <1>1, <1>3
    <3>2. n = Taken' + Len(cmds')
      BY <1>2, <2>0, <3>1
    <3> SUFFICES ASSUME NEW j \in 1 .. Len(cmds') PROVE cmds'[j] = Taken' + j
      BY <3>1
    <3>3. CASE j = Len(cmds')
      BY <1>3, <3>1, <3>2, <3>3
    <3>4. CASE j # Len(cmds') /\ Full(cmds)
      <4>5. Len(cmds') = Len(cmds)
        BY <1>3, <3>4
      <4>1. j + 1 \in 1 .. Len(cmds)
        <5>1. \A m \in Nat : \A k \in 1 .. m : k # m => k + 1 \in 1 .. m
          OBVIOUS
        <5>2. j \in 1 .. Len(cmds) /\ j # Len(cmds) /\ Len(cmds) \in Nat
          BY <3>1, <3>4, <4>5, Zenon
        <5> QED BY <5>1, <5>2
      <4>2. cmds'[j] = cmds[j + 1]
        BY <1>3, <3>1, <3>4
      <4>3. cmds[j + 1] = Taken + (j + 1)
        BY <2>8, <3>1, <4>1
      <4>4. Taken' = Taken + 1
        BY <2>1, <3>4
      <4> QED BY <2>2, <4>2, <4>3, <4>4
    <3>5. CASE j # Len(cmds') /\ ~Full(cmds)
      <4>1. cmds'[j] = cmds[j] /\ j \in 1 .. Len(cmds)
        BY <1>3, <3>1, <3>5
      <4> QED BY <2>1, <2>2, <2>8, <3>1, <3>5, <4>1
    <3> QED BY <3>3, <3>4, <3>5
  <2>4. executed \in Seq(Ids)
    BY DEF IInv, TypeOK
  <2>5. \A i \in DOMAIN executed' : executed'[i] <= Taken'
    BY <1>6, <2>1, <2>2, <2>9
  <2>6. \A id \in overrun' :
          id <= Taken' /\ id \notin Range(executed') /\ Len(heard') >= id + Depth
    <3> SUFFICES ASSUME NEW id \in overrun'
                 PROVE  id <= Taken' /\ id \notin Range(executed') /\ Len(heard') >= id + Depth
      OBVIOUS
    <3>1. CASE id \in overrun
      <4>1. id \in Nat
        BY <3>1 DEF IInv, TypeOK, Ids
      <4> QED BY <1>1, <1>2, <1>6, <2>1, <2>2, <3>1, <4>1, DepthAssumption DEF IInv, QueueInv
    <3>2. CASE id \notin overrun
      <4>1. Full(cmds) /\ id = Taken + 1
        BY <1>4, <1>5, <3>2
      <4>2. id \notin Range(executed)
        BY <2>2, <2>4, <4>1 DEF Range, IInv, QueueInv, Ids
      <4> QED BY <1>1, <1>2, <1>4, <1>6, <2>1, <2>2, <4>1, <4>2, DepthAssumption
    <3> QED BY <3>1, <3>2
  <2>7. \A i, j \in DOMAIN executed' : i < j => executed'[i] < executed'[j]
    BY <1>6 DEF IInv, QueueInv
  <2> QED BY <1>1, <1>2, <2>1, <2>2, <2>3, <2>5, <2>6, <2>7 DEF QueueInv
<1>10. AddressInv'
  <2>1. \A j \in DOMAIN replies' : replies'[j] <= Len(heard')
    BY <1>1, <1>2, <1>6 DEF IInv, AddressInv, TypeOK, Ids, MissionComplete
  <2>2. \A id \in Range(stopping') : id <= Len(heard')
    <3>1. \A id \in Range(stopping) : id \in Int
      BY DEF IInv, TypeOK, Ids, MissionComplete, Range
    <3> QED BY <1>1, <1>2, <1>6, <3>1 DEF IInv, AddressInv
  <2>3. heard' # <<>>
    BY <1>1, <1>2
  <2> QED BY <1>2, <1>6, <2>1, <2>2, <2>3 DEF AddressInv, HeardLast, Nobody
<1>11. AnswerGoesToAsker'
  <2> SUFFICES ASSUME NEW a \in answers, a.id # MissionComplete
               PROVE  \E i \in a.id .. Len(heard') :
                        heard'[i].from = a.to \/ <<a.to, i>> \in empty
    BY <1>6 DEF AnswerGoesToAsker
  <2>1. PICK i \in a.id .. Len(heard) : heard[i].from = a.to \/ <<a.to, i>> \in empty
    BY DEF IInv, AnswerGoesToAsker
  <2>2. a.id \in Ids
    BY DEF IInv, TypeOK
  <2>3. i \in 1 .. Len(heard) /\ i \in a.id .. Len(heard')
    BY <1>1, <1>2, <2>2, DepthAssumption DEF Ids
  <2>4. heard'[i] = heard[i]
    BY <1>2, <2>3
  <2> QED BY <2>1, <2>3, <2>4
<1> QED BY <1>7, <1>8, <1>9, <1>10, <1>11 DEF IInv, BagInv

\* A step that changes nothing the invariant ties together.
LEMMA QuietPreserves ==
  ASSUME IInv, BagInv', draining' \in BOOLEAN,
         UNCHANGED <<client_addr, heard, empty, topicVars, agentVars, lossVars, answers>>
  PROVE  IInv'
<1>1. UNCHANGED <<client_addr, heard, empty, cmds, replies, executed, stopping, overrun,
                  cut_off, unanswered, answers>>
  BY DEF topicVars, agentVars, lossVars
<1>2. TypeOK'
  BY <1>1 DEF IInv, TypeOK, BagInv
<1>3. QueueInv'
  BY <1>1 DEF IInv, QueueInv, Taken
<1>4. AddressInv' /\ AnswerGoesToAsker'
  BY <1>1 DEF IInv, AddressInv, HeardLast, AnswerGoesToAsker
<1> QED BY <1>2, <1>3, <1>4 DEF IInv, BagInv

\* An empty datagram makes its sender the one heard last.
LEMMA ReadEmptyPreserves ==
  ASSUME IInv, NEW c \in Clients, ReadEmpty(c)
  PROVE  IInv'
<1>1. /\ UNCHANGED <<bagVars, heard, cmds, replies, executed, stopping, overrun, cut_off,
                     unanswered, answers>>
      /\ draining' = TRUE /\ client_addr' = <<c>>
      /\ empty' = empty \cup {<<c, Len(heard)>>}
  BY DEF ReadEmpty, RememberClient, topicVars, agentVars, lossVars
<1>2. BagInv'
  BY <1>1, BagUnchanged DEF IInv, TypeOK, BagInv
<1>3. TypeOK'
  <2>1. <<c, Len(heard)>> \in Clients \X (0 .. MaxHeard)
    BY DepthAssumption DEF IInv, TypeOK, QueueInv
  <2>2. empty' \subseteq Clients \X (0 .. MaxHeard)
    BY <1>1, <2>1 DEF IInv, TypeOK
  <2> QED BY <1>1, <1>2, <2>2 DEF IInv, TypeOK, BagInv
<1>4. QueueInv'
  BY <1>1 DEF IInv, QueueInv, Taken
<1>5. AddressInv'
  <2>1. heard # <<>>
    BY DEF ReadEmpty, IInv, AddressInv
  <2> QED BY <1>1, <2>1 DEF IInv, AddressInv, HeardLast, Nobody
<1>6. AnswerGoesToAsker'
  BY <1>1 DEF IInv, AnswerGoesToAsker
<1> QED BY <1>2, <1>3, <1>4, <1>5, <1>6 DEF IInv, BagInv

\* A reply goes to the sender of the last datagram read.
LEMMA ReplyPreserves ==
  ASSUME IInv, ReplyCallback
  PROVE  IInv'
<1> DEFINE S == Ids \cup {MissionComplete}
<1>1. replies \in Seq(S) /\ replies # <<>> /\ Len(replies) <= Depth
  BY DEF IInv, TypeOK, ReplyCallback
<1>2. /\ replies' = Tail(replies) /\ replies' \in Seq(S) /\ Len(replies') = Len(replies) - 1
      /\ \A j \in 1 .. Len(replies') : replies'[j] = replies[j + 1]
      /\ Head(replies) \in S /\ Head(replies) = replies[1]
  BY <1>1 DEF ReplyCallback
<1>3. UNCHANGED <<bagVars, draining, client_addr, heard, empty, cmds, executed, stopping,
                  overrun, cut_off, unanswered>>
  BY DEF ReplyCallback, serverVars, agentVars, lossVars
<1>4. BagInv'
  BY <1>3, BagUnchanged DEF IInv, TypeOK, BagInv
<1>5. \/ answers' = answers
      \/ /\ heard # <<>> /\ client_addr # Nobody
         /\ answers' = answers \cup {[id |-> Head(replies), to |-> client_addr[1]]}
  BY DEF ReplyCallback, client_addr_set, IInv, AddressInv
<1>6. heard # <<>> =>
        HeardLast(client_addr[1]) /\ client_addr[1] \in Clients /\ Len(heard) >= 1
  <2> SUFFICES ASSUME heard # <<>>
               PROVE  HeardLast(client_addr[1]) /\ client_addr[1] \in Clients /\ Len(heard) >= 1
    OBVIOUS
  <2>1. heard \in Seq(Datagrams) /\ Len(heard) >= 1
    BY DEF IInv, TypeOK
  <2>2. client_addr[1] \in Clients
    BY DEF IInv, TypeOK, AddressInv
  <2> QED BY <2>1, <2>2 DEF IInv, AddressInv
<1>7. answers' \subseteq [id : S, to : Clients]
  BY <1>2, <1>5, <1>6 DEF IInv, TypeOK
<1>8. TypeOK'
  <2>1. Len(replies') <= Depth
    BY <1>1, <1>2, DepthAssumption
  <2> QED BY <1>2, <1>3, <1>4, <1>7, <2>1 DEF IInv, TypeOK, BagInv
<1>9. QueueInv'
  BY <1>3 DEF IInv, QueueInv, Taken
<1>10. AddressInv'
  <2>1. \A j \in DOMAIN replies' : replies'[j] <= Len(heard')
    BY <1>1, <1>2, <1>3 DEF IInv, AddressInv
  <2> QED BY <1>3, <2>1 DEF IInv, AddressInv, HeardLast
<1>11. AnswerGoesToAsker'
  <2> SUFFICES ASSUME NEW a \in answers', a.id # MissionComplete
               PROVE  \E i \in a.id .. Len(heard) :
                        heard[i].from = a.to \/ <<a.to, i>> \in empty
    BY <1>3 DEF AnswerGoesToAsker
  <2>1. CASE a \in answers
    BY <2>1 DEF IInv, AnswerGoesToAsker
  <2>2. CASE a \notin answers
    <3>1. a = [id |-> Head(replies), to |-> client_addr[1]] /\ heard # <<>>
      BY <1>5, <2>2
    <3>2. a.id <= Len(heard) /\ a.id \in Ids
      BY <1>1, <1>2, <3>1 DEF IInv, AddressInv
    <3>3. Len(heard) \in a.id .. Len(heard)
      BY <3>2 DEF Ids, IInv, TypeOK
    <3> QED BY <1>6, <3>1, <3>3 DEF HeardLast
  <2> QED BY <2>1, <2>2
<1> QED BY <1>4, <1>8, <1>9, <1>10, <1>11 DEF IInv, BagInv

-------------------------------------------------------------------------------
(* The agent.                                                              *)

\* The agent takes the oldest command there is.
LEMMA TakePreserves ==
  ASSUME IInv, TakeCommand
  PROVE  IInv'
<1> DEFINE id == Head(cmds)
<1>1. cmds \in Seq(Ids) /\ cmds # <<>> /\ Len(cmds) <= Depth /\ stopping = <<>>
      /\ executed \in Seq(Ids)
  BY DEF IInv, TypeOK, TakeCommand, Busy
<1>2. /\ cmds' = Tail(cmds) /\ cmds' \in Seq(Ids) /\ Len(cmds') = Len(cmds) - 1
      /\ \A j \in 1 .. Len(cmds') : cmds'[j] = cmds[j + 1]
      /\ id \in Ids /\ id = cmds[1] /\ Len(cmds') <= Depth
  BY <1>1, DepthAssumption DEF TakeCommand
<1>3. /\ Taken \in Nat /\ Taken = Len(heard) - Len(cmds) /\ id = Taken + 1
      /\ id <= Len(heard) /\ Taken' = Taken + 1
  <2>1. Taken \in Nat /\ Taken = Len(heard) - Len(cmds) /\ Len(heard) \in Nat
    BY DEF IInv, QueueInv, Taken, TypeOK
  <2>2. Len(cmds) \in Nat /\ Len(cmds) >= 1
    BY <1>1
  <2>3. id = Taken + 1
    BY <1>1, <1>2, <2>2 DEF IInv, QueueInv
  <2>4. Taken' = Len(heard) - Len(cmds')
    BY DEF Taken, TakeCommand, serverVars
  <2> QED BY <1>2, <2>1, <2>2, <2>3, <2>4
<1>4. UNCHANGED <<draining, client_addr, heard, empty, overrun, cut_off, answers>>
  BY DEF TakeCommand, serverVars
<1>5. /\ executed' = Append(executed, id) /\ executed' \in Seq(Ids)
      /\ Len(executed') = Len(executed) + 1 /\ executed'[Len(executed')] = id
      /\ \A i \in 1 .. Len(executed) : executed'[i] = executed[i]
  BY <1>1, <1>2 DEF TakeCommand
<1>6. BagInv' /\ SendReply(id) /\ stopping' \in {<<>>, <<id>>}
  <2> USE DEF IInv, TypeOK, BagInv
  <2>1. CASE RecordStart(id)
    BY <1>1, <2>1, StartPreserves DEF RecordStart
  <2>2. CASE RecordStop(id)
    BY <1>1, <2>2, BagUnchanged DEF RecordStop, ReplyFirst
  <2>3. CASE GetStatus(id)
    BY <1>1, <2>3, BagUnchanged DEF GetStatus
  <2> QED BY <2>1, <2>2, <2>3 DEF TakeCommand
<1>7. /\ replies' \in Seq(Ids \cup {MissionComplete}) /\ Len(replies') <= Depth
      /\ unanswered' \subseteq Ids \cup {MissionComplete}
      /\ \A j \in DOMAIN replies' : replies'[j] <= Len(heard)
  BY <1>2, <1>3, <1>6, ReplySent
<1>8. TypeOK'
  BY <1>2, <1>4, <1>5, <1>6, <1>7 DEF IInv, TypeOK, BagInv
<1>9. QueueInv'
  <2>1. \A j \in DOMAIN cmds' : cmds'[j] = Taken' + j
    BY <1>1, <1>2, <1>3 DEF IInv, QueueInv
  <2>5. \A i \in DOMAIN executed : executed[i] \in Nat /\ executed[i] <= Taken
    BY ExecutedTaken
  <2>2. \A i \in DOMAIN executed' : executed'[i] <= Taken'
    BY <1>1, <1>3, <1>5, <2>5
  <2>3. \A i, j \in DOMAIN executed' : i < j => executed'[i] < executed'[j]
    <3>1. \A i, j \in DOMAIN executed : i < j => executed[i] < executed[j]
      BY DEF IInv, QueueInv
    <3> QED BY <1>1, <1>3, <1>5, <2>5, <3>1
  <2>4. \A n \in overrun' : n <= Taken' /\ n \notin Range(executed')
                            /\ Len(heard') >= n + Depth
    <3> SUFFICES ASSUME NEW n \in overrun
                 PROVE  n <= Taken' /\ n \notin Range(executed') /\ Len(heard') >= n + Depth
      BY <1>4
    <3>1. n \in Nat /\ n <= Taken /\ n \notin Range(executed) /\ Len(heard) >= n + Depth
      BY DEF IInv, QueueInv, TypeOK, Ids
    <3>2. n \notin Range(executed')
      BY <1>1, <1>3, <1>5, <3>1 DEF Range
    <3> QED BY <1>3, <1>4, <3>1, <3>2
  <2> QED BY <1>3, <1>4, <2>1, <2>2, <2>3, <2>4 DEF QueueInv, IInv
<1>10. AddressInv'
  <2>1. \A n \in Range(stopping') : n <= Len(heard)
    BY <1>3, <1>6 DEF Range
  <2> QED BY <1>4, <1>7, <2>1 DEF IInv, AddressInv, HeardLast
<1>11. AnswerGoesToAsker'
  BY <1>4 DEF IInv, AnswerGoesToAsker
<1> QED BY <1>6, <1>8, <1>9, <1>10, <1>11 DEF IInv, BagInv

\* A mission's end begins a stop.
LEMMA MissionPreserves ==
  ASSUME IInv, MissionEnds
  PROVE  IInv'
<1>1. /\ UNCHANGED <<bagVars, draining, client_addr, heard, empty, cmds, replies, executed,
                     overrun, cut_off, unanswered, answers>>
      /\ stopping' = <<MissionComplete>>
  BY DEF MissionEnds, serverVars, topicVars, lossVars
<1>2. BagInv'
  BY <1>1, BagUnchanged DEF IInv, TypeOK, BagInv
<1>3. TypeOK'
  BY <1>1, <1>2 DEF IInv, TypeOK, BagInv
<1>4. QueueInv'
  BY <1>1 DEF IInv, QueueInv, Taken
<1>5. AddressInv'
  <2>1. \A n \in Range(stopping') : n <= Len(heard)
    BY <1>1 DEF Range, MissionComplete, IInv, TypeOK
  <2> QED BY <1>1, <2>1 DEF IInv, AddressInv, HeardLast
<1>6. AnswerGoesToAsker'
  BY <1>1 DEF IInv, AnswerGoesToAsker
<1> QED BY <1>2, <1>3, <1>4, <1>5, <1>6 DEF IInv, BagInv

\* A stop returns, and reports a mission.
LEMMA StopReturnPreserves ==
  ASSUME IInv, StopReturns
  PROVE  IInv'
<1>1. /\ UNCHANGED <<draining, client_addr, heard, empty, cmds, executed, overrun, cut_off,
                     answers>>
      /\ stopping' = <<>>
  BY DEF StopReturns, serverVars
<1>2. BagInv'
  BY StopPreserves DEF StopReturns, IInv, TypeOK, BagInv
<1>3. /\ replies' \in Seq(Ids \cup {MissionComplete}) /\ Len(replies') <= Depth
      /\ unanswered' \subseteq Ids \cup {MissionComplete}
      /\ \A j \in DOMAIN replies' : replies'[j] <= Len(heard)
  <2>1. CASE SendReply(MissionComplete)
    <3>1. MissionComplete <= Len(heard)
      BY DEF MissionComplete, IInv, TypeOK
    <3> QED BY <2>1, <3>1, ReplySent
  <2>2. CASE UNCHANGED <<replies, unanswered>>
    BY <2>2 DEF IInv, TypeOK, AddressInv
  <2> QED BY <2>1, <2>2 DEF StopReturns
<1>4. TypeOK'
  BY <1>1, <1>2, <1>3 DEF IInv, TypeOK, BagInv
<1>5. QueueInv'
  BY <1>1 DEF IInv, QueueInv, Taken
<1>6. AddressInv'
  <2>1. \A n \in Range(stopping') : n <= Len(heard)
    BY <1>1 DEF Range
  <2> QED BY <1>1, <1>3, <2>1 DEF IInv, AddressInv, HeardLast
<1>7. AnswerGoesToAsker'
  BY <1>1 DEF IInv, AnswerGoesToAsker
<1> QED BY <1>2, <1>4, <1>5, <1>6, <1>7 DEF IInv, BagInv

\* A restart empties the queue: all that was heard is behind it.
LEMMA RestartPreserves ==
  ASSUME IInv, AgentRestarts
  PROVE  IInv'
<1>1. /\ UNCHANGED <<draining, client_addr, heard, empty, replies, executed, overrun,
                     unanswered, answers>>
      /\ cmds' = <<>> /\ stopping' = <<>> /\ cut_off' = cut_off \cup Range(cmds)
  BY DEF AgentRestarts, serverVars
<1>2. BagInv'
  <2>1. BagInit'
    BY DestroyPreserves DEF AgentRestarts, IInv, TypeOK, BagInv
  <2> QED BY <2>1, NoPidAssumption DEF BagInit, BagInv, BagTypeOK, ChildrenTracked,
         FlagMatchesPid, PidsAreOurs, NoOrphanChild, ProcStates, RecorderStates,
         ConversionStates
<1>3. TypeOK'
  <2>1. Range(cmds) \subseteq Ids
    BY DEF Range, IInv, TypeOK
  <2> QED BY <1>1, <1>2, <2>1, DepthAssumption DEF IInv, TypeOK, BagInv
<1>4. QueueInv'
  <2>1. heard \in Seq(Datagrams) /\ cmds \in Seq(Ids) /\ executed \in Seq(Ids) /\ overrun \subseteq Ids
    BY DEF IInv, TypeOK
  <2>2. Taken' = Len(heard) /\ Taken <= Len(heard) /\ Taken \in Nat
    BY <1>1, <2>1 DEF Taken, IInv, QueueInv
  <2>5. \A i \in DOMAIN executed : executed[i] \in Nat /\ executed[i] <= Taken
    BY ExecutedTaken
  <2>3. \A i \in DOMAIN executed' : executed'[i] <= Taken'
    BY <1>1, <2>1, <2>2, <2>5
  <2>4. \A id \in overrun' : id <= Taken'
    BY <1>1, <2>1, <2>2 DEF IInv, QueueInv, Ids
  <2> QED BY <1>1, <2>1, <2>2, <2>3, <2>4 DEF IInv, QueueInv
<1>5. AddressInv'
  <2>1. \A n \in Range(stopping') : n <= Len(heard)
    BY <1>1 DEF Range
  <2> QED BY <1>1, <2>1 DEF IInv, AddressInv, HeardLast
<1>6. AnswerGoesToAsker'
  BY <1>1 DEF IInv, AnswerGoesToAsker
<1> QED BY <1>2, <1>3, <1>4, <1>5, <1>6 DEF IInv, BagInv

-------------------------------------------------------------------------------
LEMMA Initial == Init => IInv
<1> SUFFICES ASSUME Init PROVE IInv
  OBVIOUS
<1>1. BagInv
  BY BagInitial DEF Init
<1>2. TypeOK
  <2>1. <<>> \in Seq(Ids) /\ <<>> \in Seq(Ids \cup {MissionComplete})
        /\ <<>> \in Seq(Datagrams) /\ Len(<<>>) = 0
    OBVIOUS
  <2>2. /\ cmds \in Seq(Ids) /\ Len(cmds) <= Depth
        /\ replies \in Seq(Ids \cup {MissionComplete}) /\ Len(replies) <= Depth
        /\ heard \in Seq(Datagrams) /\ executed \in Seq(Ids)
    BY <2>1, DepthAssumption DEF Init
  <2>3. /\ overrun \cup cut_off \subseteq Ids
        /\ unanswered \subseteq Ids \cup {MissionComplete}
        /\ answers \subseteq [id : Ids \cup {MissionComplete}, to : Clients]
        /\ empty \subseteq Clients \X (0 .. MaxHeard)
    BY DEF Init
  <2>4. /\ client_addr \in {Nobody} \cup {<<c>> : c \in Clients}
        /\ stopping \in {<<>>} \cup {<<i>> : i \in Ids \cup {MissionComplete}}
        /\ draining \in BOOLEAN
    BY DEF Init
  <2> QED BY <1>1, <2>2, <2>3, <2>4 DEF TypeOK, BagInv
<1>3. QueueInv
  BY DepthAssumption DEF Init, QueueInv, Taken
<1>4. AddressInv /\ AnswerGoesToAsker
  BY DEF Init, AddressInv, AnswerGoesToAsker, Range
<1> QED BY <1>1, <1>2, <1>3, <1>4 DEF IInv, BagInv

LEMMA Inductive == IInv /\ [Next]_vars => IInv'
<1> SUFFICES ASSUME IInv, [Next]_vars PROVE IInv'
  OBVIOUS
<1>1. CASE \E d \in Datagrams : ReadDatagram(d)
  BY <1>1, ReadPreserves
<1>10. CASE \E c \in Clients : ReadEmpty(c)
  BY <1>10, ReadEmptyPreserves
<1>2. CASE DrainEnds
  <2>1. BagInv'
    BY <1>2, BagUnchanged DEF DrainEnds, IInv, TypeOK, BagInv
  <2> QED BY <1>2, <2>1, QuietPreserves DEF DrainEnds
<1>3. CASE ReplyCallback
  BY <1>3, ReplyPreserves
<1>4. CASE TakeCommand
  BY <1>4, TakePreserves
<1>5. CASE MissionEnds
  BY <1>5, MissionPreserves
<1>6. CASE StopReturns
  BY <1>6, StopReturnPreserves
<1>7. CASE \E p \in Pids : ChildEnds(p)
  <2>1. BagInv'
    BY <1>7, ExitPreserves DEF ChildEnds, IInv, TypeOK, BagInv
  <2> QED BY <1>7, <2>1, QuietPreserves DEF ChildEnds, serverVars, IInv, TypeOK
<1>8. CASE AgentRestarts
  BY <1>8, RestartPreserves
<1>9. CASE UNCHANGED vars
  <2>1. BagInv'
    BY <1>9, BagUnchanged DEF vars, IInv, TypeOK, BagInv
  <2> QED BY <1>9, <2>1, QuietPreserves DEF vars, serverVars, IInv, TypeOK
<1> QED BY <1>1, <1>2, <1>3, <1>4, <1>5, <1>6, <1>7, <1>8, <1>9, <1>10 DEF Next

LEMMA AlwaysIInv == Spec => []IInv
BY Initial, Inductive, PTL DEF Spec

\* Commands are executed in the order they were heard, none twice, and one the
\* topic dropped was followed by Depth newer ones, for any depth.
THEOREM OrderSafe == Spec => []CommandsInOrder
<1>1. IInv => CommandsInOrder
  BY DEF IInv, QueueInv, CommandsInOrder
<1> QED BY <1>1, AlwaysIInv, PTL

\* An answer never goes to a client that was not heard since the question.
THEOREM AnswerSafe == Spec => []AnswerGoesToAsker
<1>1. IInv => AnswerGoesToAsker
  BY DEF IInv
<1> QED BY <1>1, AlwaysIInv, PTL

\* The composition keeps what BagRecorder promises of the children, stops,
\* missions' ends and restarts in any order.
THEOREM RemoteChildrenSafe == Spec => []ChildrenTracked
<1>1. IInv => ChildrenTracked
  BY DEF IInv
<1> QED BY <1>1, AlwaysIInv, PTL
===============================================================================
