----------------------------- MODULE RemoteControl -----------------------------
(***************************************************************************)
(* Remote recording end to end: clients on the network, udp_server_node,   *)
(* the two topics between it and robot_agent_node, and the agent, whose    *)
(* only thread takes no command while it stops a recorder.  Of the         *)
(* children only what BagRecorder promises matters here: a stop is one     *)
(* step, at its end, and the thread is busy from its beginning.            *)
(*                                                                         *)
(* UDP loses and reorders datagrams, so all that is known of those the     *)
(* server reads is that clients sent them; a datagram is told apart by its *)
(* number in the order they are read.  The topics keep the newest messages.*)
(* The server answers whoever spoke last: recvfrom writes the sender of    *)
(* each datagram over the last one, even of an empty one, which is no      *)
(* command.                                                                *)
(***************************************************************************)
EXTENDS BagRecorder, Integers, Sequences, FiniteSets, Functions

CONSTANTS
  Clients,   \* addresses datagrams come from
  MaxHeard,  \* bounds the commands read
  MaxEmpty,  \* bounds the empty datagrams read
  Depth      \* of the two topics, 10 in the code

ASSUME DepthAssumption == Depth \in Nat \ {0} /\ {MaxHeard, MaxEmpty} \subseteq Nat

VARIABLES
  draining,    \* the server is in check_udp_loop
  client_addr, \* the sender of the last datagram read, none before the first
  cmds,        \* udp_read_string
  replies,     \* udp_write_string
  heard,       \* the commands read, in order
  empty,       \* <<c, n>>: an empty datagram of c was read after n commands
  executed,    \* those the agent has taken, in order
  overrun,     \* those the topic dropped for newer ones
  cut_off,     \* those the agent died on before it took them
  unanswered,  \* those whose reply the topic dropped
  stopping,    \* the command the agent's stop is about, <<>> if none
  answers      \* the replies delivered, with the address they went to

serverVars == <<draining, client_addr, heard, empty>>
topicVars == <<cmds, replies>>
agentVars == <<executed, stopping>>
lossVars  == <<overrun, cut_off, unanswered>>
vars == <<bagVars, serverVars, topicVars, agentVars, lossVars, answers>>

CommandNames == {"record_start", "record_stop", "get_status"}
Datagrams == [from : Clients, cmd : CommandNames]
Nobody == <<>>

Init ==
  /\ BagInit
  /\ draining = FALSE
  /\ client_addr = Nobody
  /\ cmds = <<>>
  /\ replies = <<>>
  /\ heard = <<>>
  /\ empty = {}
  /\ executed = <<>>
  /\ overrun = {}
  /\ cut_off = {}
  /\ unanswered = {}
  /\ stopping = <<>>
  /\ answers = {}

-------------------------------------------------------------------------------
(* udp_server_node: check_udp_loop reads whatever is there; meanwhile no   *)
(* reply_callback is run. *)

(* A topic with history KEEP_LAST drops its oldest message for a new one   *)
(* when it is full. *)
Full(topic) == Len(topic) = Depth

(* The topic keeps what it has and drops the new message. *)
PublishKeepAll(topic, message) == IF Full(topic) THEN topic ELSE Append(topic, message)

Publish(topic, message) == Append(IF Full(topic) THEN Tail(topic) ELSE topic, message)

(* The address is kept from the first datagram on. *)
FirstClient(c) == client_addr' = IF client_addr = Nobody THEN <<c>> ELSE client_addr

RememberClient(c) == client_addr' = <<c>>

(* The timer fires with a datagram there, or the loop goes on with it. *)
ReadDatagram(d) ==
  /\ Len(heard) < MaxHeard
  /\ draining' = TRUE
  /\ RememberClient(d.from)
  /\ heard' = Append(heard, d)
  /\ cmds' = Publish(cmds, Len(heard'))
  /\ overrun' = IF Full(cmds) THEN overrun \cup {Head(cmds)} ELSE overrun
  /\ UNCHANGED <<bagVars, empty, replies, agentVars, cut_off, unanswered,
                 answers>>

(* An empty datagram: no command, but its sender's address is kept.  One   *)
(* of the client heard last changes nothing, nor does one before the first *)
(* command, whose sender replaces it before any reply.                     *)
ReadEmpty(c) ==
  /\ Cardinality(empty) < MaxEmpty
  /\ client_addr \notin {Nobody, <<c>>}
  /\ draining' = TRUE
  /\ RememberClient(c)
  /\ empty' = empty \cup {<<c, Len(heard)>>}
  /\ UNCHANGED <<bagVars, heard, topicVars, agentVars, lossVars, answers>>

DrainEnds ==
  /\ draining
  /\ draining' = FALSE
  /\ UNCHANGED <<bagVars, client_addr, heard, empty, topicVars, agentVars, lossVars,
                 answers>>

client_addr_set == heard # <<>>

ReplyCallback ==
  /\ ~draining
  /\ replies # <<>>
  /\ replies' = Tail(replies)
  /\ answers' = IF ~client_addr_set THEN answers
                ELSE answers \cup {[id |-> Head(replies), to |-> client_addr[1]]}
  /\ UNCHANGED <<bagVars, serverVars, cmds, agentVars, lossVars>>

-------------------------------------------------------------------------------
(* robot_agent_node.  A reply is the number of the command it answers, or  *)
(* MissionComplete. *)
MissionComplete == 0

Busy == stopping # <<>>

SendReply(id) ==
  /\ replies' = Publish(replies, id)
  /\ unanswered' = IF Full(replies) THEN unanswered \cup {Head(replies)} ELSE unanswered

ReplyFirst(id) == SendReply(id)

(* A second record_start is ignored without a word. *)
RecordStartOnce(id) ==
  /\ heard[id].cmd = "record_start"
  /\ StartBagRecord(TRUE)
  /\ IF is_recording THEN UNCHANGED <<replies, unanswered>> ELSE SendReply(id)
  /\ UNCHANGED stopping

RecordStart(id) ==
  /\ heard[id].cmd = "record_start"
  /\ StartBagRecord(TRUE)
  /\ SendReply(id)
  /\ UNCHANGED stopping

RecordStop(id) ==
  /\ heard[id].cmd = "record_stop"
  /\ IF is_recording THEN ReplyFirst(id) /\ stopping' = <<id>>
                     ELSE SendReply(id) /\ UNCHANGED stopping
  /\ UNCHANGED bagVars

GetStatus(id) ==
  /\ heard[id].cmd = "get_status"
  /\ SendReply(id)
  /\ UNCHANGED <<bagVars, stopping>>

TakeCommand ==
  /\ ~Busy
  /\ cmds # <<>>
  /\ cmds' = Tail(cmds)
  /\ executed' = Append(executed, Head(cmds))
  /\ \/ RecordStart(Head(cmds))
     \/ RecordStop(Head(cmds))
     \/ GetStatus(Head(cmds))
  /\ UNCHANGED <<serverVars, overrun, cut_off, answers>>

(* result_callback of a mission that succeeded: it stops the recorder, and *)
(* says so when the stop has returned. *)
MissionEnds ==
  /\ ~Busy
  /\ is_recording
  /\ stopping' = <<MissionComplete>>
  /\ UNCHANGED <<bagVars, serverVars, topicVars, executed, lossVars, answers>>

StopReturns ==
  /\ Busy
  /\ \E convert \in BOOLEAN : StopBagRecord(TRUE, convert)
  /\ stopping' = <<>>
  /\ IF stopping = <<MissionComplete>> THEN SendReply(MissionComplete)
                                      ELSE UNCHANGED <<replies, unanswered>>
  /\ UNCHANGED <<serverVars, cmds, executed, overrun, cut_off, answers>>

(* A child ends by itself. *)
ChildEnds(p) ==
  /\ ChildExits(p)
  /\ UNCHANGED <<serverVars, topicVars, agentVars, lossVars, answers>>

(* The agent is shut down and started again: the commands it had not taken *)
(* die with it, and with the stop under way its mission's report.          *)
AgentRestarts ==
  /\ DestroyRecorder(TRUE)
  /\ cut_off' = cut_off \cup Range(cmds)
  /\ cmds' = <<>>
  /\ stopping' = <<>>
  /\ UNCHANGED <<serverVars, replies, executed, overrun, unanswered, answers>>

-------------------------------------------------------------------------------
Next ==
  \/ \E d \in Datagrams : ReadDatagram(d)
  \/ \E c \in Clients : ReadEmpty(c)
  \/ DrainEnds
  \/ ReplyCallback
  \/ TakeCommand
  \/ MissionEnds
  \/ StopReturns
  \/ \E p \in Pids : ChildEnds(p)
  \/ AgentRestarts

Spec == Init /\ [][Next]_vars

(* Both nodes are spun, the topics deliver, and a stop ends (StopReturns   *)
(* of BagStop).                                                            *)
Fairness ==
  /\ WF_vars(DrainEnds)
  /\ WF_vars(ReplyCallback)
  /\ WF_vars(TakeCommand)
  /\ WF_vars(StopReturns)

FairSpec == Spec /\ Fairness

-------------------------------------------------------------------------------
Ids == 1 .. MaxHeard

TypeOK ==
  /\ BagTypeOK
  /\ draining \in BOOLEAN
  /\ client_addr \in {Nobody} \cup {<<c>> : c \in Clients}
  /\ cmds \in Seq(Ids) /\ Len(cmds) <= Depth
  /\ replies \in Seq(Ids \cup {MissionComplete}) /\ Len(replies) <= Depth
  /\ heard \in Seq(Datagrams)
  /\ empty \subseteq Clients \X (0 .. MaxHeard)
  /\ executed \in Seq(Ids)
  /\ overrun \cup cut_off \subseteq Ids
  /\ unanswered \subseteq Ids \cup {MissionComplete}
  /\ stopping \in {<<>>} \cup {<<i>> : i \in Ids \cup {MissionComplete}}
  /\ answers \subseteq [id : Ids \cup {MissionComplete}, to : Clients]

(* Types hold, and the agent executes commands in the order the server     *)
(* read them, none twice; and one the topic dropped while the agent was    *)
(* busy was followed by Depth newer ones, so the last word of an operator  *)
(* always counts.                                                          *)
CommandsInOrder ==
  /\ TypeOK
  /\ \A i, j \in DOMAIN executed : i < j => executed[i] < executed[j]
  /\ \A id \in overrun : id \notin Range(executed) /\ Len(heard) >= id + Depth

(* An answer goes to the client that asked, unless another client has been *)
(* heard since, if only with an empty datagram: then it goes to one of     *)
(* those, never to an older one.                                           *)
AnswerGoesToAsker ==
  \A a \in answers : a.id # MissionComplete =>
    \E i \in a.id .. Len(heard) : heard[i].from = a.to \/ <<a.to, i>> \in empty

(* However long the stops, every command that reaches the agent's queue is *)
(* answered, unless newer messages overran it or its answer, or the agent  *)
(* was restarted before it took it.                                        *)
EveryCommandAnswered ==
  \A id \in Ids :
    (id \in Range(cmds)) ~>
      \/ \E a \in answers : a.id = id
      \/ id \in overrun \cup unanswered \cup cut_off
===============================================================================
