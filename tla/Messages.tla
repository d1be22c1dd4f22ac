------------------------------ MODULE Messages ------------------------------
(***************************************************************************)
(* MessagesService: the rows of one order conversation.  A message is      *)
(* named by its place in the order of createdAt, which is stamped when its *)
(* transaction writes it; messages may be committed in another order.  A   *)
(* time, as lastReadAt, is the number of messages stamped before it.       *)
(***************************************************************************)
EXTENDS Naturals, Sequences, FiniteSets

CONSTANTS
  User,        \* the two participants
  Request,     \* requests for the list of messages, in flight at a time
  PageSize,    \* messages in a list, which has the newest of them
  Earlier,     \* bound: who wrote the messages there are, all read, at the start
  MaxMessages  \* bound: messages ever begun

ASSUME TwoParticipants == Cardinality(User) = 2
ASSUME MessageNumbers == PageSize \in Nat /\ MaxMessages \in Nat
ASSUME ConversationSoFar == Earlier \in Seq(User) /\ Len(Earlier) <= MaxMessages

VARIABLES
  msg,     \* Message, with those whose transaction is open or was rolled back
  row,     \* ConversationParticipant
  alerts,  \* messages whose NEW_MESSAGE notification its recipient has not read
  request  \* the requests for the list

messageVars == <<msg, row, alerts, request>>

Number == 1 .. MaxMessages
Sent   == {i \in DOMAIN msg : msg[i].state = "sent"}
NewestOf(S) == {i \in S : Cardinality({j \in S : j > i}) < PageSize}
Other(u) == CHOOSE v \in User : v # u
NoRequest == [stage |-> "idle", user |-> "none", seen |-> {}, at |-> 0]

MessagesTypeOK ==
  /\ Len(msg) <= MaxMessages
  /\ \A i \in DOMAIN msg : msg[i] \in [from : User, state : {"writing", "sent", "lost"}]
  /\ row \in [User -> [read : 0 .. MaxMessages, hidden : BOOLEAN, archived : BOOLEAN, pinned : BOOLEAN]]
  /\ alerts \in [User -> SUBSET Number]
  /\ request \in [Request -> [stage : {"idle", "asked", "fetched", "row left", "alerts left", "done"},
                              user : User \cup {"none"}, seen : SUBSET Number, at : 0 .. MaxMessages]]

MessagesInit ==
  /\ msg = [i \in DOMAIN Earlier |-> [from |-> Earlier[i], state |-> "sent"]]
  /\ row = [u \in User |-> [read |-> Len(Earlier), hidden |-> FALSE, archived |-> FALSE, pinned |-> FALSE]]
  /\ alerts = [u \in User |-> {}]
  /\ request = [r \in Request |-> NoRequest]

\* What the inbox counts for a participant.
Unread(u) == {i \in Sent : msg[i].from # u /\ i > row[u].read}

-----------------------------------------------------------------------------
\* sendMessage writes the message ...
Write(u) ==
  /\ Len(msg) < MaxMessages
  /\ msg' = Append(msg, [from |-> u, state |-> "writing"])
  /\ UNCHANGED <<row, alerts, request>>

\* Slip: the recipient's row is left as it is.
CommitQuietly(i) ==
  LET u == msg[i].from IN
  /\ msg[i].state = "writing"
  /\ msg' = [msg EXCEPT ![i].state = "sent"]
  /\ row' = [row EXCEPT ![u] = [@ EXCEPT !.read = Len(msg), !.hidden = FALSE, !.archived = FALSE]]
  /\ alerts' = [alerts EXCEPT ![Other(u)] = @ \cup {i}]
  /\ UNCHANGED request

\* ... and commits it with both rows and the notification.
Commit(i) ==
  LET u == msg[i].from IN
  /\ msg[i].state = "writing"
  /\ msg' = [msg EXCEPT ![i].state = "sent"]
  /\ row' = [v \in User |-> [row[v] EXCEPT !.read = IF v = u THEN Len(msg) ELSE @,
                                           !.hidden = FALSE, !.archived = FALSE]]
  /\ alerts' = [alerts EXCEPT ![Other(u)] = @ \cup {i}]
  /\ UNCHANGED request

RollBack(i) ==
  /\ msg[i].state = "writing"
  /\ msg' = [msg EXCEPT ![i].state = "lost"]
  /\ UNCHANGED <<row, alerts, request>>

-----------------------------------------------------------------------------
Ask(r, u) ==
  /\ request[r] = NoRequest
  /\ request' = [request EXCEPT ![r] = [NoRequest EXCEPT !.stage = "asked", !.user = u]]
  /\ UNCHANGED <<msg, row, alerts>>

\* listMessages reads the newest messages: no page asks for older ones ...
Fetch(r) ==
  /\ request[r].stage = "asked"
  /\ request' = [request EXCEPT ![r].stage = "fetched", ![r].seen = NewestOf(Sent)]
  /\ UNCHANGED <<msg, row, alerts>>

MarkRow(u, at) == row' = [row EXCEPT ![u].read = at, ![u].hidden = FALSE]
\* The notifications of the whole conversation, whenever they came.
ClearAlerts(u) == alerts' = [alerts EXCEPT ![u] = {}]

\* ... takes the time, and makes two updates at once, which end in either order.
FirstMark(r) ==
  /\ request[r].stage = "fetched"
  /\ \/ /\ MarkRow(request[r].user, Len(msg))
        /\ request' = [request EXCEPT ![r].stage = "alerts left"]
        /\ UNCHANGED alerts
     \/ /\ ClearAlerts(request[r].user)
        /\ request' = [request EXCEPT ![r].stage = "row left", ![r].at = Len(msg)]
        /\ UNCHANGED row
  /\ UNCHANGED msg

SecondMark(r) ==
  /\ \/ /\ request[r].stage = "row left" /\ MarkRow(request[r].user, request[r].at)
        /\ UNCHANGED alerts
     \/ /\ request[r].stage = "alerts left" /\ ClearAlerts(request[r].user)
        /\ UNCHANGED row
  /\ request' = [request EXCEPT ![r].stage = "done", ![r].at = 0]
  /\ UNCHANGED msg

Serve(r) == Fetch(r) \/ FirstMark(r) \/ SecondMark(r)

-----------------------------------------------------------------------------
\* hideConversation
Hide(u) ==
  /\ row' = [row EXCEPT ![u] = [@ EXCEPT !.hidden = TRUE, !.pinned = FALSE, !.archived = FALSE]]
  /\ UNCHANGED <<msg, alerts, request>>

\* What a participant's row becomes.
Preferred(r, pinned, archived) ==
  [r EXCEPT !.hidden = FALSE,
            !.archived = IF archived = "as is" THEN @ ELSE archived = "yes",
            !.pinned = IF archived = "yes" THEN FALSE
                       ELSE IF pinned = "as is" THEN @ ELSE pinned = "yes"]

\* updateConversationPreferences
Prefer(u, pinned, archived) ==
  /\ {pinned, archived} # {"as is"}
  /\ row' = [row EXCEPT ![u] = Preferred(@, pinned, archived)]
  /\ UNCHANGED <<msg, alerts, request>>
=============================================================================
