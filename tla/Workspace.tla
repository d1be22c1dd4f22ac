------------------------------ MODULE Workspace ------------------------------
(***************************************************************************)
(* WebOrderWorkspace: the page on which a participant reads and writes the *)
(* messages of an order.  It refreshes when it opens, when its socket      *)
(* connects, when the order changes and every 20 seconds, and only the     *)
(* answer to the refresh begun last is used.  In between, messages come    *)
(* over the socket, which may be gone at any time, or as the answer to     *)
(* what was sent from the page.                                            *)
(***************************************************************************)
EXTENDS Messages, SequencesExt

CONSTANTS
  Tab,     \* workspaces
  Owner,   \* the participant at each of them
  Chooser  \* bound: who hides, pins and archives the conversation

ASSUME OwnerOfTab == Owner \in [Tab -> User]
ASSUME ChoosersTakePart == Chooser \subseteq User
ASSUME RequestsAreNamed == "none" \notin Request

VARIABLES
  open,    \* workspaces on the screen
  shown,   \* the messages, from top to bottom
  newest,  \* refreshSequence.current, as the request of the refresh
  sending, \* the message whose answer the workspace waits for
  socket,  \* the socket's state
  wire,    \* message:created events on their way to the workspace
  listed,  \* history: what a refresh has shown since the workspace opened
  hidden   \* history: the messages there were when the conversation was hidden

tabVars == <<open, shown, newest, sending, socket, wire, listed, hidden>>
vars    == <<messageVars, tabVars>>

None == "none"

TypeOK ==
  /\ MessagesTypeOK
  /\ open \subseteq Tab
  /\ \A t \in Tab : shown[t] \in Seq(Number) /\ wire[t] \in Seq(Number)
  /\ newest \in [Tab -> Request \cup {None}]
  /\ sending \in [Tab -> Number \cup {0}]
  /\ socket \in [Tab -> {"off", "connected", "joined"}]
  /\ \A t \in Tab \ open : shown[t] = <<>> /\ newest[t] = None /\ sending[t] = 0 /\ socket[t] = "off"
  /\ \A t \in Tab : wire[t] # <<>> => socket[t] = "joined"
  /\ listed \in [Tab -> SUBSET Number] /\ hidden \in [User -> SUBSET Number]

Init ==
  /\ MessagesInit
  /\ open = {} /\ shown = [t \in Tab |-> <<>>] /\ newest = [t \in Tab |-> None]
  /\ sending = [t \in Tab |-> 0] /\ socket = [t \in Tab |-> "off"] /\ wire = [t \in Tab |-> <<>>]
  /\ listed = [t \in Tab |-> {}] /\ hidden = [u \in User |-> {}]

-----------------------------------------------------------------------------
(* The socket *)

Joined == {t \in Tab : socket[t] = "joined"}

\* The handler of connect asks to join and refreshes, and the two race.
Connect(t) ==
  /\ t \in open /\ socket[t] = "off"
  /\ socket' = [socket EXCEPT ![t] = "connected"]
  /\ \E r \in Request : Ask(r, Owner[t]) /\ newest' = [newest EXCEPT ![t] = r]
  /\ UNCHANGED <<open, shown, sending, wire, listed, hidden>>

Join(t) ==
  /\ socket[t] = "connected"
  /\ socket' = [socket EXCEPT ![t] = "joined"]
  /\ UNCHANGED <<messageVars, open, shown, newest, sending, wire, listed, hidden>>

Disconnect(t) ==
  /\ socket[t] # "off"
  /\ socket' = [socket EXCEPT ![t] = "off"] /\ wire' = [wire EXCEPT ![t] = <<>>]
  /\ UNCHANGED <<messageVars, open, shown, newest, sending, listed, hidden>>

\* A message is added unless it is there.
With(s, i) == IF i \in ToSet(s) THEN s ELSE Append(s, i)

Hear(t) ==
  /\ wire[t] # <<>>
  /\ shown' = [shown EXCEPT ![t] = With(@, Head(wire[t]))]
  /\ wire' = [wire EXCEPT ![t] = Tail(@)]
  /\ UNCHANGED <<messageVars, open, newest, sending, socket, listed, hidden>>

-----------------------------------------------------------------------------
(* The workspace *)

\* Slip: the timer is for those without a socket.
RefreshOffline(t) ==
  /\ t \in open /\ socket[t] = "off"
  /\ \E r \in Request : Ask(r, Owner[t]) /\ newest' = [newest EXCEPT ![t] = r]
  /\ UNCHANGED <<open, shown, sending, socket, wire, listed, hidden>>

Refresh(t) ==
  /\ t \in open
  /\ \E r \in Request : Ask(r, Owner[t]) /\ newest' = [newest EXCEPT ![t] = r]
  /\ UNCHANGED <<open, shown, sending, socket, wire, listed, hidden>>

Open(t) ==
  /\ t \notin open /\ open' = open \cup {t}
  /\ \E r \in Request : Ask(r, Owner[t]) /\ newest' = [newest EXCEPT ![t] = r]
  /\ UNCHANGED <<shown, sending, socket, wire, listed, hidden>>

\* What is under way goes on without the page.
Close(t) ==
  /\ t \in open /\ open' = open \ {t}
  /\ shown' = [shown EXCEPT ![t] = <<>>] /\ newest' = [newest EXCEPT ![t] = None]
  /\ sending' = [sending EXCEPT ![t] = 0]
  /\ socket' = [socket EXCEPT ![t] = "off"] /\ wire' = [wire EXCEPT ![t] = <<>>]
  /\ listed' = [listed EXCEPT ![t] = {}]
  /\ UNCHANGED <<messageVars, hidden>>

\* A list has the messages by createdAt.
InOrder(S) == CHOOSE s \in [1 .. Cardinality(S) -> S] : \A i, j \in DOMAIN s : i < j => s[i] < s[j]

End(r) == request' = [request EXCEPT ![r] = NoRequest] /\ UNCHANGED <<msg, row, alerts>>

\* Slip: every answer is used.
ApplyAny(t, r) ==
  /\ t \in open /\ request[r].stage = "done"
  /\ shown' = [shown EXCEPT ![t] = InOrder(request[r].seen)]
  /\ listed' = [listed EXCEPT ![t] = @ \cup request[r].seen]
  /\ newest' = [newest EXCEPT ![t] = IF @ = r THEN None ELSE @]
  /\ End(r) /\ UNCHANGED <<open, sending, socket, wire, hidden>>

\* The answer to the refresh begun last replaces what is shown ...
Apply(t, r) ==
  /\ newest[t] = r /\ request[r].stage = "done"
  /\ shown' = [shown EXCEPT ![t] = InOrder(request[r].seen)]
  /\ listed' = [listed EXCEPT ![t] = @ \cup request[r].seen]
  /\ newest' = [newest EXCEPT ![t] = None]
  /\ End(r) /\ UNCHANGED <<open, sending, socket, wire, hidden>>

\* ... other answers are dropped, and so is a refresh of which one request fails.
Drop(r) ==
  /\ request[r].stage \in {"done", "asked"}
  /\ request[r].stage = "done" => r \notin {newest[t] : t \in Tab}
  /\ newest' = [t \in Tab |-> IF newest[t] = r THEN None ELSE newest[t]]
  /\ End(r) /\ UNCHANGED <<open, shown, sending, socket, wire, listed, hidden>>

\* send
Send(t) ==
  /\ t \in open /\ sending[t] = 0
  /\ Write(Owner[t]) /\ sending' = [sending EXCEPT ![t] = Len(msg) + 1]
  /\ UNCHANGED <<open, shown, newest, socket, wire, listed, hidden>>

\* The answer shows the message; an error, or no answer, says it was not sent.
Answer(t) ==
  LET i == sending[t] IN
  /\ i # 0
  /\ \/ msg[i].state = "sent" /\ shown' = [shown EXCEPT ![t] = With(@, i)]
     \/ UNCHANGED shown
  /\ sending' = [sending EXCEPT ![t] = 0]
  /\ UNCHANGED <<messageVars, open, newest, socket, wire, listed, hidden>>

-----------------------------------------------------------------------------
(* The server, and both participants elsewhere *)

\* publishMessage tells who has joined.
Publish(i) ==
  /\ Commit(i)
  /\ wire' = [t \in Tab |-> IF t \in Joined THEN Append(wire[t], i) ELSE wire[t]]
  /\ UNCHANGED <<open, shown, newest, sending, socket, listed, hidden>>

HideConversation(u) ==
  /\ Hide(u) /\ hidden' = [hidden EXCEPT ![u] = Sent]
  /\ UNCHANGED <<open, shown, newest, sending, socket, wire, listed>>

Choice == {"as is", "yes", "no"}

Elsewhere ==
  /\ UNCHANGED tabVars
  /\ \/ \E u \in User : Write(u)
     \/ \E i \in DOMAIN msg : RollBack(i)
     \/ \E r \in Request : Serve(r)
     \/ \E u \in Chooser : \E p, a \in Choice : Prefer(u, p, a)

TabStep(t) ==
  \/ Open(t) \/ Close(t) \/ Refresh(t) \/ Send(t) \/ Answer(t)
  \/ Connect(t) \/ Join(t) \/ Disconnect(t) \/ Hear(t)
  \/ \E r \in Request : Apply(t, r)

Next ==
  \/ \E t \in Tab : TabStep(t)
  \/ \E r \in Request : Drop(r)
  \/ \E i \in DOMAIN msg : Publish(i)
  \/ \E u \in Chooser : HideConversation(u)
  \/ Elsewhere

Newest(t, A(_)) == \E r \in Request : newest[t] = r /\ A(r) /\ UNCHANGED tabVars
Stale(A(_)) == \E r \in Request : r \notin {newest[t] : t \in Tab} /\ A(r)

\* The timer goes off again and again, whatever the page no longer waits for ends,
\* and again and again a refresh gets on, and is answered, before the next begins.
Fairness ==
  /\ \A t \in Tab :
       /\ WF_vars(Refresh(t))
       /\ SF_vars(Newest(t, Fetch)) /\ SF_vars(Newest(t, FirstMark)) /\ SF_vars(Newest(t, SecondMark))
       /\ SF_vars(\E r \in Request : Apply(t, r))
  /\ WF_vars(Stale(Serve) /\ UNCHANGED tabVars) /\ WF_vars(Stale(Drop))

-----------------------------------------------------------------------------
(* Properties *)

\* A message is shown once, although the list, the socket and the answer to its
\* sender all bring it, in any order.
ShownOnce == \A t \in Tab : IsInjective(shown[t])

\* Refreshes overtake each other and their answers come in any order, yet what a
\* refresh has shown is not taken away by another, as long as it is one of the newest
\* messages: from a longer conversation the next refresh takes the oldest away.
KeepsWhatWasListed == \A t \in Tab : listed[t] \cap NewestOf(Sent) \subseteq ToSet(shown[t])

\* "Sending a message restores a hidden or archived thread for both": a conversation
\* is hidden only as long as nothing has been written since it was hidden.
HiddenIsQuiet == \A u \in User : row[u].hidden => hidden[u] = Sent

\* A workspace that stays open shows the newest messages in the end, as many as a list
\* has, and has nothing left to read, whatever the socket loses and older answers
\* overwrite.
CatchesUp ==
  \A t \in Tab :
    <>[](t \in open) =>
      <>[](ToSet(shown[t]) = NewestOf(Sent) /\ Unread(Owner[t]) = {} /\ alerts[Owner[t]] = {})
=============================================================================
