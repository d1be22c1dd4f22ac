-------------------------- MODULE MessagingProofs --------------------------
(***************************************************************************)
(* Invariants of messaging, for any number of participants' pages,         *)
(* requests, messages, sessions and sockets: a hidden conversation has     *)
(* nothing new in it, what a page has listed stays on it while it is among *)
(* the newest messages and is there once, and a socket that is served is   *)
(* watched.                                                                *)
(***************************************************************************)
EXTENDS Messaging, FiniteSetTheorems, TLAPS

-----------------------------------------------------------------------------
(* Hidden conversations *)

MessageState == [from : User, state : {"writing", "sent", "lost"}]

Rows == DOMAIN row = User /\ \A u \in User : "hidden" \in DOMAIN row[u]

QuietInv == /\ msg \in Seq(MessageState)
            /\ Rows /\ hidden = [u \in User |-> hidden[u]]
            /\ HiddenIsQuiet

LEMMA EarlierMessages == MessagesInit => msg \in Seq(MessageState)
<1>1. Len(Earlier) \in Nat /\ DOMAIN Earlier = 1 .. Len(Earlier) /\ \A i \in 1 .. Len(Earlier) : Earlier[i] \in User
  BY ConversationSoFar
<1>2. \A i \in 1 .. Len(Earlier) : [from |-> Earlier[i], state |-> "sent"] \in MessageState
  BY <1>1 DEF MessageState
<1> QED BY <1>1, <1>2 DEF MessagesInit

LEMMA QuietInit == Init => QuietInv
BY EarlierMessages DEF Init, MessagesInit, QuietInv, HiddenIsQuiet, Rows

\* A row of which only the mark and the preferences change, and which is shown again
\* when its conversation changes.
LEMMA Unhidden ==
  ASSUME QuietInv, msg' \in Seq(MessageState), Rows', UNCHANGED hidden,
         Sent' = Sent \/ \A u \in User : ~row'[u].hidden,
         \A u \in User : row'[u].hidden => row[u].hidden
  PROVE  QuietInv'
BY DEF QuietInv, HiddenIsQuiet

LEMMA WriteIsQuiet ==
  ASSUME QuietInv, NEW u \in User, Write(u)
  PROVE  msg' \in Seq(MessageState) /\ Sent' = Sent /\ UNCHANGED row
<1> DEFINE new == [from |-> u, state |-> "writing"]
<1>1. msg' = Append(msg, new) /\ UNCHANGED row /\ msg \in Seq(MessageState)
  BY DEF Write, QuietInv
<1>2. new \in MessageState /\ new.state # "sent"
  BY DEF MessageState
<1> HIDE DEF new
<1>3. /\ msg' \in Seq(MessageState) /\ DOMAIN msg = 1 .. Len(msg) /\ DOMAIN msg' = 1 .. (Len(msg) + 1)
      /\ Len(msg) \in Nat /\ \A i \in 1 .. Len(msg) : msg'[i] = msg[i]
      /\ msg'[Len(msg) + 1] = new
  BY <1>1, <1>2
<1>4. \A i \in DOMAIN msg' : i \in DOMAIN msg \/ i = Len(msg) + 1
  BY <1>3
<1> QED BY <1>1, <1>2, <1>3, <1>4 DEF Sent

LEMMA OutcomeIsQuiet ==
  ASSUME QuietInv, NEW i \in DOMAIN msg, NEW x \in {"sent", "lost"}, msg[i].state = "writing",
         msg' = [msg EXCEPT ![i].state = x]
  PROVE  msg' \in Seq(MessageState) /\ (x = "lost" => Sent' = Sent)
<1>1. msg \in Seq(MessageState) /\ msg[i] \in MessageState
  BY DEF QuietInv
<1>2. /\ [msg[i] EXCEPT !.state = x] \in MessageState /\ [msg[i] EXCEPT !.state = x].state = x
      /\ msg' = [msg EXCEPT ![i] = [msg[i] EXCEPT !.state = x]]
  BY <1>1 DEF MessageState
<1> DEFINE new == [msg[i] EXCEPT !.state = x]
<1> HIDE DEF new
<1>3. /\ msg' \in Seq(MessageState) /\ DOMAIN msg' = DOMAIN msg /\ msg'[i] = new
      /\ \A j \in DOMAIN msg \ {i} : msg'[j] = msg[j]
  BY <1>1, <1>2 DEF new
<1> QED BY <1>2, <1>3 DEF Sent, new

LEMMA QuietStep ==
  ASSUME QuietInv, Next \/ UNCHANGED vars
  PROVE  QuietInv'
<1>1. /\ msg \in Seq(MessageState) /\ hidden = [u \in User |-> hidden[u]] /\ DOMAIN row = User
      /\ \A u \in User : "hidden" \in DOMAIN row[u]
  BY DEF QuietInv, Rows
<1>2. CASE UNCHANGED <<msg, row, hidden>>
  BY <1>2 DEF QuietInv, HiddenIsQuiet, Sent, Rows
<1>3. ASSUME NEW u \in User, Write(u), UNCHANGED hidden PROVE QuietInv'
  BY <1>1, <1>3, WriteIsQuiet, Unhidden DEF Rows
<1>4. ASSUME NEW i \in DOMAIN msg, RollBack(i), UNCHANGED hidden PROVE QuietInv'
  <2>1. msg[i].state = "writing" /\ msg' = [msg EXCEPT ![i].state = "lost"] /\ UNCHANGED row
    BY <1>4 DEF RollBack
  <2>2. msg' \in Seq(MessageState) /\ Sent' = Sent
    BY <2>1, OutcomeIsQuiet
  <2> QED BY <1>1, <1>4, <2>1, <2>2, Unhidden DEF Rows
<1>5. ASSUME NEW i \in DOMAIN msg, Publish(i) PROVE QuietInv'
  <2>1. /\ msg[i].state = "writing" /\ msg' = [msg EXCEPT ![i].state = "sent"] /\ UNCHANGED hidden
        /\ row' = [v \in User |-> [row[v] EXCEPT !.read = IF v = msg[i].from THEN Len(msg) ELSE @,
                                                 !.hidden = FALSE, !.archived = FALSE]]
    BY <1>5 DEF Publish, Commit
  <2>2. msg' \in Seq(MessageState)
    BY <2>1, OutcomeIsQuiet
  <2>3. Rows' /\ \A u \in User : ~row'[u].hidden
    BY <1>1, <2>1 DEF Rows
  <2> QED BY <2>1, <2>2, <2>3, Unhidden
<1>6. ASSUME NEW u, NEW at, MarkRow(u, at), UNCHANGED <<msg, hidden>> PROVE QuietInv'
  <2>1. row' = [row EXCEPT ![u].read = at, ![u].hidden = FALSE]
    BY <1>6 DEF MarkRow
  <2>2. Rows' /\ \A v \in User : row'[v].hidden => row[v].hidden
    BY <1>1, <2>1 DEF Rows
  <2> QED BY <1>1, <1>6, <2>2, Unhidden DEF Sent
<1>7. ASSUME NEW r \in Request, Serve(r), UNCHANGED hidden PROVE QuietInv'
  BY <1>2, <1>6, <1>7 DEF Serve, Fetch, FirstMark, SecondMark
<1>8. ASSUME NEW u \in User, NEW p, NEW a, Prefer(u, p, a), UNCHANGED hidden PROVE QuietInv'
  <2>1. UNCHANGED msg /\ DOMAIN row' = User
        /\ "hidden" \in DOMAIN row'[u] /\ ~row'[u].hidden
        /\ \A v \in User \ {u} : row'[v] = row[v]
    <3> DEFINE new == Preferred(row[u], p, a)
    <3>1. UNCHANGED msg /\ row' = [row EXCEPT ![u] = new]
      BY <1>8 DEF Prefer
    <3>2. "hidden" \in DOMAIN new /\ ~new.hidden
      BY <1>1 DEF Preferred
    <3> HIDE DEF new
    <3> QED BY <1>1, <3>1, <3>2
  <2>2. Rows' /\ \A v \in User : row'[v].hidden => row[v].hidden
    BY <1>1, <2>1 DEF Rows
  <2> QED BY <1>1, <1>8, <2>1, <2>2, Unhidden DEF Sent
<1>9. ASSUME NEW u \in User, HideConversation(u) PROVE QuietInv'
  <2>1. /\ UNCHANGED msg /\ hidden' = [hidden EXCEPT ![u] = Sent]
        /\ row' = [row EXCEPT ![u] = [@ EXCEPT !.hidden = TRUE, !.pinned = FALSE, !.archived = FALSE]]
    BY <1>9 DEF HideConversation, Hide
  <2>2. Rows' /\ \A v \in User \ {u} : row'[v].hidden = row[v].hidden
    BY <1>1, <2>1 DEF Rows
  <2>3. /\ hidden' = [v \in User |-> hidden'[v]] /\ hidden'[u] = Sent /\ Sent' = Sent
        /\ \A v \in User \ {u} : hidden'[v] = hidden[v]
    BY <1>1, <2>1 DEF Sent
  <2> QED BY <1>1, <2>1, <2>2, <2>3 DEF QuietInv, HiddenIsQuiet
<1>10. ASSUME NEW t \in Tab, TabStep(t) PROVE QuietInv'
  <2>1. CASE Send(t)
    BY <1>3, <2>1, OwnerOfTab DEF Send
  <2>2. CASE ~Send(t)
    BY <1>2, <1>10, <2>2 DEF TabStep, Open, Close, Refresh, Answer, Connect, Join, Disconnect, Hear, Apply,
       Ask, End, messageVars
  <2> QED BY <2>1, <2>2
<1>11. CASE \/ UNCHANGED vars \/ \E r \in Request : Drop(r)
  BY <1>2, <1>11 DEF Drop, End, vars, messageVars, tabVars
<1>12. CASE Elsewhere
  BY <1>3, <1>4, <1>7, <1>8, <1>12, ChoosersTakePart DEF Elsewhere, tabVars
<1> QED BY <1>5, <1>9, <1>10, <1>11, <1>12, ChoosersTakePart DEF Next

-----------------------------------------------------------------------------
(* What a workspace shows *)

\* A finite set can be listed by time: every element has its rank.
LEMMA SortedExists ==
  ASSUME NEW S \in SUBSET Nat, IsFiniteSet(S)
  PROVE  \E s \in [1 .. Cardinality(S) -> S] : \A i, j \in DOMAIN s : i < j => s[i] < s[j]
<1> DEFINE n == Cardinality(S)
           Upto(x) == {y \in S : y <= x}
           rank == [x \in S |-> Cardinality(Upto(x))]
<1>1. n \in Nat
  BY FS_CardinalityType
<1>2. \A x \in S : IsFiniteSet(Upto(x)) /\ Cardinality(Upto(x)) \in 1 .. n
  <2> TAKE x \in S
  <2>1. IsFiniteSet(Upto(x)) /\ Cardinality(Upto(x)) <= n
    BY FS_Subset
  <2>2. Cardinality(Upto(x)) \in Nat /\ Cardinality(Upto(x)) # 0
    BY <2>1, FS_CardinalityType, FS_EmptySet
  <2> QED BY <1>1, <2>1, <2>2
<1>3. \A x, y \in S : x < y => Cardinality(Upto(x)) < Cardinality(Upto(y))
  <2> TAKE x, y \in S
  <2> HAVE x < y
  <2>1. Upto(x) \subseteq Upto(y) /\ y \in Upto(y) /\ y \notin Upto(x)
    <3>1. x \in Nat /\ y \in Nat /\ \A z \in S : z \in Nat
      OBVIOUS
    <3>2. y <= y /\ ~(y <= x) /\ \A z \in S : z <= x => z <= y
      BY <3>1
    <3> QED BY <3>2
  <2>2. Cardinality(Upto(x)) <= Cardinality(Upto(y)) /\ Cardinality(Upto(x)) # Cardinality(Upto(y))
    <3>1. Upto(x) \in SUBSET Upto(y) /\ Upto(x) # Upto(y) /\ IsFiniteSet(Upto(y))
      BY <1>2, <2>1
    <3> HIDE DEF Upto
    <3> QED BY <3>1, FS_Subset
  <2> QED BY <1>2, <2>2
<1> HIDE DEF n
<1>4. rank \in Injection(S, 1 .. n)
  <2>1. rank \in [S -> 1 .. n]
    BY <1>2
  <2>2. \A x, y \in S : x < y \/ y < x \/ x = y
    OBVIOUS
  <2>3. \A x, y \in S : rank[x] = rank[y] => x = y
    BY <1>2, <1>3, <2>2
  <2> QED BY <2>1, <2>3 DEF Injection, IsInjective
<1>5. rank \in Surjection(S, 1 .. n)
  <2>1. IsFiniteSet(1 .. n) /\ Cardinality(1 .. n) = n
    BY <1>1, FS_Interval
  <2> QED BY <1>4, <2>1, FS_Injection DEF n
<1> DEFINE s == [i \in 1 .. n |-> CHOOSE x \in S : rank[x] = i]
<1>6. \A i \in 1 .. n : s[i] \in S /\ rank[s[i]] = i
  BY <1>5 DEF Surjection
<1>7. \A i, j \in 1 .. n : i < j => s[i] < s[j]
  <2> TAKE i, j \in 1 .. n
  <2> HAVE i < j
  <2>1. /\ s[i] \in S /\ s[j] \in S /\ rank[s[i]] = i /\ rank[s[j]] = j
    BY <1>6
  <2> HIDE DEF s
  <2>2. \A x \in S : rank[x] = Cardinality(Upto(x)) /\ Cardinality(Upto(x)) \in Nat
    BY <1>2
  <2> HIDE DEF rank, Upto
  <2>3. ~(s[j] < s[i]) /\ s[i] # s[j]
    <3>1. s[j] < s[i] => rank[s[j]] < rank[s[i]]
      BY <1>3, <2>1, <2>2
    <3>2. i \in Nat /\ j \in Nat
      BY <1>1
    <3> QED BY <2>1, <3>1, <3>2
  <2>4. s[i] \in Nat /\ s[j] \in Nat
    BY <2>1
  <2> QED BY <2>3, <2>4
<1>8. s \in [1 .. n -> S] /\ DOMAIN s = 1 .. n
  BY <1>6
<1> HIDE DEF s, rank
<1> QED BY <1>7, <1>8 DEF n

\* A list has all the messages, each of them once.
LEMMA InOrderLists ==
  ASSUME NEW S \in SUBSET Nat, IsFiniteSet(S)
  PROVE  InOrder(S) \in Seq(Nat) /\ ToSet(InOrder(S)) = S /\ IsInjective(InOrder(S))
<1> DEFINE s == InOrder(S)  n == Cardinality(S)
<1>1. s \in [1 .. n -> S] /\ \A i, j \in DOMAIN s : i < j => s[i] < s[j]
  BY SortedExists DEF InOrder
<1>2. n \in Nat /\ IsFiniteSet(1 .. n) /\ Cardinality(1 .. n) = n
  BY FS_CardinalityType, FS_Interval
<1> HIDE DEF s, n
<1>3. IsInjective(s) 
  <2> SUFFICES ASSUME NEW i \in 1 .. n, NEW j \in 1 .. n, s[i] = s[j] PROVE i = j
    BY <1>1 DEF IsInjective
  <2>1. s[i] \in Nat /\ (i < j => s[i] < s[j]) /\ (j < i => s[j] < s[i])
    BY <1>1
  <2> QED BY <1>2, <2>1
<1>4. s \in Surjection(1 .. n, S)
  <2>1. s \in Injection(1 .. n, S)
    BY <1>1, <1>3 DEF Injection
  <2> QED BY <1>2, <2>1, FS_Injection DEF n
<1>5. ToSet(s) = S
  BY <1>1, <1>4 DEF ToSet, Surjection
<1>6. s \in Seq(Nat)
  <2>1. s \in [1 .. n -> Nat]
    BY <1>1
  <2>2. s = [i \in 1 .. n |-> s[i]] /\ \A i \in 1 .. n : s[i] \in Nat
    BY <2>1
  <2> QED BY <1>2, <2>2
<1> QED BY <1>3, <1>5, <1>6 DEF s

\* Of the messages there were, only the newest are among the newest of more.
LEMMA NewestStay ==
  ASSUME NEW T \in SUBSET Nat, IsFiniteSet(T), NEW S \in SUBSET T
  PROVE  S \cap NewestOf(T) \subseteq NewestOf(S)
<1> SUFFICES ASSUME NEW i \in S, Cardinality({j \in T : j > i}) < PageSize
             PROVE  Cardinality({j \in S : j > i}) < PageSize
  BY DEF NewestOf
<1> DEFINE A == {j \in S : j > i}  B == {j \in T : j > i}
<1>1. B \in SUBSET T /\ A \in SUBSET B
  OBVIOUS
<1> HIDE DEF A, B
<1>2. IsFiniteSet(B) /\ IsFiniteSet(A) /\ Cardinality(A) <= Cardinality(B)
  BY <1>1, FS_Subset
<1>3. Cardinality(A) \in Nat /\ Cardinality(B) \in Nat
  BY <1>2, FS_CardinalityType
<1> QED BY <1>2, <1>3, MessageNumbers DEF A, B

Latest == NewestOf(Sent)

LEMMA Aging ==
  ASSUME msg' \in Seq(MessageState), Sent \subseteq Sent'
  PROVE  Sent \cap Latest' \subseteq Latest
<1>1. \A i \in Sent' : i \in Nat
  <2>1. DOMAIN msg' = 1 .. Len(msg') /\ Len(msg') \in Nat
    OBVIOUS
  <2> QED BY <2>1 DEF Sent
<1>2. IsFiniteSet(Sent')
  <2>1. DOMAIN msg' = 1 .. Len(msg') /\ Len(msg') \in Nat
    OBVIOUS
  <2>2. Sent' \in SUBSET (1 .. Len(msg'))
    BY <2>1 DEF Sent
  <2>3. IsFiniteSet(1 .. Len(msg'))
    BY <2>1, FS_Interval
  <2> QED BY <2>2, <2>3, FS_Subset
<1>3. Latest' = NewestOf(Sent')
  BY DEF Latest, NewestOf
<1>4. Sent' \in SUBSET Nat /\ Sent \in SUBSET (Sent')
  BY <1>1
<1> QED BY <1>2, <1>3, <1>4, NewestStay DEF Latest

\* A request that has fetched saw only what was sent; the refresh a workspace waits for
\* has not fetched yet, or saw what earlier ones have listed of the newest messages.
Fetched(r) == request[r].stage \notin {"idle", "asked"}

RequestKnows(r) ==
  /\ {"stage", "seen"} \subseteq DOMAIN request[r]
  /\ request[r].seen \subseteq Sent

TabKnows(t) ==
  /\ shown[t] \in Seq(Nat) /\ IsInjective(shown[t])
  /\ wire[t] \in Seq(Nat) /\ sending[t] \in Nat
  /\ listed[t] \subseteq Sent /\ listed[t] \cap Latest \subseteq ToSet(shown[t])
  /\ \A r \in Request : newest[t] = r /\ Fetched(r) => listed[t] \cap Latest \subseteq request[r].seen

ShownInv ==
  /\ msg \in Seq(MessageState)
  /\ DOMAIN request = Request /\ \A r \in Request : RequestKnows(r)
  /\ DOMAIN shown = Tab /\ DOMAIN wire = Tab /\ DOMAIN sending = Tab /\ DOMAIN listed = Tab /\ DOMAIN newest = Tab
  /\ \A t \in Tab : TabKnows(t)

LEMMA WithKeeps ==
  ASSUME NEW s \in Seq(Nat), IsInjective(s), NEW i \in Nat
  PROVE  With(s, i) \in Seq(Nat) /\ IsInjective(With(s, i)) /\ ToSet(s) \subseteq ToSet(With(s, i))
<1>1. CASE i \in ToSet(s)
  BY <1>1 DEF With
<1>2. CASE i \notin ToSet(s)
  <2>1. With(s, i) = Append(s, i)
    BY <1>2 DEF With
  <2>2. /\ Append(s, i) \in Seq(Nat) /\ DOMAIN s = 1 .. Len(s) /\ DOMAIN Append(s, i) = 1 .. (Len(s) + 1)
        /\ Len(s) \in Nat /\ Append(s, i)[Len(s) + 1] = i /\ \A j \in 1 .. Len(s) : Append(s, i)[j] = s[j]
    OBVIOUS
  <2>3. \A j \in DOMAIN Append(s, i) : j \in DOMAIN s \/ j = Len(s) + 1
    BY <2>2
  <2> QED BY <1>2, <2>1, <2>2, <2>3 DEF IsInjective, ToSet
<1> QED BY <1>1, <1>2

LEMMA SentIsFinite ==
  ASSUME msg \in Seq(MessageState), NEW S \in SUBSET Sent
  PROVE  S \in SUBSET Nat /\ IsFiniteSet(S)
<1>1. DOMAIN msg = 1 .. Len(msg) /\ Len(msg) \in Nat
  OBVIOUS
<1>2. Sent \subseteq 1 .. Len(msg)
  BY <1>1 DEF Sent
<1>3. S \subseteq 1 .. Len(msg) /\ IsFiniteSet(1 .. Len(msg))
  BY <1>1, <1>2, FS_Interval
<1>4. S \in SUBSET Nat /\ S \in SUBSET (1 .. Len(msg))
  BY <1>1, <1>3
<1> QED BY <1>3, <1>4, FS_Subset

\* What the requests know after a step: what they knew, or the newest that was sent.
Answers ==
  /\ Sent \subseteq Sent' /\ Sent \cap Latest' \subseteq Latest /\ DOMAIN request' = Request
  /\ \A r \in Request : RequestKnows(r)'
  /\ \A r \in Request : Fetched(r)' =>
       \/ request'[r].seen = Latest
       \/ Fetched(r) /\ request'[r].seen = request[r].seen

\* Nothing but the requests has changed for this workspace.
LEMMA TabStands ==
  ASSUME ShownInv, Answers, NEW t \in Tab,
         shown'[t] = shown[t], wire'[t] = wire[t], sending'[t] = sending[t], listed'[t] = listed[t],
         \A r \in Request : newest'[t] = r => newest[t] = r \/ ~Fetched(r)'
  PROVE  TabKnows(t)'
<1>1. TabKnows(t)
  BY DEF ShownInv
<1>2. listed'[t] \subseteq Sent' /\ listed'[t] \cap Latest' \subseteq listed[t] \cap Latest
  BY <1>1 DEF Answers, TabKnows
<1>3. ASSUME NEW r \in Request, newest'[t] = r, Fetched(r)'
      PROVE  listed'[t] \cap Latest' \subseteq request'[r].seen
  <2>1. newest[t] = r
    BY <1>3
  <2> QED BY <1>1, <1>2, <1>3, <2>1 DEF Answers, TabKnows
<1>4. listed'[t] \cap Latest' \subseteq ToSet(shown[t])
  BY <1>1, <1>2 DEF TabKnows
<1>5. ToSet(shown[t])' = ToSet(shown[t])
  BY DEF ToSet
<1> QED BY <1>1, <1>2, <1>3, <1>4, <1>5 DEF TabKnows

LEMMA AskAnswers ==
  ASSUME ShownInv, NEW r \in Request, NEW u, Ask(r, u)
  PROVE  Answers /\ ~Fetched(r)' /\ UNCHANGED msg
<1> DEFINE new == [NoRequest EXCEPT !.stage = "asked", !.user = u]
<1>1. request' = [request EXCEPT ![r] = new] /\ UNCHANGED msg
  BY DEF Ask
<1>2. {"stage", "seen"} \subseteq DOMAIN new /\ new.stage = "asked" /\ new.seen = {}
  BY DEF NoRequest
<1> HIDE DEF new
<1>3. Sent' = Sent /\ Latest' = Latest
  BY <1>1 DEF Sent, Latest, NewestOf
<1> QED BY <1>1, <1>2, <1>3 DEF ShownInv, Answers, RequestKnows, Fetched

LEMMA EndAnswers ==
  ASSUME ShownInv, NEW r \in Request, End(r)
  PROVE  Answers /\ ~Fetched(r)' /\ UNCHANGED msg
<1>1. request' = [request EXCEPT ![r] = NoRequest] /\ UNCHANGED msg
  BY DEF End
<1>2. {"stage", "seen"} \subseteq DOMAIN NoRequest /\ NoRequest.stage = "idle" /\ NoRequest.seen = {}
  BY DEF NoRequest
<1>3. Sent' = Sent /\ Latest' = Latest
  BY <1>1 DEF Sent, Latest, NewestOf
<1> QED BY <1>1, <1>2, <1>3 DEF ShownInv, Answers, RequestKnows, Fetched

LEMMA ServeAnswers ==
  ASSUME ShownInv, NEW r \in Request, Serve(r)
  PROVE  Answers /\ UNCHANGED msg
<1>1. UNCHANGED msg /\ Sent' = Sent /\ Latest' = Latest
  BY DEF Serve, Fetch, FirstMark, SecondMark, Sent, Latest, NewestOf
<1>2. DOMAIN request = Request /\ \A q \in Request : RequestKnows(q)
  BY DEF ShownInv
<1> DEFINE Becomes(new) ==
      /\ request' = [request EXCEPT ![r] = new] /\ {"stage", "seen"} \subseteq DOMAIN new
      /\ new.seen = Latest \/ (Fetched(r) /\ new.seen = request[r].seen)
<1>3. \E new : Becomes(new)
  <2>1. CASE Fetch(r)
    <3>1. request' = [request EXCEPT ![r] = [request[r] EXCEPT !.stage = "fetched", !.seen = Latest]]
      BY <2>1 DEF Fetch, Latest
    <3> DEFINE new == [request[r] EXCEPT !.stage = "fetched", !.seen = Latest]
    <3>2. {"stage", "seen"} \subseteq DOMAIN new /\ new.seen = Latest
      BY <1>2 DEF RequestKnows
    <3> HIDE DEF new
    <3> QED BY <3>1, <3>2 DEF new
  <2>2. ASSUME NEW x, Fetched(r), request' = [request EXCEPT ![r].stage = x] PROVE \E new : Becomes(new)
    <3>1. request' = [request EXCEPT ![r] = [request[r] EXCEPT !.stage = x]]
      BY <2>2
    <3> QED BY <1>2, <2>2, <3>1 DEF RequestKnows
  <2>3. ASSUME NEW x, NEW at, Fetched(r), request' = [request EXCEPT ![r].stage = x, ![r].at = at]
        PROVE  \E new : Becomes(new)
    <3>1. request' = [request EXCEPT ![r] = [request[r] EXCEPT !.stage = x, !.at = at]]
      BY <2>3
    <3> QED BY <1>2, <2>3, <3>1 DEF RequestKnows
  <2>4. CASE FirstMark(r)
    BY <2>2, <2>3, <2>4 DEF FirstMark, Fetched
  <2>5. CASE SecondMark(r)
    BY <2>3, <2>5 DEF SecondMark, Fetched
  <2> QED BY <2>1, <2>4, <2>5 DEF Serve
<1>4. PICK new : Becomes(new)
  BY <1>3
<1>5. /\ DOMAIN request' = Request /\ request'[r] = new
      /\ \A q \in Request \ {r} : request'[q] = request[q]
  BY <1>2, <1>4
<1>6. Latest \subseteq Sent
  BY DEF Latest, NewestOf
<1> QED BY <1>1, <1>2, <1>4, <1>5, <1>6 DEF Answers, RequestKnows, Fetched

LEMMA SameRequests ==
  ASSUME ShownInv, UNCHANGED request, msg' \in Seq(MessageState), Sent \subseteq Sent'
  PROVE  Answers
BY Aging DEF ShownInv, Answers, RequestKnows, Fetched

LEMMA SentGrows ==
  ASSUME ShownInv, NEW i \in DOMAIN msg, msg[i].state = "writing", msg' = [msg EXCEPT ![i].state = "sent"]
  PROVE  msg' \in Seq(MessageState) /\ i \in Nat /\ Sent' = Sent \cup {i}
<1>1. msg \in Seq(MessageState) /\ msg[i] \in MessageState /\ i \in Nat
  BY DEF ShownInv
<1>2. /\ [msg[i] EXCEPT !.state = "sent"] \in MessageState /\ [msg[i] EXCEPT !.state = "sent"].state = "sent"
      /\ msg' = [msg EXCEPT ![i] = [msg[i] EXCEPT !.state = "sent"]]
  BY <1>1 DEF MessageState
<1> DEFINE new == [msg[i] EXCEPT !.state = "sent"]
<1> HIDE DEF new
<1>3. /\ msg' \in Seq(MessageState) /\ DOMAIN msg' = DOMAIN msg /\ msg'[i] = new
      /\ \A j \in DOMAIN msg \ {i} : msg'[j] = msg[j]
  BY <1>1, <1>2 DEF new
<1> QED BY <1>1, <1>2, <1>3 DEF Sent, new

LEMMA ShownBegins == Init => ShownInv
<1> SUFFICES ASSUME Init PROVE ShownInv
  OBVIOUS
<1>1. msg \in Seq(MessageState) /\ request = [r \in Request |-> NoRequest]
  BY EarlierMessages DEF Init, MessagesInit
<1>2. NoRequest.seen = {} /\ {"stage", "seen"} \subseteq DOMAIN NoRequest /\ NoRequest.stage = "idle"
  BY DEF NoRequest
<1>3. \A r \in Request : RequestKnows(r) /\ ~Fetched(r)
  BY <1>1, <1>2 DEF RequestKnows, Fetched
<1>4. <<>> \in Seq(Nat) /\ IsInjective(<<>>)
  BY DEF IsInjective
<1>5. \A t \in Tab : TabKnows(t)
  BY <1>3, <1>4 DEF Init, TabKnows
<1> QED BY <1>1, <1>3, <1>4, <1>5 DEF Init, ShownInv

\* A step on one workspace, which leaves the others alone.
Others(t) ==
  /\ DOMAIN shown' = Tab /\ DOMAIN wire' = Tab /\ DOMAIN sending' = Tab /\ DOMAIN listed' = Tab
  /\ DOMAIN newest' = Tab
  /\ \A u \in Tab \ {t} :
       /\ shown'[u] = shown[u] /\ wire'[u] = wire[u] /\ sending'[u] = sending[u]
       /\ listed'[u] = listed[u] /\ newest'[u] = newest[u]

LEMMA OneTabMoves ==
  ASSUME ShownInv, Answers, msg' \in Seq(MessageState), NEW t \in Tab, Others(t), TabKnows(t)'
  PROVE  ShownInv'
<1>1. \A u \in Tab \ {t} : TabKnows(u)'
  BY TabStands DEF Others
<1> QED BY <1>1 DEF ShownInv, Answers, Others

\* A step that leaves all of them alone, but for the refreshes they wait for.
LEMMA AllTabsStand ==
  ASSUME ShownInv, Answers, msg' \in Seq(MessageState), UNCHANGED <<shown, wire, sending, listed>>,
         DOMAIN newest' = Tab, \A t \in Tab, r \in Request : newest'[t] = r => newest[t] = r \/ ~Fetched(r)'
  PROVE  ShownInv'
<1>1. \A t \in Tab : TabKnows(t)'
  BY TabStands
<1> QED BY <1>1 DEF ShownInv, Answers


LEMMA TabStepShows ==
  ASSUME ShownInv, QuietInv, NEW t \in Tab, TabStep(t)
  PROVE  ShownInv'
<1>1. TabKnows(t) /\ msg \in Seq(MessageState)
  BY DEF ShownInv
<1> DEFINE Asks == \E r \in Request : Ask(r, Owner[t]) /\ newest' = [newest EXCEPT ![t] = r]
<1>2. CASE Asks /\ UNCHANGED <<shown, wire, sending, listed>>
  <2>1. PICK r \in Request : Ask(r, Owner[t]) /\ newest' = [newest EXCEPT ![t] = r]
    BY <1>2
  <2>2. Answers /\ ~Fetched(r)' /\ UNCHANGED msg
    BY <2>1, AskAnswers
  <2>3. Others(t)
    BY <1>2, <2>1 DEF Others, ShownInv
  <2>4. newest'[t] = r
    BY <2>1 DEF ShownInv
  <2>5. TabKnows(t)'
    BY <1>2, <2>2, <2>4, TabStands
  <2> QED BY <1>1, <2>2, <2>3, <2>5, OneTabMoves
<1> DEFINE Rests == UNCHANGED <<request, msg>>
<1>3. Rests => Answers /\ Sent' = Sent /\ Latest' = Latest /\ \A r \in Request : Fetched(r)' <=> Fetched(r)
  BY <1>1, SameRequests DEF Sent, Fetched, Latest, NewestOf
<1>4. ASSUME Rests, Others(t), newest'[t] = newest[t], listed'[t] = listed[t],
             shown'[t] \in Seq(Nat), IsInjective(shown'[t]), ToSet(shown[t]) \subseteq ToSet(shown'[t]),
             wire'[t] \in Seq(Nat), sending'[t] \in Nat
      PROVE  ShownInv'
  <2>1. TabKnows(t)'
    <3>1. ToSet(shown)' = ToSet(shown')
      BY DEF ToSet
    <3> QED BY <1>1, <1>3, <1>4 DEF TabKnows
  <2> QED BY <1>1, <1>3, <1>4, <2>1, OneTabMoves
<1>5. CASE Open(t)
  BY <1>2, <1>5 DEF Open
<1>6. CASE Close(t)
  <2>1. /\ UNCHANGED <<msg, request>>
        /\ shown' = [shown EXCEPT ![t] = <<>>] /\ newest' = [newest EXCEPT ![t] = None]
        /\ sending' = [sending EXCEPT ![t] = 0] /\ wire' = [wire EXCEPT ![t] = <<>>]
        /\ listed' = [listed EXCEPT ![t] = {}]
    BY <1>6 DEF Close, messageVars
  <2>2. /\ Others(t) /\ shown'[t] = <<>> /\ wire'[t] = <<>> /\ sending'[t] = 0 /\ listed'[t] = {}
    BY <2>1 DEF Others, ShownInv
  <2>3. <<>> \in Seq(Nat) /\ IsInjective(<<>>)
    BY DEF IsInjective
  <2>4. TabKnows(t)'
    BY <2>2, <2>3 DEF TabKnows
  <2> QED BY <1>1, <1>3, <2>1, <2>2, <2>4, OneTabMoves
<1>7. CASE Refresh(t)
  BY <1>2, <1>7 DEF Refresh
<1>8. CASE Send(t)
  <2>1. Write(Owner[t]) /\ sending' = [sending EXCEPT ![t] = Len(msg) + 1]
        /\ UNCHANGED <<shown, newest, wire, listed>>
    BY <1>8 DEF Send
  <2>2. msg' \in Seq(MessageState) /\ Sent' = Sent /\ UNCHANGED request
    BY <2>1, WriteIsQuiet, OwnerOfTab DEF Write
  <2>3. Others(t) /\ sending'[t] = Len(msg) + 1
    BY <2>1 DEF Others, ShownInv
  <2>4. Len(msg) + 1 \in Nat
    BY <1>1
  <2>5. Answers /\ Latest' = Latest /\ \A r \in Request : Fetched(r)' <=> Fetched(r)
    BY <2>2, SameRequests DEF Fetched, Latest, NewestOf
  <2>6. TabKnows(t)'
    BY <1>1, <2>1, <2>2, <2>3, <2>4, <2>5 DEF TabKnows
  <2> QED BY <2>2, <2>3, <2>5, <2>6, OneTabMoves
<1>9. CASE Answer(t)
  <2>1. PICK s \in {shown[t], With(shown[t], sending[t])} :
          /\ shown' = [shown EXCEPT ![t] = s] \/ (s = shown[t] /\ UNCHANGED shown)
          /\ sending' = [sending EXCEPT ![t] = 0] /\ UNCHANGED <<msg, request, newest, wire, listed>>
    BY <1>9 DEF Answer, messageVars
  <2>2. s \in Seq(Nat) /\ IsInjective(s) /\ ToSet(shown[t]) \subseteq ToSet(s)
    BY <1>1, WithKeeps DEF TabKnows
  <2>3. Others(t) /\ shown'[t] = s /\ sending'[t] = 0
    BY <2>1 DEF Others, ShownInv
  <2>4. wire'[t] \in Seq(Nat) /\ sending'[t] \in Nat /\ newest'[t] = newest[t] /\ listed'[t] = listed[t]
    BY <1>1, <2>1, <2>3 DEF TabKnows
  <2>5. shown'[t] \in Seq(Nat) /\ IsInjective(shown'[t]) /\ ToSet(shown[t]) \subseteq ToSet(shown'[t])
    BY <2>2, <2>3
  <2>6. Rests
    BY <2>1
  <2> HIDE DEF Rests
  <2> QED BY <1>4, <2>3, <2>4, <2>5, <2>6
<1>10. CASE Connect(t)
  BY <1>2, <1>10 DEF Connect
<1>11. CASE Join(t) \/ Disconnect(t)
  <2>1. /\ UNCHANGED <<msg, request, shown, newest, sending, listed>>
        /\ UNCHANGED wire \/ wire' = [wire EXCEPT ![t] = <<>>]
    BY <1>11 DEF Join, Disconnect, messageVars
  <2>2. Others(t) /\ (wire'[t] = wire[t] \/ wire'[t] = <<>>)
    BY <2>1 DEF Others, ShownInv
  <2>3. wire'[t] \in Seq(Nat) /\ sending'[t] \in Nat /\ newest'[t] = newest[t] /\ listed'[t] = listed[t]
    <3>1. wire[t] \in Seq(Nat) /\ sending[t] \in Nat /\ <<>> \in Seq(Nat)
      BY <1>1 DEF TabKnows
    <3>2. sending'[t] = sending[t] /\ newest'[t] = newest[t] /\ listed'[t] = listed[t]
      BY <2>1
    <3> QED BY <2>2, <3>1, <3>2
  <2>4. shown'[t] \in Seq(Nat) /\ IsInjective(shown'[t]) /\ ToSet(shown[t]) \subseteq ToSet(shown'[t])
    BY <1>1, <2>1 DEF TabKnows
  <2>5. Rests
    BY <2>1
  <2> HIDE DEF Rests
  <2> QED BY <1>4, <2>2, <2>3, <2>4, <2>5
<1>12. CASE Hear(t)
  <2> DEFINE s == With(shown[t], Head(wire[t]))
  <2>1. /\ wire[t] # <<>> /\ shown' = [shown EXCEPT ![t] = s] /\ wire' = [wire EXCEPT ![t] = Tail(wire[t])]
        /\ UNCHANGED <<msg, request, newest, sending, listed>>
    BY <1>12 DEF Hear, messageVars
  <2>2. Head(wire[t]) \in Nat /\ Tail(wire[t]) \in Seq(Nat)
    BY <1>1, <2>1 DEF TabKnows
  <2>3. s \in Seq(Nat) /\ IsInjective(s) /\ ToSet(shown[t]) \subseteq ToSet(s)
    BY <1>1, <2>2, WithKeeps DEF TabKnows
  <2> HIDE DEF s
  <2>4. Others(t) /\ shown'[t] = s /\ wire'[t] = Tail(wire[t])
    BY <2>1 DEF Others, ShownInv
  <2> QED BY <1>1, <1>4, <2>1, <2>2, <2>3, <2>4 DEF TabKnows
<1>13. ASSUME NEW r \in Request, Apply(t, r) PROVE ShownInv'
  <2> DEFINE S == request[r].seen  s == InOrder(S)
  <2>1. /\ newest[t] = r /\ request[r].stage = "done" /\ shown' = [shown EXCEPT ![t] = s]
        /\ listed' = [listed EXCEPT ![t] = listed[t] \cup S] /\ newest' = [newest EXCEPT ![t] = None]
        /\ End(r) /\ UNCHANGED <<sending, wire>>
    BY <1>13 DEF Apply
  <2>2. Answers /\ UNCHANGED msg /\ Sent' = Sent /\ Latest' = Latest
    BY <2>1, EndAnswers DEF Sent, Latest, NewestOf
  <2>3. S \subseteq Sent /\ listed[t] \subseteq Sent /\ listed[t] \cap Latest \subseteq S
    BY <1>1, <2>1 DEF ShownInv, RequestKnows, TabKnows, Fetched
  <2>4. s \in Seq(Nat) /\ ToSet(s) = S /\ IsInjective(s)
    BY <1>1, <2>3, SentIsFinite, InOrderLists
  <2> HIDE DEF S, s
  <2>5. Others(t) /\ shown'[t] = s /\ listed'[t] = listed[t] \cup S /\ newest'[t] = None
    BY <2>1, <2>3 DEF Others, ShownInv
  <2>6. TabKnows(t)'
    BY <1>1, <2>1, <2>2, <2>3, <2>4, <2>5, RequestsAreNamed DEF TabKnows, None
  <2> QED BY <1>1, <2>2, <2>5, <2>6, OneTabMoves
<1> QED BY <1>5, <1>6, <1>7, <1>8, <1>9, <1>10, <1>11, <1>12, <1>13 DEF TabStep

LEMMA ShownStep ==
  ASSUME ShownInv, QuietInv, Next \/ UNCHANGED vars
  PROVE  ShownInv'
<1>1. msg \in Seq(MessageState)
  BY DEF ShownInv
<1>2. ASSUME Answers, msg' \in Seq(MessageState), UNCHANGED tabVars PROVE ShownInv'
  BY <1>2, AllTabsStand DEF tabVars, ShownInv
<1>3. ASSUME msg' \in Seq(MessageState), Sent' = Sent, UNCHANGED <<request, tabVars>> PROVE ShownInv'
  BY <1>2, <1>3, SameRequests
<1>4. CASE UNCHANGED vars
  BY <1>1, <1>3, <1>4 DEF vars, messageVars, Sent
<1>5. ASSUME NEW r \in Request, Drop(r) PROVE ShownInv'
  <2>1. /\ End(r) /\ newest' = [t \in Tab |-> IF newest[t] = r THEN None ELSE newest[t]]
        /\ UNCHANGED <<shown, wire, sending, listed>>
    BY <1>5 DEF Drop
  <2>2. Answers /\ UNCHANGED msg
    BY <2>1, EndAnswers
  <2>3. DOMAIN newest' = Tab /\ \A t \in Tab : newest'[t] = newest[t] \/ newest'[t] \notin Request
    BY <2>1, RequestsAreNamed DEF None
  <2> QED BY <1>1, <2>1, <2>2, <2>3, AllTabsStand
<1>6. ASSUME NEW i \in DOMAIN msg, Publish(i) PROVE ShownInv'
  <2>1. /\ msg[i].state = "writing" /\ msg' = [msg EXCEPT ![i].state = "sent"] /\ UNCHANGED request
        /\ wire' = [t \in Tab |-> IF t \in Joined THEN Append(wire[t], i) ELSE wire[t]]
        /\ UNCHANGED <<shown, newest, sending, listed>>
    BY <1>6 DEF Publish, Commit
  <2>2. msg' \in Seq(MessageState) /\ i \in Nat /\ Sent' = Sent \cup {i}
    BY <2>1, SentGrows
  <2>3. Answers /\ \A r \in Request : Fetched(r)' <=> Fetched(r)
    BY <2>1, <2>2, SameRequests DEF Fetched
  <2>4. ASSUME NEW t \in Tab PROVE TabKnows(t)'
    <3>1. TabKnows(t)
      BY DEF ShownInv
    <3>2. wire'[t] = wire[t] \/ wire'[t] = Append(wire[t], i)
      BY <2>1
    <3>3. wire'[t] \in Seq(Nat)
      <4>1. wire[t] \in Seq(Nat)
        BY <3>1 DEF TabKnows
      <4>2. Append(wire[t], i) \in Seq(Nat)
        BY <2>2, <4>1
      <4> QED BY <3>2, <4>1, <4>2
    <3>4. listed'[t] \subseteq Sent' /\ listed'[t] \cap Latest' \subseteq listed[t] \cap Latest
      BY <2>1, <2>2, <2>3, <3>1 DEF TabKnows, Answers
    <3> QED BY <2>1, <2>3, <3>1, <3>3, <3>4 DEF TabKnows
  <2>5. DOMAIN wire' = Tab
    BY <2>1
  <2> QED BY <2>1, <2>2, <2>3, <2>4, <2>5 DEF ShownInv, Answers
<1>7. ASSUME NEW u, HideConversation(u) PROVE ShownInv'
  <2>1. UNCHANGED <<msg, request, shown, newest, sending, wire, listed>>
    BY <1>7 DEF HideConversation, Hide
  <2>2. Answers /\ UNCHANGED msg
    BY <1>1, <2>1, SameRequests DEF Sent
  <2> QED BY <1>1, <2>1, <2>2, AllTabsStand DEF ShownInv
<1>8. CASE Elsewhere
  <2>1. ASSUME NEW u \in User, Write(u), UNCHANGED tabVars PROVE ShownInv'
    BY <1>3, <2>1, WriteIsQuiet DEF Write
  <2>2. ASSUME NEW i \in DOMAIN msg, RollBack(i), UNCHANGED tabVars PROVE ShownInv'
    <3>1. msg[i].state = "writing" /\ msg' = [msg EXCEPT ![i].state = "lost"] /\ UNCHANGED request
      BY <2>2 DEF RollBack
    <3> QED BY <1>3, <2>2, <3>1, OutcomeIsQuiet
  <2>3. ASSUME NEW r \in Request, Serve(r), UNCHANGED tabVars PROVE ShownInv'
    BY <1>1, <1>2, <2>3, ServeAnswers
  <2>4. ASSUME NEW u, NEW p, NEW a, Prefer(u, p, a), UNCHANGED tabVars PROVE ShownInv'
    BY <1>1, <1>3, <2>4 DEF Prefer, Sent
  <2> QED BY <1>8, <2>1, <2>2, <2>3, <2>4 DEF Elsewhere
<1> QED BY <1>4, <1>5, <1>6, <1>7, <1>8, TabStepShows DEF Next

-----------------------------------------------------------------------------
(* Sockets *)

SocketRow == [stage : {"new", "verified", "user found", "session found", "served", "refused"},
              session : Session \cup {"none"}, version : Nat, expires : Nat]

WatchInv == /\ auth \in [Connection -> SocketRow] /\ connected \subseteq Connection
            /\ version \in Nat /\ clock \in Nat
            /\ ServedIsWatched

LEMMA WatchInit == G!SessionsInit /\ G!GatewayInit => WatchInv
BY DEF G!SessionsInit, G!GatewayInit, WatchInv, SocketRow, ServedIsWatched, G!ServedIsWatched

\* Every step of the gateway, by what it does to the registry.
LEMMA WatchStep ==
  ASSUME WatchInv, G!GatewayNext \/ UNCHANGED gateVars
  PROVE  WatchInv'
<1> DEFINE Counts == version' \in {version, version + 1} /\ clock' \in {clock, clock + 1}
<1>1. version' \in Nat /\ clock' \in Nat
  <2>1. CASE UNCHANGED gateVars \/ UNCHANGED G!sessionVars \/ (\E s \in Session : G!EndOne(s)) \/ G!EndAll
    <3>1. Counts
      BY <2>1 DEF gateVars, G!sessionVars, G!EndOne, G!EndAll, G!RevokeAll, G!BumpVersion, G!Bump
    <3> QED BY <3>1 DEF WatchInv
  <2>2. CASE G!Tick \/ (\E s \in Session : G!BeginSignIn(s) \/ G!SignIn(s)) \/ G!BeginRevokeAll \/ G!AbortRevokeAll
    <3>1. Counts
      BY <2>2 DEF G!Tick, G!BeginSignIn, G!SignIn, G!BeginRevokeAll, G!AbortRevokeAll
    <3> QED BY <3>1 DEF WatchInv
  <2> QED BY <2>1, <2>2 DEF G!GatewayNext
<1>2. CASE UNCHANGED <<auth, connected, registered, watched>>
  BY <1>1, <1>2 DEF WatchInv, ServedIsWatched, G!ServedIsWatched
<1>3. ASSUME NEW k \in Connection, NEW s \in Session, G!Handshake(k, s)
      PROVE  WatchInv'
  <2>1. /\ auth[k].stage = "new" /\ connected' = connected \cup {k} /\ UNCHANGED <<registered, watched>>
        /\ auth' = [auth EXCEPT ![k] = [stage |-> "verified", session |-> s, version |-> version,
                                        expires |-> clock + AccessTime]]
    BY <1>3 DEF G!Handshake
  <2>2. clock + AccessTime \in Nat
    BY SocketLimits DEF WatchInv
  <2>3. auth' \in [Connection -> SocketRow] /\ auth'[k].stage = "verified"
        /\ \A j \in Connection \ {k} : auth'[j] = auth[j]
    BY <2>1, <2>2 DEF WatchInv, SocketRow
  <2> QED BY <1>1, <2>1, <2>3 DEF WatchInv, ServedIsWatched, G!ServedIsWatched
<1>4. ASSUME NEW k \in Connection, G!FindUser(k) \/ G!FindSession(k)
      PROVE  WatchInv'
  <2>1. PICK x \in {"user found", "session found", "refused"} :
          /\ auth' = [auth EXCEPT ![k].stage = x] /\ UNCHANGED registered
          /\ x = "refused" => connected' = connected \ {k} /\ watched' = watched \ ({k} \cap connected)
          /\ x # "refused" => connected' = connected \ {} /\ watched' = watched \ ({} \cap connected)
    BY <1>4 DEF G!FindUser, G!FindSession, G!Check, G!Gone
  <2>2. /\ auth' \in [Connection -> SocketRow] /\ auth'[k].stage = x
        /\ \A j \in Connection \ {k} : auth'[j] = auth[j]
    BY <2>1 DEF WatchInv, SocketRow
  <2> QED BY <1>1, <2>1, <2>2 DEF WatchInv, ServedIsWatched, G!ServedIsWatched
<1>5. ASSUME NEW k \in Connection, G!Register(k) PROVE WatchInv'
  <2>1. /\ auth' = [auth EXCEPT ![k].stage = "served"] /\ registered' = registered \cup {k}
        /\ watched' = watched \cup {k} /\ UNCHANGED connected
    BY <1>5 DEF G!Register
  <2>2. auth' \in [Connection -> SocketRow] /\ \A j \in Connection \ {k} : auth'[j] = auth[j]
    BY <2>1 DEF WatchInv, SocketRow
  <2> QED BY <1>1, <2>1, <2>2 DEF WatchInv, ServedIsWatched, G!ServedIsWatched
<1>6. ASSUME NEW K, connected' = connected \ K, registered' = registered \ K, watched' = watched \ (K \cap connected),
             UNCHANGED auth
      PROVE  WatchInv'
  BY <1>1, <1>6 DEF WatchInv, ServedIsWatched, G!ServedIsWatched
<1>7. ASSUME NEW K, connected' = connected \ (K \cap registered), registered' = registered \ K,
             watched' = watched \ ((K \cap registered) \cap connected), UNCHANGED auth
      PROVE  WatchInv'
  BY <1>1, <1>7 DEF WatchInv, ServedIsWatched, G!ServedIsWatched
<1>8. ASSUME NEW k \in Connection, G!Leave(k) PROVE WatchInv'
  BY <1>6, <1>8 DEF G!Leave, G!Gone
<1>9. ASSUME NEW K, G!DisconnectRegistered(K) PROVE WatchInv'
  BY <1>7, <1>9 DEF G!DisconnectRegistered, G!Gone
<1>10. ASSUME NEW k \in Connection, G!Revalidate(k) \/ G!Expire(k) PROVE WatchInv'
  BY <1>9, <1>10 DEF G!Revalidate, G!Expire
<1>11. ASSUME NEW x \in ending, G!Hear(x) PROVE WatchInv'
  BY <1>9, <1>11 DEF G!Hear
<1>12. CASE \/ UNCHANGED gateVars \/ G!Suspend \/ (\E s \in Session : G!EndOne(s)) \/ G!EndAll
            \/ UNCHANGED G!gatewayVars
  BY <1>2, <1>12 DEF gateVars, G!Suspend, G!EndOne, G!EndAll, G!End, G!gatewayVars
<1> QED BY <1>3, <1>4, <1>5, <1>8, <1>10, <1>11, <1>12 DEF G!GatewayNext, G!SocketStep

-----------------------------------------------------------------------------
\* No participant hides a conversation in which something was written since.
THEOREM HiddenStaysQuiet == AllSpec => []HiddenIsQuiet
<1>1. AllInit => QuietInv
  BY QuietInit DEF AllInit
<1>2. QuietInv /\ [AllNext]_allVars => QuietInv'
  BY QuietStep DEF AllNext, allVars
<1>3. QuietInv => HiddenIsQuiet
  BY DEF QuietInv
<1> QED BY <1>1, <1>2, <1>3, PTL DEF AllSpec

\* Of the newest messages, as many as a list has, what a refresh has shown stays,
\* however refreshes overtake each other.
THEOREM ListedStaysShown == AllSpec => []KeepsWhatWasListed
<1>1. AllInit => QuietInv /\ ShownInv
  BY QuietInit, ShownBegins DEF AllInit
<1>2. QuietInv /\ ShownInv /\ [AllNext]_allVars => QuietInv' /\ ShownInv'
  BY QuietStep, ShownStep DEF AllNext, allVars
<1>3. ShownInv => KeepsWhatWasListed
  BY DEF ShownInv, TabKnows, KeepsWhatWasListed, Latest
<1> QED BY <1>1, <1>2, <1>3, PTL DEF AllSpec

\* A message is shown once, by whatever ways it comes.
THEOREM NothingShownTwice == AllSpec => []ShownOnce
<1>1. AllInit => QuietInv /\ ShownInv
  BY QuietInit, ShownBegins DEF AllInit
<1>2. QuietInv /\ ShownInv /\ [AllNext]_allVars => QuietInv' /\ ShownInv'
  BY QuietStep, ShownStep DEF AllNext, allVars
<1>3. ShownInv => ShownOnce
  BY DEF ShownInv, TabKnows, ShownOnce
<1> QED BY <1>1, <1>2, <1>3, PTL DEF AllSpec

\* A socket that is served and has not left is registered and looked at.
THEOREM ServedSocketsWatched == AllSpec => []ServedIsWatched
<1>1. AllInit => WatchInv
  BY WatchInit DEF AllInit
<1>2. WatchInv /\ [AllNext]_allVars => WatchInv'
  BY WatchStep DEF AllNext, allVars
<1>3. WatchInv => ServedIsWatched
  BY DEF WatchInv
<1> QED BY <1>1, <1>2, <1>3, PTL DEF AllSpec
=============================================================================
