------------------------------ MODULE Gateway ------------------------------
(***************************************************************************)
(* MessagesGateway and SocketSessionRegistry: the sockets of one user.  A  *)
(* socket is authenticated step by step while sessions end, is closed when *)
(* its session ends, when its token expires or when a look every minute    *)
(* finds it invalid, and may leave at any time, also before its            *)
(* authentication is over.                                                 *)
(***************************************************************************)
EXTENDS Sessions

CONSTANTS
  Socket,     \* connections, each with an id of its own
  AccessTime  \* ACCESS_TOKEN_TTL_SECONDS

VARIABLES
  active,     \* User.status is ACTIVE
  socket,     \* how far handleConnection is, and the token's payload
  connected,  \* sockets that are connected
  registered, \* those in the registry, each with a timer for the token's expiry
  watched,    \* revalidationTimers
  ending      \* sessions that have ended, or "all", of which the registry has not heard

gatewayVars == <<active, socket, connected, registered, watched, ending>>

GatewayTypeOK ==
  /\ active \in BOOLEAN
  /\ socket \in [Socket -> [stage : {"new", "verified", "user found", "session found", "served", "refused"},
                            session : Session \cup {"none"}, version : 0 .. MaxVersion,
                            expires : 0 .. MaxTime]]
  /\ connected \subseteq Socket /\ registered \subseteq Socket /\ watched \subseteq Socket
  /\ ending \subseteq Session \cup {"all"}

GatewayInit ==
  /\ active = TRUE
  /\ socket = [k \in Socket |-> [stage |-> "new", session |-> "none", version |-> 0, expires |-> 0]]
  /\ connected = {} /\ registered = {} /\ watched = {} /\ ending = {}

UserFound(k) == active /\ version = socket[k].version
SessionFound(k) ==
  LET s == session[socket[k].session] IN
  s.state = "live" /\ s.version = socket[k].version /\ s.expires > clock
\* What revalidate asks.
Authorised(k) == socket[k].expires > clock /\ UserFound(k) /\ SessionFound(k)

-----------------------------------------------------------------------------
\* A socket connects with the access token of a session ...
Handshake(k, s) ==
  /\ socket[k].stage = "new" /\ active /\ Valid(s, clock) /\ clock + AccessTime <= MaxTime
  /\ socket' = [socket EXCEPT ![k] = [stage |-> "verified", session |-> s, version |-> version,
                                      expires |-> clock + AccessTime]]
  /\ connected' = connected \cup {k}
  /\ UNCHANGED <<active, registered, watched, ending>>

\* disconnect of a socket calls handleDisconnect, unless it left before
Gone(K) ==
  /\ connected' = connected \ K
  /\ watched' = watched \ (K \cap connected)

Check(k, from, found, to) ==
  /\ socket[k].stage = from
  /\ socket' = [socket EXCEPT ![k].stage = IF found THEN to ELSE "refused"]
  /\ Gone(IF found THEN {} ELSE {k})
  /\ UNCHANGED <<active, registered, ending>>

\* ... and handleConnection looks for its user, then for its session, ...
FindUser(k)    == Check(k, "verified", UserFound(k), "user found")
FindSession(k) == Check(k, "user found", SessionFound(k), "session found")

\* Slip: a socket that left is not registered, and is not watched if it stayed.
RegisterUnwatched(k) ==
  /\ socket[k].stage = "session found"
  /\ socket' = [socket EXCEPT ![k].stage = "served"]
  /\ registered' = registered \cup ({k} \cap connected)
  /\ UNCHANGED <<active, connected, watched, ending>>

\* ... before it registers the socket, connected or not.
Register(k) ==
  /\ socket[k].stage = "session found"
  /\ socket' = [socket EXCEPT ![k].stage = "served"]
  /\ registered' = registered \cup {k} /\ watched' = watched \cup {k}
  /\ UNCHANGED <<active, connected, ending>>

Leave(k) ==
  /\ k \in connected
  /\ Gone({k}) /\ registered' = registered \ {k}
  /\ UNCHANGED <<active, socket, ending>>

-----------------------------------------------------------------------------
\* Slip: the entry of a socket that left stays.
DisconnectConnected(K) ==
  /\ Gone(K \cap registered) /\ registered' = registered \ (K \cap connected)
  /\ UNCHANGED <<active, socket>>

\* disconnectSocket, disconnectMany
DisconnectRegistered(K) ==
  /\ Gone(K \cap registered) /\ registered' = registered \ K
  /\ UNCHANGED <<active, socket>>

OfSession(x) == {k \in registered : x \in {"all", socket[k].session}}

\* The registry hears of an end after the transaction that made it.
Hear(x) ==
  /\ x \in ending /\ ending' = ending \ {x}
  /\ DisconnectRegistered(OfSession(x))

Revalidate(k) ==
  /\ k \in watched /\ k \in registered /\ ~Authorised(k)
  /\ DisconnectRegistered({k}) /\ UNCHANGED ending

Expire(k) ==
  /\ k \in registered /\ socket[k].expires <= clock
  /\ DisconnectRegistered({k}) /\ UNCHANGED ending

\* The ends of sessions: logging out or a refresh that is refused, logging out
\* everywhere, and a new password.
End(x) ==
  /\ ending' = ending \cup {x}
  /\ UNCHANGED <<active, socket, connected, registered, watched>>

EndOne(s) ==
  /\ session[s].state = "live" /\ \E why \in Reasons : RevokeFamily(s, why)
  /\ UNCHANGED <<clock, version, cookie, call, everywhere>>
  /\ End(s)
EndAll == (RevokeAll \/ BumpVersion) /\ End("all")

\* Nothing tells the gateway of an account that is suspended.
Suspend ==
  /\ active' = FALSE
  /\ UNCHANGED <<socket, connected, registered, watched, ending>>

SocketStep(k) ==
  \/ \E s \in Session : Handshake(k, s)
  \/ FindUser(k) \/ FindSession(k) \/ Register(k) \/ Leave(k) \/ Revalidate(k) \/ Expire(k)

GatewayNext ==
  \/ UNCHANGED sessionVars /\ (Suspend \/ \E k \in Socket : SocketStep(k))
  \/ UNCHANGED sessionVars /\ \E x \in ending : Hear(x)
  \/ (\E s \in Session : EndOne(s)) \/ EndAll
  \/ UNCHANGED gatewayVars /\ (Tick \/ \E s \in Session : BeginSignIn(s) \/ SignIn(s))
  \/ UNCHANGED gatewayVars /\ (BeginRevokeAll \/ AbortRevokeAll)

\* Timers go off, and a socket leaves or not.
GatewayFairness ==
  /\ \A k \in Socket : WF_gatewayVars(Revalidate(k)) /\ WF_gatewayVars(Expire(k))
  /\ WF_<<sessionVars, gatewayVars>>(registered # {} /\ Tick /\ UNCHANGED gatewayVars)

-----------------------------------------------------------------------------
(* Properties *)

\* Whatever ends or leaves while a socket is being authenticated, one that is served
\* is in the registry and looked at every minute.
ServedIsWatched ==
  \A k \in connected : socket[k].stage = "served" => k \in registered /\ k \in watched

\* A socket that may no longer be served, or has left, is closed and forgotten in the
\* end, also when its session ended, or it left, just before it was registered.
DeadSocketForgotten ==
  \A k \in Socket : (socket[k].stage = "served" /\ (~Authorised(k) \/ k \notin connected)) ~>
                      k \notin connected \cup registered
=============================================================================
