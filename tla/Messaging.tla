----------------------------- MODULE Messaging -----------------------------
(***************************************************************************)
(* Realtime messaging: the workspaces of a conversation, and the gateway   *)
(* their sockets are connected to.  To a workspace the gateway is what     *)
(* takes its socket away, so a behaviour shows one of them at work, and a  *)
(* workspace either with a socket or with a conversation that is hidden,   *)
(* pinned and archived (bounds).                                           *)
(***************************************************************************)
EXTENDS Workspace

CONSTANTS Session, Connection, AccessTime, MaxTime, MaxVersion

ASSUME SocketLimits == AccessTime \in Nat /\ MaxVersion \in Nat

VARIABLES
  scene,   \* which of them is at work
  clock, version, session, token, cookie, call, lock, everywhere, \* Sessions
  active, auth, connected, registered, watched, ending           \* Gateway

G == INSTANCE Gateway WITH Socket <- Connection, socket <- auth, Call <- {}, Grace <- 0,
       IdleTime <- MaxTime, AbsoluteTime <- MaxTime, MaxTokens <- 1

gateVars == <<clock, version, session, token, cookie, call, lock, everywhere,
              active, auth, connected, registered, watched, ending>>
allVars == <<vars, scene, gateVars>>

Scenes == {"live", "inbox", "gateway"}

AllTypeOK == TypeOK /\ G!SessionsTypeOK /\ G!GatewayTypeOK /\ scene \in Scenes

AllInit == Init /\ G!SessionsInit /\ G!GatewayInit /\ scene \in Scenes

NothingChosen == \A u \in User : ~row[u].hidden /\ ~row[u].pinned /\ ~row[u].archived

AllNext ==
  /\ UNCHANGED scene
  /\ \/ scene = "live" /\ Next /\ NothingChosen' /\ UNCHANGED gateVars
     \/ scene = "inbox" /\ Next /\ UNCHANGED <<socket, gateVars>>
     \/ scene = "gateway" /\ G!GatewayNext /\ UNCHANGED vars

\* The client's workspace, while the provider writes from a telephone.
OneTab == [t \in Tab |-> "client"]
OneRead == <<"provider">>

\* Of the other part nothing that fairness is about is ever enabled.
AllSpec == AllInit /\ [][AllNext]_allVars /\ Fairness /\ G!GatewayFairness

ServedIsWatched     == G!ServedIsWatched
DeadSocketForgotten == G!DeadSocketForgotten
=============================================================================
