------------------------------ MODULE UdpFrames ------------------------------
(***************************************************************************)
(* The request and response datagrams that a udp.Service and a udp.Server  *)
(* exchange (src/udp/udp.go), and the network between them.                *)
(*                                                                         *)
(* A run has a fixed set of client operations: each member of Calls is one *)
(* Service.Call and each member of Posts one Service.CallNoReturn.  A      *)
(* datagram is reduced to what the two ends tell apart: the SessionID, and *)
(* which operation it belongs to (the history field "of", which no action  *)
(* of the code reads: only the method and message type it determines are   *)
(* looked at).  The network is the set of all datagrams ever sent: one     *)
(* that is never received is lost, one received twice is duplicated, and   *)
(* the order of receipt is free, which is what UDP permits.                *)
(***************************************************************************)
EXTENDS Naturals, FiniteSets

CONSTANTS
    Calls,       \* the Service.Call invocations
    Posts,       \* the Service.CallNoReturn invocations
    NoCall,      \* what a lookup in an empty slot of the pending map yields
    MaxSession,  \* largest SessionID: 65535 in the code (uint16)
    Methods,     \* the method IDs of the service
    MethodOf,    \* the method each operation addresses
    Closers      \* the ends the application may close: "service", "server"

Senders == Calls \cup Posts

Sessions == 0..MaxSession

ASSUME SendersAssumption == /\ Calls \cap Posts = {}
                            /\ NoCall \notin Senders

ASSUME SessionAssumption == MaxSession \in Nat \ {0}

ASSUME MethodAssumption == MethodOf \in [Senders -> Methods]

Codes == {"OK", "NotOK", "UnknownMethod"}

Request == [session : Sessions, of : Senders]

Reply == [session : Sessions, of : Senders, code : Codes]

\* The content of an empty response channel or an idle read buffer.
NoReply == [session |-> 0, of |-> NoCall, code |-> "None"]

VARIABLES
    requests,  \* request datagrams sent so far, duplicated and lost at will
    replies    \* response datagrams sent so far

netVars == <<requests, replies>>

NetTypeOK == /\ requests \subseteq Request
             /\ replies \subseteq Reply

NetInit == requests = {} /\ replies = {}
=============================================================================
