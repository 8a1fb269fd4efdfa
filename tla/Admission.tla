------------------------------ MODULE Admission ------------------------------
(***************************************************************************)
(* The mutation endpoints of the playground (internal/playground/http.go): *)
(* checkMutation takes a token of the visitor's IP, reads the session      *)
(* header and takes a token of the session, then the handler reads the     *)
(* path or the body and calls the service.  The two limiters have a mutex  *)
(* each, so requests interleave between them.  Which status an answer has  *)
(* is left out.  readLimiter is a third RateLimiter that is asked alone.   *)
(***************************************************************************)
EXTENDS RateLimiter, FiniteSets

CONSTANTS
  Clients,      \* connections; each sends one request after the other
  IPs,          \* keys of mutationLimiter
  Sessions,     \* keys of sessionLimiter
  NoSession,    \* the header is missing or is not a UUID
  NoRequest

Request == [ip : IPs, session : Sessions \cup {NoSession}]

ASSUME AdmissionAssumption ==
  /\ IsFiniteSet(Clients)
  /\ NoSession \notin Sessions /\ NoRequest \notin Request
  /\ IPs \cap Sessions = {} /\ IPs \cup Sessions = Keys

VARIABLES
  at,        \* where the request of each client is
  request,   \* its IP and session
  served     \* observer: service calls for each IP and session so far

httpVars == <<at, request, served>>
allVars == <<vars, httpVars>>

AdmissionTypeOK ==
  /\ TypeOK
  /\ at \in [Clients -> {"idle", "arrived", "charged", "admitted"}]
  /\ request \in [Clients -> Request \cup {NoRequest}]
  /\ served \in [Keys -> Nat]
  /\ \A c \in Clients : at[c] = "idle" <=> request[c] = NoRequest

AdmissionInit ==
  /\ Init
  /\ at = [c \in Clients |-> "idle"]
  /\ request = [c \in Clients |-> NoRequest]
  /\ served = [k \in Keys |-> 0]
-----------------------------------------------------------------------------
Goto(c, place) == at' = [at EXCEPT ![c] = place] /\ UNCHANGED <<request, served>>

Answer(c) ==
  /\ at' = [at EXCEPT ![c] = "idle"]
  /\ request' = [request EXCEPT ![c] = NoRequest]

Arrive(c) ==
  /\ at[c] = "idle"
  /\ \E q \in Request : request' = [request EXCEPT ![c] = q]
  /\ at' = [at EXCEPT ![c] = "arrived"]
  /\ UNCHANGED <<vars, served>>

(* checkMutation: the IP pays first, whatever becomes of the request.      *)
ChargeIP(c) ==
  /\ at[c] = "arrived"
  /\ \/ Grant(request[c].ip) /\ Goto(c, "charged")
     \/ Deny(request[c].ip) /\ Answer(c) /\ UNCHANGED served

(* SessionFromRequest fails.                                               *)
RejectHeader(c) ==
  /\ at[c] = "charged"
  /\ request[c].session = NoSession
  /\ Answer(c)
  /\ UNCHANGED <<vars, served>>

(* Mutant: an answer of the limiter does not stop the request.             *)
ChargeSessionIgnored(c) ==
  /\ at[c] = "charged"
  /\ request[c].session # NoSession
  /\ Grant(request[c].session) \/ Deny(request[c].session)
  /\ Goto(c, "admitted")

ChargeSession(c) ==
  /\ at[c] = "charged"
  /\ request[c].session # NoSession
  /\ \/ Grant(request[c].session) /\ Goto(c, "admitted")
     \/ Deny(request[c].session) /\ Answer(c) /\ UNCHANGED served

(* decodeJSON, drainBoundedBody or uuid.Parse of the path fails.           *)
RejectInput(c) ==
  /\ at[c] = "admitted"
  /\ Answer(c)
  /\ UNCHANGED <<vars, served>>

(* The handler calls the service and answers what it returns.              *)
Serve(c) ==
  /\ at[c] = "admitted"
  /\ Answer(c)
  /\ served' = [k \in Keys |->
       IF k \in {request[c].ip, request[c].session} THEN served[k] + 1 ELSE served[k]]
  /\ UNCHANGED vars

AdmissionNext ==
  \/ \E c \in Clients :
       \/ Arrive(c) \/ ChargeIP(c) \/ RejectHeader(c) \/ ChargeSession(c)
       \/ RejectInput(c) \/ Serve(c)
  \/ (Tick \/ Observe) /\ UNCHANGED httpVars

AdmissionSpec == AdmissionInit /\ [][AdmissionNext]_allVars
-----------------------------------------------------------------------------
(* Mutations are limited per IP and per session: however requests of one   *)
(* visitor interleave between the two limiters, no more of them reach the  *)
(* service than both allow.                                                *)
MutationsLimited == \A k \in Keys : served[k] * Unit <= Allowance(k, now)
=============================================================================
