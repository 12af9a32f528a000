------------------------------ MODULE AgentRpc ------------------------------
(***************************************************************************)
(* Planning by remote agents over MQTT: the request/reply client that the   *)
(* worker threads of a round share (mqtt_agent.py), its network thread, and *)
(* the planner process at the other end (mqtt_worker.py).  The broker       *)
(* delivers with QoS 1: a message arrives once, again, or, when its reader  *)
(* is not connected, never.                                                 *)
(***************************************************************************)
EXTENDS Naturals, FiniteSets

CONSTANTS
    Callers,       \* the threads that call request()
    MaxRequests,   \* bound of the model: requests of one caller
    MaxRepeats     \* bound of the model: repeated deliveries

ASSUME RpcAssumption == MaxRequests \in Nat /\ MaxRepeats \in Nat

VARIABLES
    caller,    \* where each caller is in request(), and its latest request
    pending,   \* _pending: the registered correlation ids
    slot,      \* what lies in the one-slot queues: their id and the reply's
    requests,  \* requests the broker holds for the planner
    replies,   \* replies the broker holds for the client
    network,   \* the reply the network thread is putting to its queue, if any
    answered,  \* the replies that request() has returned, by caller
    repeats

rpcVars == <<caller, pending, slot, requests, replies, network, answered, repeats>>

(* uuid4: no two requests share a correlation id. *)
Id == [from : Callers, nr : 1 .. MaxRequests]

Latest(c) == [from |-> c, nr |-> caller[c].nr]

(* Variant: a caller uses one correlation id for all its requests. *)
OneIdEach(c) == [from |-> c, nr |-> 1]

Correlation(c) == Latest(c)

RpcInit ==
    /\ caller = [c \in Callers |-> [pc |-> "idle", nr |-> 0]]
    /\ pending = {} /\ slot = {}
    /\ requests = {} /\ replies = {}
    /\ network = {}
    /\ answered = {}
    /\ repeats = 0

Move(c, pc) == caller' = [caller EXCEPT ![c].pc = pc]

(* request() up to the publish, which may fail. *)
Register(c) ==
    /\ caller[c].pc = "idle" /\ caller[c].nr < MaxRequests
    /\ caller' = [caller EXCEPT ![c] = [pc |-> "publish", nr |-> @.nr + 1]]
    /\ pending' = pending \cup {Correlation(c)'}
    /\ UNCHANGED <<slot, requests, replies, network, answered, repeats>>

Publish(c) ==
    /\ caller[c].pc = "publish"
    /\ \/ /\ requests' = requests \cup {[id |-> Correlation(c), of |-> Latest(c)]}
          /\ Move(c, "waiting")
       \/ Move(c, "over") /\ UNCHANGED requests
    /\ UNCHANGED <<pending, slot, replies, network, answered, repeats>>

(* waiter.get: the reply that lies in the queue, an error reply raises. *)
Get(c) ==
    /\ caller[c].pc = "waiting"
    /\ \E s \in slot :
          /\ s.id = Correlation(c)
          /\ slot' = slot \ {s}
          /\ answered' = answered \cup {[request |-> Latest(c), reply |-> s.reply]}
    /\ Move(c, "over")
    /\ UNCHANGED <<pending, requests, replies, network, repeats>>

Timeout(c) ==
    /\ caller[c].pc = "waiting"
    /\ \A s \in slot : s.id # Correlation(c)
    /\ Move(c, "over")
    /\ UNCHANGED <<pending, slot, requests, replies, network, answered, repeats>>

(* The finally clause, on every way out of request().  The queue goes with  *)
(* its last reference, unless the network thread still holds it.            *)
Unregister(c) ==
    /\ caller[c].pc = "over"
    /\ Move(c, "idle")
    /\ pending' = pending \ {Correlation(c)}
    /\ slot' = {s \in slot : s.id = Correlation(c) => \E n \in network : n.id = s.id}
    /\ UNCHANGED <<requests, replies, network, answered, repeats>>

(* A message leaves the broker, or stays to be delivered again. *)
Deliver(held, m) ==
    \/ held' = held \ {m} /\ UNCHANGED repeats
    \/ repeats < MaxRepeats /\ repeats' = repeats + 1 /\ UNCHANGED held

(* The planner answers every request it gets: with calls, or with an error. *)
Answer ==
    /\ \E m \in requests : Deliver(requests, m) /\ replies' = replies \cup {m}
    /\ UNCHANGED <<caller, pending, slot, network, answered>>

(* The planner or the client is not connected. *)
Lost ==
    /\ \/ \E m \in requests : requests' = requests \ {m} /\ UNCHANGED replies
       \/ \E m \in replies : replies' = replies \ {m} /\ UNCHANGED requests
    /\ UNCHANGED <<caller, pending, slot, network, answered, repeats>>

Got(m) == [id |-> m.id, reply |-> m.of]

(* on_message, first half: the waiter of the correlation id is looked up; a  *)
(* reply that nobody waits for is dropped.                                   *)
Receive ==
    /\ network = {}
    /\ \E m \in replies :
          /\ Deliver(replies, m)
          /\ network' = IF m.id \in pending THEN {Got(m)} ELSE {}
    /\ UNCHANGED <<caller, pending, slot, requests, answered>>

(* on_message, second half: put waits, without a timeout, for the queue to  *)
(* be empty; meanwhile the network thread serves nobody.                    *)
Put ==
    /\ \E n \in network :
          /\ \A s \in slot : s.id # n.id
          /\ slot' = IF \E c \in Callers : caller[c].pc # "idle" /\ Correlation(c) = n.id
                     THEN slot \cup {n} ELSE slot
    /\ network' = {}
    /\ UNCHANGED <<caller, pending, requests, replies, answered, repeats>>

CallerStep(c) == Register(c) \/ Publish(c) \/ Get(c) \/ Timeout(c) \/ Unregister(c)

RpcNext == (\E c \in Callers : CallerStep(c)) \/ Answer \/ Lost \/ Receive \/ Put

RpcSpec == RpcInit /\ [][RpcNext]_rpcVars

-----------------------------------------------------------------------------
(* Properties *)

(* A request returns the answer to itself: a reply that comes late, for a    *)
(* request that was given up, never answers the caller's next one.           *)
OwnAnswer == \A a \in answered : a.reply = a.request

=============================================================================
