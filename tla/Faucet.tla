------------------------------- MODULE Faucet -------------------------------
(***************************************************************************)
(* POST /faucet (http/server.ts, handleFaucet): a drip of test money for an  *)
(* address, with two calls to the chain awaited on the way.  An address has  *)
(* a slot (lastDrip) while it cools; the time that passes is an action.      *)
(***************************************************************************)
EXTENDS Integers, FiniteSets

CONSTANTS Addrs,
          Reqs,       \* requests that may be in flight together
          MaxDrips    \* bound: drips of an address within one cooldown

VARIABLES
  lastDrip,   \* the addresses whose slot is taken and still cools
  reqs,       \* reqs[q]: idle, or the address and what is awaited
  drips       \* history: drips to an address since it last was free to ask

vars == <<lastDrip, reqs, drips>>

Idle == [at |-> "idle"]

Init ==
  /\ lastDrip = {}
  /\ reqs = [q \in Reqs |-> Idle]
  /\ drips = [a \in Addrs |-> 0]

InFlight(a) == {q \in Reqs : reqs[q] # Idle /\ reqs[q].addr = a}

(* A request for an address that cools is refused (429) and changes nothing. *)
Ask(q, a) ==
  /\ reqs[q] = Idle
  /\ a \notin lastDrip
  /\ reqs' = [reqs EXCEPT ![q] = [at |-> "balance", addr |-> a]]
  /\ UNCHANGED <<lastDrip, drips>>

(* getBalance says the address has plenty: no drip, but it cools. *)
AlreadyFunded(q) ==
  /\ reqs[q].at = "balance"
  /\ lastDrip' = lastDrip \cup {reqs[q].addr}
  /\ reqs' = [reqs EXCEPT ![q] = Idle]
  /\ UNCHANGED drips

(* It has not, or the read failed: the slot is reserved and the drip sent. *)
Send(q) ==
  /\ reqs[q].at = "balance"
  /\ lastDrip' = lastDrip \cup {reqs[q].addr}
  /\ reqs' = [reqs EXCEPT ![q].at = "send"]
  /\ UNCHANGED drips

Sent(q) ==
  /\ reqs[q].at = "send"
  /\ drips[reqs[q].addr] < MaxDrips
  /\ drips' = [drips EXCEPT ![reqs[q].addr] = @ + 1]
  /\ reqs' = [reqs EXCEPT ![q] = Idle]
  /\ UNCHANGED lastDrip

(* "let them retry": the slot is given back, whoever holds it by now. *)
SendFailed(q) ==
  /\ reqs[q].at = "send"
  /\ lastDrip' = lastDrip \ {reqs[q].addr}
  /\ reqs' = [reqs EXCEPT ![q] = Idle]
  /\ UNCHANGED drips

(* FAUCET_COOLDOWN_MS is over.  It is far longer than a call to the chain:   *)
(* no request of the address is still in flight.                             *)
Cooled(a) ==
  /\ InFlight(a) = {}
  /\ lastDrip' = lastDrip \ {a}
  /\ drips' = [drips EXCEPT ![a] = 0]
  /\ UNCHANGED reqs

Next ==
  \/ \E q \in Reqs, a \in Addrs : Ask(q, a)
  \/ \E q \in Reqs : AlreadyFunded(q) \/ Send(q) \/ Sent(q) \/ SendFailed(q)
  \/ \E a \in Addrs : Cooled(a)

Spec == Init /\ [][Next]_vars
-----------------------------------------------------------------------------
(* "Reserve the slot before the (async) send so concurrent requests can't    *)
(* double-drip the same address": an address gets one drip in a cooldown.    *)
NoDoubleDrip == \A a \in Addrs : drips[a] <= 1
=============================================================================
